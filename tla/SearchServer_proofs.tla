------------------------ MODULE SearchServer_proofs ------------------------
(***************************************************************************)
(* For any indexes and documents, any size of a page and any number of     *)
(* requests, statements and restarts: a client that reads the tasks page   *)
(* by page misses none, and a task that appears stands for the whole       *)
(* effect of its request if no MySQL client interfered.  Searches answer   *)
(* from the rows as they are if the text index is not behind, and miss no  *)
(* row if the scan tolerates typos, whatever the index holds.              *)
(***************************************************************************)
EXTENDS SearchServer, FiniteSetTheorems, TLAPS

\* What the walk has seen is, of the tasks there were when it began, at least as many
\* of the newest as the offset reaches: new tasks come in front and push the others
\* behind the offset, and what was seen stays seen.
Walk == [on : BOOLEAN, top : Nat, offset : Nat, seen : SUBSET Int]
Reached(w) == \A i \in 1..w.top : i > ntasks - w.offset => i \in w.seen

WalkInv ==
  /\ ntasks \in Nat /\ walk \in Walk /\ walk.top <= ntasks
  /\ Reached(walk) /\ WalkComplete

\* The next page: its tasks, and where it ends.
LEMMA PageFacts ==
  ASSUME ntasks \in Nat, NEW offset \in Nat
  PROVE  /\ \A k \in DOMAIN Page(Newest, offset) : Page(Newest, offset)[k] \in Int
         /\ \A i \in 1..ntasks : ntasks - offset - PageSize < i /\ i <= ntasks - offset
              => \E k \in DOMAIN Page(Newest, offset) : Page(Newest, offset)[k] = i
<1>1. PageSize \in Nat /\ PageSize >= 1
  BY SizesAssumption
<1>2. /\ Newest \in Seq(Int) /\ Len(Newest) = ntasks
      /\ \A k \in 1..ntasks : Newest[k] = ntasks + 1 - k
  BY DEF Newest
<1> DEFINE from == LeastOf(offset, ntasks) + 1
           to == LeastOf(offset + PageSize, ntasks)
           page == SubSeq(Newest, from, to)
<1>3. Page(Newest, offset) = page
  BY <1>2 DEF Page
<1>9. \A k \in DOMAIN page : page[k] \in Int
  <2>1. from \in 1..(ntasks + 1) /\ to \in 0..ntasks
    BY <1>1 DEF LeastOf
  <2> HIDE DEF from, to
  <2>2. page \in Seq(Int)
    BY <1>2, <2>1
  <2> QED BY <2>2
<1>4. SUFFICES ASSUME NEW i \in 1..ntasks,
                      ntasks - offset - PageSize < i, i <= ntasks - offset
               PROVE  \E k \in DOMAIN page : page[k] = i
  BY <1>3, <1>9
<1> DEFINE k == ntasks - offset - i + 1
<1>5. /\ from = offset + 1 /\ to \in Nat /\ to <= ntasks /\ k \in 1..(to - from + 1)
      /\ from + k - 1 = ntasks + 1 - i /\ from + k - 1 \in 1..ntasks
  BY <1>1, <1>4 DEF LeastOf
<1> HIDE DEF k, from, to
<1>6. DOMAIN page = 1..(to - from + 1) /\ \A m \in 1..(to - from + 1) : page[m] = Newest[from + m - 1]
  BY <1>2, <1>5
<1>7. page[k] = ntasks + 1 - (from + k - 1)
  BY <1>2, <1>5, <1>6
<1>8. page[k] = i
  BY <1>5, <1>7
<1> HIDE DEF page
<1> QED BY <1>5, <1>6, <1>8

\* A page that is read reaches one page further.
LEMMA NextPageStep ==
  ASSUME NEW w \in Walk, ntasks \in Nat, w.top <= ntasks, Reached(w),
         NextPage(w), ntasks' = ntasks
  PROVE  WalkInv'
<1> DEFINE page == Page(Newest, w.offset)
<1>1. PageSize \in Nat
  BY SizesAssumption
<1>2. /\ \A k \in DOMAIN page : page[k] \in Int
      /\ \A i \in 1..ntasks : ntasks - w.offset - PageSize < i /\ i <= ntasks - w.offset
           => \E k \in DOMAIN page : page[k] = i
  BY PageFacts DEF Walk
<1> HIDE DEF page
<1>3. /\ walk' = [w EXCEPT !.seen = @ \cup {page[k] : k \in DOMAIN page},
                          !.offset = @ + PageSize, !.on = w.offset + PageSize < ntasks]
  BY DEF NextPage, page
<1>4. /\ walk'.top = w.top /\ walk'.offset = w.offset + PageSize
      /\ walk'.on = (w.offset + PageSize < ntasks)
      /\ walk'.seen = w.seen \cup {page[k] : k \in DOMAIN page}
  BY <1>3 DEF Walk
<1>5. walk' \in Walk
  <2>1. walk' = [on |-> walk'.on, top |-> walk'.top, offset |-> walk'.offset, seen |-> walk'.seen]
    BY <1>3 DEF Walk
  <2>2. walk'.on \in BOOLEAN /\ walk'.top \in Nat /\ walk'.offset \in Nat
    BY <1>1, <1>4 DEF Walk
  <2>3. w.seen \subseteq Int /\ {page[k] : k \in DOMAIN page} \subseteq Int
    BY <1>2 DEF Walk
  <2>4. walk'.seen \in SUBSET Int
    BY <1>4, <2>3
  <2> QED BY <2>1, <2>2, <2>4 DEF Walk
<1>6. ASSUME NEW i \in 1..w.top, i > ntasks - walk'.offset
      PROVE  i \in walk'.seen
  <2>1. i \in 1..ntasks /\ w.offset \in Nat
    BY DEF Walk
  <2>2. CASE i > ntasks - w.offset
    BY <1>4, <2>2 DEF Reached
  <2>3. CASE i <= ntasks - w.offset
    <3>1. ntasks - w.offset - PageSize < i
      BY <1>1, <1>4, <1>6, <2>1
    <3> QED BY <1>2, <1>4, <2>1, <2>3, <3>1
  <2> QED BY <2>1, <2>2, <2>3
<1>7. Reached(walk)'
  BY <1>4, <1>6 DEF Reached
<1>8. WalkComplete'
  <2> SUFFICES ASSUME ~walk'.on, NEW i \in 1..w.top
               PROVE  i \in walk'.seen
    BY <1>4 DEF WalkComplete
  <2>1. w.offset \in Nat /\ w.top \in Nat /\ ~(w.offset + PageSize < ntasks)
    BY <1>4 DEF Walk
  <2>2. i > ntasks - walk'.offset
    BY <1>1, <1>4, <2>1
  <2> QED BY <1>6, <2>2
<1> QED BY <1>4, <1>5, <1>7, <1>8 DEF WalkInv

\* A step that leaves the walk alone and adds at most one task.
Elsewhere == walk' = walk /\ ntasks' \in {ntasks, ntasks + 1}

LEMMA ElsewhereStep ==
  ASSUME WalkInv, Elsewhere
  PROVE  WalkInv'
<1>1. Reached(walk)'
  BY DEF WalkInv, Elsewhere, Reached, Walk
<1> QED BY <1>1 DEF WalkInv, Elsewhere, WalkComplete, Walk

LEMMA RequestStep ==
  ASSUME Request
  PROVE  Elsewhere
<1> USE DEF Elsewhere, server, client
<1>1. ASSUME NEW op, NEW u, NEW arg, NEW D, NEW S, NEW next, Begin(op, u, arg, D, S, next)
      PROVE  Elsewhere
  BY <1>1 DEF Begin
<1>2. ASSUME NEW u \in Uids, UpdateIndex(u)
      PROVE  Elsewhere
  BY <1>2 DEF UpdateIndex, PushTask, counted
<1> QED
  BY <1>1, <1>2, Zenon
     DEF Request, CreateIndex, DeleteIndex, DeleteAll, SetSettings, AddDocuments, SeedTable,
         DeleteDocument, UpsertDocument, DeleteBatch, DeleteByFilter, SwapIndexes

LEMMA StepStep ==
  ASSUME Step
  PROVE  Elsewhere
<1> USE DEF Elsewhere, server, counted, client, local, GoOn, PushTask, Refuse
<1>1. CASE CreateExisting \/ CreateTable \/ DropTable \/ DropFails \/ Settle \/ Rebuild
  BY <1>1 DEF CreateExisting, CreateTable, DropTable, DropFails, Settle, Rebuild
<1>2. CASE Select \/ Truncate \/ TruncateFails \/ Deleted \/ Seed
  BY <1>2 DEF Select, Truncate, TruncateFails, Deleted, Seed
<1>3. ASSUME NEW i \in Ids, Delete(i) \/ DeleteFails(i)
      PROVE  Elsewhere
  BY <1>3 DEF Delete, DeleteFails
<1>4. ASSUME NEW S \in SUBSET Ids, SeedFails(S)
      PROVE  Elsewhere
  BY <1>4 DEF SeedFails
<1>5. CASE SwapRename1 \/ SwapRename2 \/ SwapRename3 \/ SwapFails
  BY <1>5 DEF SwapRename1, SwapRename2, SwapRename3, SwapFails
<1> QED BY <1>1, <1>2, <1>3, <1>4, <1>5 DEF Step

LEMMA SqlStep ==
  ASSUME SqlClient
  PROVE  Elsewhere
<1>1. ASSUME NEW S, Sql(S)
      PROVE  Elsewhere
  BY <1>1 DEF Sql, Elsewhere, server
<1> QED BY <1>1, Zenon DEF SqlClient, SqlCreate, SqlDrop, SqlWrite, SqlRename

LEMMA WalkStep ==
  ASSUME WalkInv, [Next]_vars
  PROVE  WalkInv'
<1>1. CASE Request \/ Step \/ SqlClient
  BY <1>1, RequestStep, StepStep, SqlStep, ElsewhereStep
<1>2. CASE Restart
  <2>1. ntasks' = 0 /\ walk' = NoWalk
    BY <1>2 DEF Restart
  <2> QED BY <2>1 DEF WalkInv, Walk, NoWalk, Reached, WalkComplete
<1>3. CASE ListTasks
  <2>1. ntasks' = ntasks
    BY <1>3 DEF ListTasks, server
  <2>2. CASE NextPage([NoWalk EXCEPT !.top = ntasks])
    <3> DEFINE w == [NoWalk EXCEPT !.top = ntasks]
    <3>1. NoWalk \in Walk /\ NoWalk.offset = 0 /\ ntasks \in Nat
      BY DEF WalkInv, NoWalk, Walk
    <3>4. w \in Walk /\ w.top <= ntasks /\ w.top = ntasks /\ w.offset = 0
      <4>1. w.top = ntasks /\ w.offset = 0 /\ w.on = NoWalk.on /\ w.seen = NoWalk.seen
        BY <3>1 DEF Walk
      <4>2. w = [on |-> w.on, top |-> w.top, offset |-> w.offset, seen |-> w.seen]
        BY <3>1 DEF Walk
      <4>3. w \in Walk
        BY <3>1, <4>1, <4>2 DEF Walk
      <4> QED BY <3>1, <4>1, <4>3
    <3>2. Reached(w)
      BY <3>1, <3>4 DEF Reached
    <3> HIDE DEF w
    <3>3. NextPage(w)
      BY <2>2 DEF w
    <3> QED BY <2>1, <3>1, <3>2, <3>3, <3>4, NextPageStep
  <2>3. CASE NextPage(walk)
    BY <2>1, <2>3, NextPageStep DEF WalkInv
  <2> QED BY <1>3, <2>2, <2>3 DEF ListTasks
<1>4. ASSUME NEW t \in Snapshots, Restore(t)
      PROVE  WalkInv'
  <2>1. Elsewhere
    BY <1>4 DEF Restore, Elsewhere, client
  <2> QED BY <2>1, ElsewhereStep
<1>5. CASE UNCHANGED vars
  <2>1. Elsewhere
    BY <1>5 DEF vars, server, counted, client, Elsewhere
  <2> QED BY <2>1, ElsewhereStep
<1> QED BY <1>1, <1>2, <1>3, <1>4, <1>5 DEF Next

\* A client that follows the pages to the end has seen every task there was when it
\* began, whatever requests, clients and restarts come between the pages.
THEOREM WalkCompleteHolds == Spec => []WalkComplete
<1>1. Init => WalkInv
  BY DEF Init, WalkInv, Walk, NoWalk, Reached, WalkComplete
<1>2. WalkInv /\ [Next]_vars => WalkInv'
  BY WalkStep
<1>3. WalkInv => WalkComplete
  BY DEF WalkInv
<1> QED BY <1>1, <1>2, <1>3, PTL DEF Spec

-----------------------------------------------------------------------------
(* Tasks                                                                   *)

\* What the settings read as after a change is what the change makes of what they
\* read as before.
LEMMA ReadingChanged ==
  ASSUME NEW s, NEW c \in Changes
  PROVE  Reading(Changed(s, c)) = ReadAfter(Reading(s), c)
<1>1. /\ c.way \in {"patch", "put", "reset"} /\ DOMAIN c.patch \subseteq DOMAIN Defaults
      /\ c.way = "put" => /\ DOMAIN c.patch # {}
                          /\ DOMAIN c.patch \subseteq TypoSettings \/ DOMAIN c.patch \cap TypoSettings = {}
  BY ChangesAssumption
<1>2. DOMAIN Reading(s) = DOMAIN Defaults /\ \A n \in DOMAIN Defaults : Reading(s)[n] = Setting(s, n)
  BY DEF Reading
<1>3. SUFFICES ASSUME NEW n \in DOMAIN Defaults
               PROVE  Setting(Changed(s, c), n) = ReadAfter(Reading(s), c)[n]
  BY <1>2 DEF Reading, ReadAfter
<1> DEFINE patch == c.patch
           named == DOMAIN patch
<1>4. ReadAfter(Reading(s), c)[n] =
        IF c.way = "reset" THEN Defaults[n]
        ELSE IF n \in named /\ c.way = "patch" /\ n = "synonyms" THEN Over(patch[n], Setting(s, n))
        ELSE IF n \in named THEN patch[n]
        ELSE IF c.way = "put" /\ n \in TypoSettings /\ named \subseteq TypoSettings THEN Defaults[n]
        ELSE Setting(s, n)
  BY <1>2, <1>3 DEF ReadAfter
<1>5. CASE c.way = "reset"
  <2>1. Changed(s, c) = Defaults
    BY <1>5 DEF Changed
  <2>2. Setting(Defaults, n) = Defaults[n]
    BY DEF Setting
  <2> QED BY <1>4, <1>5, <2>1, <2>2
<1>6. CASE c.way = "patch"
  <2>1. Changed(s, c) = Merged(s, patch)
    BY <1>6 DEF Changed
  <2> DEFINE m == Merged(s, patch)
  <2>2. /\ DOMAIN m = DOMAIN s \cup named
        /\ n \in DOMAIN m =>
             m[n] = IF n = "synonyms" THEN IF n \in named THEN Over(patch[n], Setting(s, n)) ELSE Setting(s, n)
                    ELSE IF n \in named THEN patch[n] ELSE s[n]
    BY DEF Merged
  <2> HIDE DEF m
  <2>3. Setting(m, n) = IF n \in DOMAIN m THEN m[n] ELSE Defaults[n]
    BY DEF Setting
  <2>4. Setting(s, n) = IF n \in DOMAIN s THEN s[n] ELSE Defaults[n]
    BY DEF Setting
  <2>5. Changed(s, c) = m
    BY <2>1 DEF m
  <2> QED BY <1>4, <1>6, <2>2, <2>3, <2>4, <2>5
<1>7. CASE c.way = "put"
  <2>1. Changed(s, c) = Replaced(s, patch)
    BY <1>7 DEF Changed
  <2> DEFINE gone == IF named \cap TypoSettings = {} THEN named ELSE TypoSettings
             m == Replaced(s, patch)
  <2>2. /\ DOMAIN m = (DOMAIN s \ gone) \cup named
        /\ n \in DOMAIN m => m[n] = IF n \in named THEN patch[n] ELSE s[n]
    BY DEF Replaced
  <2>5. Changed(s, c) = m
    BY <2>1 DEF m
  <2> HIDE DEF m
  <2>3. Setting(m, n) = IF n \in DOMAIN m THEN m[n] ELSE Defaults[n]
    BY DEF Setting
  <2>4. Setting(s, n) = IF n \in DOMAIN s THEN s[n] ELSE Defaults[n]
    BY DEF Setting
  <2>6. CASE named \subseteq TypoSettings
    <3>1. named \cap TypoSettings # {}
      BY <1>1, <1>7, <2>6
    <3> QED BY <1>4, <1>7, <2>2, <2>3, <2>4, <2>5, <2>6, <3>1
  <2>7. CASE named \cap TypoSettings = {}
    <3>1. ~(named \subseteq TypoSettings)
      BY <1>1, <1>7, <2>7
    <3> QED BY <1>4, <1>7, <2>2, <2>3, <2>4, <2>5, <2>7, <3>1
  <2> QED BY <1>1, <1>7, <2>6, <2>7
<1> QED BY <1>1, <1>5, <1>6, <1>7

\* The defaults read as themselves.
LEMMA ReadingDefaults == Reading(Defaults) = Defaults
BY DEF Reading, Setting, Defaults

\* None is no function, and so neither settings nor a document.
NoneIsAtomic == \A f : f = [n \in DOMAIN f |-> f[n]] => f # None

\* Tables, text indexes, settings and the running request, with the state it began in.
Tables == [Names -> Docs \cup {None, Keyless}]
Shape ==
  /\ tables \in Tables /\ found \in [Uids -> Docs \cup {None}]
  /\ settings = [u \in Uids |-> settings[u]] /\ ntasks \in Nat
  /\ req = [op |-> req.op, uid |-> req.uid, arg |-> req.arg, docs |-> req.docs, ids |-> req.ids]
  /\ pc # "idle" =>
       /\ req.uid \in Uids /\ req.docs \in Docs
       /\ req.op = "swap" => req.arg \in Uids /\ req.arg # req.uid
       /\ req.op = "settings" => req.arg \in Changes
       /\ req.op = "deleteFilter" => req.arg \in Filters
       /\ before.tables \in Tables /\ before.settings = [u \in Uids |-> before.settings[u]]

\* The calls of each request.
CallsOf(op) ==
  CASE op = "create" -> {"create", "existing", "rebuild"}
    [] op = "drop" -> {"drop"}
    [] op = "settings" -> {"settings"}
    [] op \in {"add", "seed", "reseed"} -> {"seed", "rebuild"}
    [] op = "put" -> {"delete", "seed", "rebuild"}
    [] op \in {"deleteOne", "deleteBatch"} -> {"delete", "rebuild"}
    [] op = "deleteFilter" -> {"select", "delete", "rebuild"}
    [] op = "truncate" -> {"truncate", "rebuild"}
    [] op = "swap" -> {"rename1", "rename2", "rename3"}

\* The rows a deletion is to remove.
Targets ==
  LET t == before.tables[req.uid] IN
  IF req.op = "deleteFilter" THEN {i \in Live(t) : Meant[req.arg][i][t[i]]} ELSE before.ids

\* How far the request has come, call by call.
Stage ==
  LET b == before.tables u == req.uid IN
  /\ pc \in {"create", "existing", "drop", "settings", "select", "truncate", "rename1"} => tables = b
  /\ pc = "create" => b[u] = None
  /\ pc = "existing" => b[u] # None
  /\ pc \in {"select", "delete"} => b[u] \in Docs
  /\ pc = "delete" =>
       req.ids \subseteq Targets /\ tables = [b EXCEPT ![u] = Without(@, Targets \ req.ids)]
  /\ pc = "seed" /\ req.op \in {"add", "put"} =>
       /\ b[u] \in Docs
       /\ tables = [b EXCEPT ![u] = Without(@, IF req.op = "put" THEN before.ids ELSE {})]
  /\ req.op = "put" => \A i \in before.ids : req.docs[i] # None
  /\ req.op = "swap" => b[Temp] = None
  /\ pc = "rename2" => tables = [b EXCEPT ![u] = None, ![Temp] = b[u]]
  /\ pc = "rename3" => tables = [b EXCEPT ![u] = b[req.arg], ![req.arg] = None, ![Temp] = b[u]]
  /\ pc = "rebuild" /\ req.op \notin {"seed", "reseed"} => tables = Effect(before, req)

TaskInv ==
  /\ Shape
  /\ pc # "idle" => pc \in CallsOf(req.op) /\ req.op \in Ops
  /\ pc # "idle" /\ calm =>
       Stage /\ found = before.found /\ Readings(settings) = Readings(before.settings)

\* Rows stay rows.
LEMMA DocsClosed ==
  /\ NoDocs \in Docs
  /\ \A t \in Docs : \A S : Without(t, S) \in Docs
  /\ \A t, D \in Docs : Put(t, D) \in Docs
BY DEF Docs, NoDocs, Without, Put

\* The end of a request.
LEMMA FinishedStep ==
  ASSUME TaskInv, Finished, tables' \in Tables, found' \in [Uids -> Docs \cup {None}],
         settings' = [u \in Uids |-> settings'[u]], ntasks' \in Nat
  PROVE  TaskInv'
BY DEF Finished, TaskInv, Shape, Idle

\* A request that begins.
LEMMA BeginStep ==
  ASSUME TaskInv, NEW op \in Ops, NEW u \in Uids, NEW arg, NEW D \in Docs, NEW S, NEW next,
         Begin(op, u, arg, D, S, next), next \in CallsOf(op), next # "idle",
         op = "swap" => arg \in Uids /\ arg # u /\ tables[Temp] = None,
         op = "settings" => arg \in Changes,
         op = "deleteFilter" => arg \in Filters,
         next = "create" => tables[u] = None,
         next \in {"existing", "select", "delete"} \/ op = "add" => tables[u] # None,
         next = "delete" => op # "deleteFilter",
         next = "seed" => op # "put",
         next \notin {"rename2", "rename3", "rebuild"},
         op = "put" => \A i \in S : D[i] # None
  PROVE  TaskInv'
<1>1. /\ pc' = next /\ req' = [op |-> op, uid |-> u, arg |-> arg, docs |-> D, ids |-> S]
      /\ before' = [tables |-> tables, found |-> found, settings |-> settings, ids |-> S]
      /\ tables' = tables /\ found' = found /\ settings' = settings /\ ntasks' = ntasks
      /\ tables[u] # Keyless
  BY Zenon DEF Begin, server
<1>2. /\ req'.op = op /\ req'.uid = u /\ req'.arg = arg /\ req'.docs = D /\ req'.ids = S
      /\ before'.tables = tables /\ before'.found = found /\ before'.settings = settings
      /\ before'.ids = S
  BY <1>1
<1>3. req' = [op |-> req'.op, uid |-> req'.uid, arg |-> req'.arg, docs |-> req'.docs, ids |-> req'.ids]
  BY <1>1, <1>2
<1>4. Shape'
  <2>1. tables \in Tables /\ found \in [Uids -> Docs \cup {None}] /\ ntasks \in Nat
        /\ settings = [v \in Uids |-> settings[v]]
    BY Zenon DEF TaskInv, Shape
  <2> QED BY <1>1, <1>2, <1>3, <2>1 DEF Shape
<1>5. tables[u] # None => tables[u] \in Docs
  BY <1>1 DEF TaskInv, Shape, Tables, Names
<1>6. Stage'
  <2>1. next = "delete" => Targets' = S
    BY <1>2 DEF Targets
  <2>2. u \in Names /\ tables = [tables EXCEPT ![u] = tables[u]]
    BY DEF TaskInv, Shape, Tables, Names
  <2>3. tables[u] \in Docs => Without(tables[u], {}) = tables[u]
    BY DEF Without, Docs
  <2>4. next = "delete" => tables = [tables EXCEPT ![u] = Without(@, Targets' \ S)]
    <3>1. SUFFICES ASSUME next = "delete"
                   PROVE  tables = [tables EXCEPT ![u] = Without(@, Targets' \ S)]
      OBVIOUS
    <3>2. Targets' \ S = {}
      BY <2>1, <3>1
    <3>3. Without(tables[u], Targets' \ S) = tables[u]
      BY <1>5, <2>3, <3>1, <3>2
    <3> QED BY <2>2, <3>3
  <2>5. next = "seed" /\ op \in {"add", "put"} =>
          tables[u] \in Docs /\ tables = [tables EXCEPT ![u] = Without(@, IF op = "put" THEN S ELSE {})]
    BY <1>5, <2>2, <2>3
  <2> HIDE DEF Targets
  <2> QED BY <1>1, <1>2, <1>5, <2>1, <2>4, <2>5 DEF Stage
<1>7. Readings(settings)' = Readings(before.settings)'
  BY <1>1, <1>2 DEF Readings
<1> QED BY <1>1, <1>2, <1>4, <1>6, <1>7 DEF TaskInv

\* Every request begins in order.
LEMMA TaskRequestStep ==
  ASSUME TaskInv, Request
  PROVE  TaskInv'
<1> USE DEF CallsOf, Ops
<1>1. NoDocs \in Docs /\ \A D \in Payloads : D \in Docs
  BY DocsClosed, PayloadsAssumption
<1>2. PICK u \in Uids :
        \/ CreateIndex(u) \/ UpdateIndex(u) \/ DeleteIndex(u) \/ DeleteAll(u)
        \/ \E c \in Changes : SetSettings(u, c)
        \/ \E D \in Payloads : AddDocuments(u, D) \/ SeedTable(u, "seed", D) \/ SeedTable(u, "reseed", D)
        \/ \E i \in Ids : DeleteDocument(u, i) \/ \E b \in Written : UpsertDocument(u, i, b)
        \/ \E S \in Batches : DeleteBatch(u, S)
        \/ \E f \in Filters : DeleteByFilter(u, f)
        \/ \E v \in Uids : SwapIndexes(u, v)
  BY Zenon DEF Request
<1>3. CASE CreateIndex(u)
  <2>1. CASE tables[u] = None
    <3>1. Begin("create", u, None, NoDocs, {}, "create")
      BY <1>3, <2>1, Zenon DEF CreateIndex
    <3> HIDE DEF Begin
    <3> QED BY <1>1, <2>1, <3>1, BeginStep
  <2>2. CASE tables[u] # None
    <3>1. Begin("create", u, None, NoDocs, {}, "existing")
      BY <1>3, <2>2, Zenon DEF CreateIndex
    <3> QED BY <1>1, <2>2, <3>1, BeginStep
  <2> QED BY <2>1, <2>2
<1>4. CASE UpdateIndex(u)
  <2>1. /\ pc' = pc /\ req' = req /\ tables' = tables /\ found' = found /\ settings' = settings
        /\ before' = before /\ calm' = calm /\ ntasks' = ntasks + 1 /\ pc = "idle"
    BY <1>4, Zenon DEF UpdateIndex, PushTask, local
  <2> QED BY <2>1 DEF TaskInv, Shape
<1>5. CASE DeleteIndex(u)
  <2>1. Begin("drop", u, None, NoDocs, {}, "drop")
    BY <1>5, Zenon DEF DeleteIndex
  <2> QED BY <1>1, <2>1, BeginStep
<1>6. CASE DeleteAll(u)
  <2>1. Begin("truncate", u, None, NoDocs, {}, "truncate")
    BY <1>6, Zenon DEF DeleteAll
  <2> QED BY <1>1, <2>1, BeginStep
<1>7. ASSUME NEW c \in Changes, SetSettings(u, c)
      PROVE  TaskInv'
  <2>1. Begin("settings", u, c, NoDocs, {}, "settings")
    BY <1>7, Zenon DEF SetSettings
  <2> QED BY <1>1, <2>1, BeginStep
<1>8. ASSUME NEW D \in Payloads, AddDocuments(u, D)
      PROVE  TaskInv'
  <2>1. Begin("add", u, None, D, {}, "seed") /\ tables[u] # None
    BY <1>8, Zenon DEF AddDocuments
  <2> QED BY <1>1, <2>1, BeginStep
<1>9. ASSUME NEW D \in Payloads, NEW op \in {"seed", "reseed"}, SeedTable(u, op, D)
      PROVE  TaskInv'
  <2>1. Begin(op, u, None, D, {}, "seed")
    BY <1>9, Zenon DEF SeedTable
  <2>2. "seed" \in CallsOf(op) /\ op \in Ops
        /\ op \notin {"swap", "settings", "deleteFilter", "add", "put"}
    BY <1>9
  <2> HIDE DEF CallsOf, Ops
  <2> QED BY <1>1, <2>1, <2>2, BeginStep
<1>10. ASSUME NEW i \in Ids, DeleteDocument(u, i)
       PROVE  TaskInv'
  <2>1. Begin("deleteOne", u, None, NoDocs, {i}, "delete") /\ i \in Live(tables[u])
    BY <1>10, Zenon DEF DeleteDocument
  <2>2. tables[u] # None
    BY <2>1 DEF Live
  <2> QED BY <1>1, <2>1, <2>2, BeginStep
<1>11. ASSUME NEW i \in Ids, NEW b \in Written, UpsertDocument(u, i, b)
       PROVE  TaskInv'
  <2> DEFINE D == [NoDocs EXCEPT ![i] = b]
  <2>1. Begin("put", u, None, D, {i}, "delete") /\ tables[u] # None
    BY <1>11, Zenon DEF UpsertDocument
  <2>2. D \in Docs /\ D[i] # None
    BY NamesAssumption, AbsenceAssumption DEF Docs, NoDocs
  <2>3. \A j \in {i} : D[j] # None
    BY <2>2
  <2> HIDE DEF D
  <2> QED BY <1>1, <2>1, <2>2, <2>3, BeginStep
<1>12. ASSUME NEW S \in Batches, DeleteBatch(u, S)
       PROVE  TaskInv'
  <2>1. Begin("deleteBatch", u, None, NoDocs, S, "delete") /\ tables[u] # None
    BY <1>12, Zenon DEF DeleteBatch
  <2> QED BY <1>1, <2>1, BeginStep
<1>13. ASSUME NEW f \in Filters, DeleteByFilter(u, f)
       PROVE  TaskInv'
  <2>1. Begin("deleteFilter", u, f, NoDocs, {}, "select") /\ tables[u] # None
    BY <1>13, Zenon DEF DeleteByFilter
  <2> QED BY <1>1, <2>1, BeginStep
<1>14. ASSUME NEW v \in Uids, SwapIndexes(u, v)
       PROVE  TaskInv'
  <2>1. Begin("swap", u, v, NoDocs, {}, "rename1") /\ u # v /\ tables[Temp] = None
    BY <1>14, Zenon DEF SwapIndexes
  <2> QED BY <1>1, <2>1, BeginStep
<1> HIDE DEF CallsOf, Ops
<1> QED
  BY <1>2, <1>3, <1>4, <1>5, <1>6, <1>7, <1>8, <1>9, <1>10, <1>11, <1>12, <1>13, <1>14, Zenon

\* What a call leaves alone of a request that goes on, if it changes at most the tables
\* and the settings.
LEMMA GoOnShape ==
  ASSUME TaskInv, NEW next, GoOn(next), pc # "idle", found' = found, next \in CallsOf(req.op),
         tables' \in Tables, settings' = [u \in Uids |-> settings'[u]],
         calm => Stage' /\ Readings(settings') = Readings(settings)
  PROVE  TaskInv'
<1>1. pc' = next /\ req' = req /\ before' = before /\ calm' = calm /\ ntasks' = ntasks
  BY Zenon DEF GoOn
<1>2. Shape'
  BY <1>1 DEF TaskInv, Shape
<1>3. calm => Stage' /\ found' = before'.found /\ Readings(settings)' = Readings(before.settings)'
  BY <1>1 DEF TaskInv, Readings
<1> QED BY <1>1, <1>2, <1>3, Zenon DEF TaskInv

\* From the call a request is at to the request.
LEMMA AtCall ==
  ASSUME TaskInv, pc # "idle"
  PROVE  /\ pc \in {"create", "existing"} => req.op = "create"
         /\ pc = "drop" => req.op = "drop"
         /\ pc = "settings" => req.op = "settings"
         /\ pc = "select" => req.op = "deleteFilter"
         /\ pc = "truncate" => req.op = "truncate"
         /\ pc = "delete" => req.op \in {"put", "deleteOne", "deleteBatch", "deleteFilter"}
         /\ pc = "seed" => req.op \in {"add", "put", "seed", "reseed"}
         /\ pc \in {"rename1", "rename2", "rename3"} => req.op = "swap"
         /\ pc = "rebuild" => req.op \in Ops \ {"drop", "settings", "swap"}
BY DEF TaskInv, CallsOf, Ops

\* Settings that are there by default read as settings that are not there.
LEMMA DefaultSettingsRead ==
  ASSUME TaskInv, NEW u \in Uids, DefaultSettings(u)
  PROVE  settings' = [v \in Uids |-> settings'[v]] /\ Readings(settings') = Readings(settings)
<1>1. settings = [v \in Uids |-> settings[v]]
  BY DEF TaskInv, Shape
<1>2. settings' = [settings EXCEPT ![u] = IF @ = None THEN Defaults ELSE @]
  BY DEF DefaultSettings
<1>3. settings' = [v \in Uids |-> IF v = u /\ settings[u] = None THEN Defaults ELSE settings[v]]
  BY <1>1, <1>2
<1>4. \A v \in Uids : settings'[v] = IF v = u /\ settings[u] = None THEN Defaults ELSE settings[v]
  BY <1>3
<1>5. \A v \in Uids : Reading(IF settings'[v] = None THEN Defaults ELSE settings'[v])
                      = Reading(IF settings[v] = None THEN Defaults ELSE settings[v])
  BY <1>4, Zenon
<1> QED BY <1>3, <1>4, <1>5 DEF Readings

\* POST /indexes: the table and the default settings are there before the rebuild.
LEMMA CreateStep ==
  ASSUME TaskInv, CreateExisting \/ CreateTable
  PROVE  TaskInv'
<1>1. CASE CreateExisting
  <2>1. /\ pc = "existing" /\ DefaultSettings(req.uid) /\ GoOn("rebuild")
        /\ tables' = tables /\ found' = found
    BY <1>1, Zenon DEF CreateExisting
  <2>2. req.op = "create" /\ req.uid \in Uids /\ tables \in Tables
    BY <2>1, AtCall DEF TaskInv, Shape
  <2>3. pc' = "rebuild" /\ req' = req /\ before' = before
    BY <2>1, Zenon DEF GoOn
  <2>4. ASSUME calm
        PROVE  Stage'
    <3>1. tables = before.tables /\ before.tables[req.uid] # None
      BY <2>1, <2>4 DEF TaskInv, Stage
    <3>2. Effect(before, req) = tables
      <4>1. before.tables = [before.tables EXCEPT ![req.uid] = IF @ = None THEN NoDocs ELSE @]
        BY <2>2, <3>1 DEF Tables
      <4> QED BY <2>2, <3>1, <4>1 DEF Effect
    <3> QED BY <2>1, <2>2, <2>3, <3>2 DEF Stage
  <2>5. "rebuild" \in CallsOf(req.op)
    BY <2>2 DEF CallsOf
  <2> QED BY <2>1, <2>2, <2>4, <2>5, DefaultSettingsRead, GoOnShape
<1>2. CASE CreateTable
  <2>1. pc = "create"
    BY <1>2, Zenon DEF CreateTable
  <2>2. req.op = "create" /\ req.uid \in Uids /\ tables \in Tables
    BY <2>1, AtCall DEF TaskInv, Shape
  <2>3. CASE Refuse
    <3>1. Finished /\ tables' = tables /\ found' = found /\ settings' = settings /\ ntasks' = ntasks
      BY <2>3, Zenon DEF Refuse, server
    <3> QED BY <3>1, FinishedStep DEF TaskInv, Shape
  <2>4. CASE /\ tables' = IF tables[req.uid] = None THEN [tables EXCEPT ![req.uid] = NoDocs] ELSE tables
             /\ DefaultSettings(req.uid) /\ GoOn("rebuild") /\ UNCHANGED <<found, behind>>
    <3>1. pc' = "rebuild" /\ req' = req /\ before' = before
      BY <2>4, Zenon DEF GoOn
    <3>2. tables' \in Tables
      BY <2>2, <2>4, DocsClosed DEF Tables
    <3>3. ASSUME calm
          PROVE  Stage'
      <4>1. tables = before.tables /\ before.tables[req.uid] = None
        BY <2>1, <3>3 DEF TaskInv, Stage
      <4>2. Effect(before, req) = tables'
        BY <2>2, <2>4, <4>1 DEF Effect
      <4> QED BY <2>2, <3>1, <4>2 DEF Stage
    <3>4. "rebuild" \in CallsOf(req.op)
      BY <2>2 DEF CallsOf
    <3> QED BY <2>1, <2>2, <2>4, <3>2, <3>3, <3>4, DefaultSettingsRead, GoOnShape
  <2> QED BY <1>2, <2>3, <2>4, Zenon DEF CreateTable
<1> QED BY <1>1, <1>2

\* What a step that files a task has to have done (see TaskMeansDone).
Effected ==
  /\ tables' = Effect(before, req)
  /\ Readings(settings') = EffectOnSettings(before, req)
  /\ \A u \in Uids :
       IF req.op = "swap" THEN found'[u] = Exchange(before.found, req.uid, req.arg)[u]
       ELSE u # req.uid => found'[u] = before.found[u]

\* A refused request files no task.
LEMMA RefuseStep ==
  ASSUME TaskInv, Refuse
  PROVE  TaskInv' /\ ntasks' = ntasks /\ ntasks \in Nat
<1>1. Finished /\ tables' = tables /\ found' = found /\ settings' = settings /\ ntasks' = ntasks
  BY Zenon DEF Refuse, server
<1> QED BY <1>1, FinishedStep DEF TaskInv, Shape

\* DELETE /indexes/{uid}: table, settings and text index go in one step with the task.
LEMMA DropStep ==
  ASSUME TaskInv, DropTable
  PROVE  TaskInv' /\ (calm => Effected)
<1> DEFINE u == req.uid
<1>1. /\ pc = "drop" /\ tables' = [tables EXCEPT ![u] = None] /\ settings' = [settings EXCEPT ![u] = None]
      /\ found' = [found EXCEPT ![u] = None] /\ ntasks' = ntasks + 1 /\ Finished
  BY Zenon DEF DropTable, PushTask
<1>2. /\ req.op = "drop" /\ u \in Uids /\ tables \in Tables /\ found \in [Uids -> Docs \cup {None}]
      /\ settings = [v \in Uids |-> settings[v]] /\ ntasks \in Nat
      /\ before.settings = [v \in Uids |-> before.settings[v]]
  BY <1>1, AtCall DEF TaskInv, Shape
<1>3. /\ tables' \in Tables /\ found' \in [Uids -> Docs \cup {None}]
      /\ settings' = [v \in Uids |-> IF v = u THEN None ELSE settings[v]] /\ ntasks' \in Nat
  <2>1. tables' \in Tables
    BY <1>1, <1>2 DEF Tables
  <2>2. found' \in [Uids -> Docs \cup {None}]
    BY <1>1, <1>2
  <2>3. settings' = [v \in Uids |-> IF v = u THEN None ELSE settings[v]]
    BY <1>1, <1>2
  <2> QED BY <1>1, <1>2, <2>1, <2>2, <2>3
<1>4. settings' = [v \in Uids |-> settings'[v]] /\ \A v \in Uids : settings'[v] = IF v = u THEN None ELSE settings[v]
  BY <1>3
<1>5. TaskInv'
  BY <1>1, <1>3, <1>4, FinishedStep
<1>6. ASSUME calm
      PROVE  Effected
  <2>1. tables = before.tables /\ found = before.found /\ Readings(settings) = Readings(before.settings)
    BY <1>1, <1>6 DEF TaskInv, Stage
  <2>2. tables' = Effect(before, req)
    BY <1>1, <1>2, <2>1 DEF Effect
  <2>3. Readings(settings') = [Readings(settings) EXCEPT ![u] = Defaults]
    <3>1. \A v \in Uids : Reading(IF settings'[v] = None THEN Defaults ELSE settings'[v])
                          = IF v = u THEN Defaults ELSE Reading(IF settings[v] = None THEN Defaults ELSE settings[v])
      BY <1>4, ReadingDefaults, Zenon
    <3>2. Readings(settings') = [v \in Uids |-> IF v = u THEN Defaults ELSE Readings(settings)[v]]
      BY <3>1 DEF Readings
    <3> QED BY <1>2, <3>2 DEF Readings
  <2>4. Readings(settings') = EffectOnSettings(before, req)
    BY <1>2, <2>1, <2>3 DEF EffectOnSettings
  <2>5. \A v \in Uids : v # req.uid => found'[v] = before.found[v]
    BY <1>1, <1>2, <2>1
  <2> QED BY <1>2, <2>2, <2>4, <2>5 DEF Effected
<1> QED BY <1>5, <1>6

\* A change of settings reads as what the request asked for.
LEMMA SettleStep ==
  ASSUME TaskInv, NoneIsAtomic, Settle
  PROVE  TaskInv' /\ (calm => Effected)
<1> DEFINE u == req.uid
           s == SettingsOf(u)
           new == Changed(s, req.arg)
<1>1. /\ pc = "settings" /\ settings' = [settings EXCEPT ![u] = new] /\ tables' = tables /\ found' = found
      /\ ntasks' = ntasks + 1 /\ Finished
  BY Zenon DEF Settle, PushTask
<1>2. /\ req.op = "settings" /\ req.arg \in Changes /\ u \in Uids /\ tables \in Tables
      /\ found \in [Uids -> Docs \cup {None}]
      /\ settings = [v \in Uids |-> settings[v]] /\ ntasks \in Nat
  BY <1>1, AtCall DEF TaskInv, Shape
<1>3. new # None
  <2>1. Defaults = [n \in DOMAIN Defaults |-> Defaults[n]]
    BY DEF Defaults
  <2>2. \A patch : Merged(s, patch) = [n \in DOMAIN Merged(s, patch) |-> Merged(s, patch)[n]]
    BY DEF Merged
  <2>3. \A patch : Replaced(s, patch) = [n \in DOMAIN Replaced(s, patch) |-> Replaced(s, patch)[n]]
    BY DEF Replaced
  <2>4. req.arg.way \in {"patch", "put", "reset"}
    BY <1>2, ChangesAssumption
  <2>5. new \in {Defaults, Merged(s, req.arg.patch), Replaced(s, req.arg.patch)}
    BY <2>4 DEF Changed
  <2> HIDE DEF new, s
  <2> QED BY <2>1, <2>2, <2>3, <2>5, Zenon DEF NoneIsAtomic
<1>4. Reading(new) = ReadAfter(Reading(s), req.arg)
  BY <1>2, ReadingChanged
<1>5. s = IF settings[u] = None THEN Defaults ELSE settings[u]
  BY DEF SettingsOf
<1> HIDE DEF new, s
<1>6. settings' = [v \in Uids |-> IF v = u THEN new ELSE settings[v]]
  BY <1>1, <1>2
<1>7. settings' = [v \in Uids |-> settings'[v]] /\ \A v \in Uids : settings'[v] = IF v = u THEN new ELSE settings[v]
  BY <1>6
<1>8. TaskInv'
  BY <1>1, <1>2, <1>7, FinishedStep
<1>9. ASSUME calm
      PROVE  Effected
  <2>1. tables = before.tables /\ found = before.found /\ Readings(settings) = Readings(before.settings)
    BY <1>1, <1>9 DEF TaskInv, Stage
  <2>2. tables' = Effect(before, req)
    BY <1>1, <1>2, <2>1 DEF Effect
  <2> DEFINE read == Readings(settings)
  <2>3. \A v \in Uids : Reading(IF settings'[v] = None THEN Defaults ELSE settings'[v])
                        = IF v = u THEN ReadAfter(Reading(s), req.arg)
                          ELSE Reading(IF settings[v] = None THEN Defaults ELSE settings[v])
    BY <1>3, <1>4, <1>7, Zenon
  <2>4. read[u] = Reading(s) /\ \A v \in Uids : read[v] = Reading(IF settings[v] = None THEN Defaults ELSE settings[v])
    BY <1>2, <1>5 DEF Readings
  <2>5. Readings(settings') = [v \in Uids |-> IF v = u THEN ReadAfter(read[u], req.arg) ELSE read[v]]
    BY <2>3, <2>4 DEF Readings
  <2>6. read = [v \in Uids |-> read[v]]
    BY DEF Readings
  <2> HIDE DEF read
  <2>7. Readings(settings') = [read EXCEPT ![u] = ReadAfter(@, req.arg)]
    BY <1>2, <2>5, <2>6
  <2>8. Readings(settings') = EffectOnSettings(before, req)
    BY <1>2, <2>1, <2>7 DEF EffectOnSettings, read
  <2> QED BY <1>1, <1>2, <2>1, <2>2, <2>8 DEF Effected
<1> QED BY <1>8, <1>9

\* The rebuild, where most requests end: what it indexes, the calls before it have made.
LEMMA RebuildStep ==
  ASSUME TaskInv, Rebuild
  PROVE  TaskInv' /\ (calm /\ ntasks' > ntasks => Effected)
<1> DEFINE u == req.uid
<1>1. /\ pc = "rebuild" /\ found' = [found EXCEPT ![u] = IF Keyed(u) THEN tables[u] ELSE NoDocs]
      /\ IF req.op \in {"seed", "reseed"} THEN ntasks' = ntasks ELSE ntasks' = ntasks + 1
      /\ Finished /\ tables' = tables /\ settings' = settings
  BY Zenon DEF Rebuild, PushTask
<1>2. /\ req.op \in Ops \ {"drop", "settings", "swap"} /\ u \in Uids /\ tables \in Tables
      /\ found \in [Uids -> Docs \cup {None}]
      /\ settings = [v \in Uids |-> settings[v]] /\ ntasks \in Nat
  BY <1>1, AtCall DEF TaskInv, Shape
<1>3. Keyed(u) => tables[u] \in Docs
  BY <1>2 DEF Keyed, Tables, Names
<1>4. found' \in [Uids -> Docs \cup {None}]
  <2>1. (IF Keyed(u) THEN tables[u] ELSE NoDocs) \in Docs
    BY <1>3, DocsClosed
  <2> QED BY <1>1, <1>2, <2>1
<1>5. TaskInv'
  BY <1>1, <1>2, <1>4, FinishedStep
<1>6. ASSUME calm, ntasks' > ntasks
      PROVE  Effected
  <2>1. /\ req.op \notin {"seed", "reseed"} /\ found = before.found
        /\ Readings(settings) = Readings(before.settings)
    BY <1>1, <1>2, <1>6 DEF TaskInv
  <2>2. tables' = Effect(before, req)
    BY <1>1, <1>6, <2>1 DEF TaskInv, Stage
  <2>3. Readings(settings') = EffectOnSettings(before, req)
    BY <1>1, <1>2, <2>1 DEF EffectOnSettings
  <2>4. \A v \in Uids : v # req.uid => found'[v] = before.found[v]
    BY <1>1, <1>2, <2>1
  <2> QED BY <1>2, <2>2, <2>3, <2>4 DEF Effected
<1> QED BY <1>5, <1>6

\* DELETE of all documents, before the rebuild.
LEMMA TruncateStep ==
  ASSUME TaskInv, Truncate
  PROVE  TaskInv' /\ ntasks' = ntasks /\ ntasks \in Nat
<1> DEFINE u == req.uid
<1>1. /\ pc = "truncate" /\ tables' = [tables EXCEPT ![u] = NoDocs] /\ GoOn("rebuild")
      /\ found' = found /\ settings' = settings
  BY Zenon DEF Truncate
<1>2. /\ req.op = "truncate" /\ u \in Uids /\ tables \in Tables /\ ntasks \in Nat
      /\ settings = [v \in Uids |-> settings[v]]
  BY <1>1, AtCall DEF TaskInv, Shape
<1>3. pc' = "rebuild" /\ req' = req /\ before' = before /\ ntasks' = ntasks
  BY <1>1, Zenon DEF GoOn
<1>4. tables' \in Tables
  BY <1>1, <1>2, DocsClosed DEF Tables
<1>5. ASSUME calm
      PROVE  Stage'
  <2>1. tables' = Effect(before, req)
    BY <1>1, <1>2, <1>5 DEF TaskInv, Stage, Effect
  <2> QED BY <1>2, <1>3, <2>1 DEF Stage
<1>6. "rebuild" \in CallsOf(req.op)
  BY <1>2 DEF CallsOf
<1> QED BY <1>1, <1>2, <1>3, <1>4, <1>5, <1>6, GoOnShape

\* A call that changes at most the tables and the ids that are left to delete.
LEMMA SameRequest ==
  ASSUME TaskInv, pc # "idle", pc' \in CallsOf(req.op), NEW S, req' = [req EXCEPT !.ids = S],
         tables' \in Tables, server' = server, before' = before, calm' = calm,
         calm => Stage'
  PROVE  TaskInv' /\ ntasks' = ntasks /\ ntasks \in Nat
<1>1. /\ req'.op = req.op /\ req'.uid = req.uid /\ req'.arg = req.arg /\ req'.docs = req.docs
      /\ req' = [op |-> req'.op, uid |-> req'.uid, arg |-> req'.arg, docs |-> req'.docs, ids |-> req'.ids]
  <2>1. req = [op |-> req.op, uid |-> req.uid, arg |-> req.arg, docs |-> req.docs, ids |-> req.ids]
    BY DEF TaskInv, Shape
  <2> QED BY <2>1
<1>2. found' = found /\ settings' = settings /\ ntasks' = ntasks
  BY DEF server
<1>3. Shape'
  BY <1>1, <1>2 DEF TaskInv, Shape
<1> QED BY <1>1, <1>2, <1>3 DEF TaskInv, Readings, Shape

\* The ids a filter selects are those the deletion is to remove.
LEMMA SelectStep ==
  ASSUME TaskInv, FiltersMean, Select
  PROVE  TaskInv' /\ ntasks' = ntasks /\ ntasks \in Nat
<1> DEFINE u == req.uid
           S == {i \in Live(tables[u]) : Passing[req.arg][i][tables[u][i]]}
<1>1. /\ pc = "select" /\ pc' = "delete" /\ req' = [req EXCEPT !.ids = S]
      /\ tables' = tables /\ server' = server /\ before' = before /\ calm' = calm
  BY Zenon DEF Select, server
<1>2. /\ req.op = "deleteFilter" /\ req.arg \in Filters /\ u \in Uids /\ tables \in Tables
      /\ req = [op |-> req.op, uid |-> req.uid, arg |-> req.arg, docs |-> req.docs, ids |-> req.ids]
  BY <1>1, AtCall DEF TaskInv, Shape
<1>3. req'.ids = S /\ req'.op = req.op /\ req'.uid = req.uid /\ req'.arg = req.arg
  BY <1>1, <1>2
<1>4. ASSUME calm
      PROVE  Stage'
  <2>1. tables = before.tables /\ tables[u] \in Docs
    BY <1>1, <1>4 DEF TaskInv, Stage
  <2>2. S = {i \in Live(tables[u]) : Meant[req.arg][i][tables[u][i]]}
    <3>1. \A i \in Live(tables[u]) : i \in Ids /\ tables[u][i] \in Bodies
      BY <2>1 DEF Live, Docs
    <3> QED BY <1>2, <3>1 DEF FiltersMean
  <2>3. Targets' = S
    BY <1>1, <1>2, <1>3, <2>1, <2>2 DEF Targets
  <2> HIDE DEF S
  <2>4. Without(tables[u], S \ S) = tables[u]
    BY <2>1 DEF Without, Docs
  <2>5. tables = [tables EXCEPT ![u] = Without(@, S \ S)]
    BY <1>2, <2>4 DEF Tables
  <2> QED BY <1>1, <1>2, <1>3, <2>1, <2>3, <2>5 DEF Stage
<1>5. pc' \in CallsOf(req.op)
  BY <1>1, <1>2 DEF CallsOf
<1> HIDE DEF S
<1> QED BY <1>1, <1>2, <1>4, <1>5, SameRequest

\* One row less, one id less to delete.
LEMMA DeleteStep ==
  ASSUME TaskInv, NEW i \in Ids, Delete(i)
  PROVE  TaskInv' /\ ntasks' = ntasks /\ ntasks \in Nat
<1> DEFINE u == req.uid
           S == req.ids \ {i}
<1>1. /\ pc = "delete" /\ pc' = pc /\ i \in req.ids /\ Keyed(u) /\ req' = [req EXCEPT !.ids = S]
      /\ tables' = [tables EXCEPT ![u] = Without(@, {i})]
      /\ server' = server /\ before' = before /\ calm' = calm
  BY DEF Delete, server
<1>2. /\ req.op \in {"put", "deleteOne", "deleteBatch", "deleteFilter"} /\ u \in Uids /\ tables \in Tables
      /\ before.tables \in Tables
      /\ req = [op |-> req.op, uid |-> req.uid, arg |-> req.arg, docs |-> req.docs, ids |-> req.ids]
  BY <1>1, AtCall DEF TaskInv, Shape
<1>3. /\ req'.ids = S /\ req'.op = req.op /\ req'.uid = req.uid /\ req'.arg = req.arg
      /\ req'.docs = req.docs
  BY <1>1, <1>2
<1>4. tables' \in Tables
  <2>1. tables[u] \in Docs
    BY <1>1, <1>2 DEF Keyed, Tables, Names
  <2>2. Without(tables[u], {i}) \in Docs
    BY <2>1, DocsClosed
  <2> QED BY <1>1, <1>2, <2>2 DEF Tables
<1>5. ASSUME calm
      PROVE  Stage'
  <2> DEFINE t == before.tables[u]
             G == Targets
  <2>1. /\ t \in Docs /\ req.ids \subseteq G /\ tables = [before.tables EXCEPT ![u] = Without(@, G \ req.ids)]
        /\ req.op = "put" => \A j \in before.ids : req.docs[j] # None
    BY <1>1, <1>5 DEF TaskInv, Stage
  <2>2. Targets' = G
    BY <1>1, <1>3 DEF Targets
  <2> HIDE DEF G
  <2>3. Without(Without(t, G \ req.ids), {i}) = Without(t, G \ S)
    BY <1>1, <2>1 DEF Without
  <2>4. tables[u] = Without(t, G \ req.ids) /\ u \in DOMAIN before.tables
    BY <1>2, <2>1 DEF Tables, Names
  <2>5. tables' = [before.tables EXCEPT ![u] = Without(t, G \ S)]
    <3>1. tables' = [tables EXCEPT ![u] = Without(t, G \ S)]
      BY <1>1, <2>3, <2>4
    <3> QED BY <1>2, <2>1, <3>1 DEF Tables
  <2>6. req'.ids \subseteq Targets'
    BY <1>3, <2>1, <2>2
  <2> HIDE DEF S
  <2> QED BY <1>1, <1>2, <1>3, <2>1, <2>2, <2>5, <2>6 DEF Stage
<1>6. pc' \in CallsOf(req.op)
  BY <1>1 DEF TaskInv
<1> HIDE DEF S
<1> QED BY <1>1, <1>4, <1>5, <1>6, SameRequest

\* A DELETE fails only where a client has dropped the table.
LEMMA DeleteFailsStep ==
  ASSUME TaskInv, NEW i \in Ids, DeleteFails(i)
  PROVE  TaskInv' /\ ntasks' = ntasks /\ ntasks \in Nat
<1> DEFINE u == req.uid
           S == req.ids \ {i}
<1>1. CASE Refuse
  BY <1>1, RefuseStep
<1>2. CASE ~Refuse
  <2>1. /\ pc = "delete" /\ pc' = pc /\ tables[u] = None /\ req' = [req EXCEPT !.ids = S]
        /\ tables' = tables /\ server' = server /\ before' = before /\ calm' = calm
    BY <1>2 DEF DeleteFails, server
  <2>2. u \in Uids /\ tables \in Tables /\ before.tables \in Tables
    BY <2>1 DEF TaskInv, Shape
  <2>3. ~calm
    <3>1. SUFFICES ASSUME calm
                   PROVE  FALSE
      OBVIOUS
    <3>2. before.tables[u] \in Docs /\ tables = [before.tables EXCEPT ![u] = Without(@, Targets \ req.ids)]
      BY <2>1, <3>1 DEF TaskInv, Stage
    <3>3. tables[u] \in Docs
      BY <2>2, <3>2, DocsClosed DEF Tables, Names
    <3> QED BY <2>1, <3>3, AbsenceAssumption
  <2>4. pc' \in CallsOf(req.op)
    BY <2>1 DEF TaskInv
  <2> HIDE DEF S
  <2> QED BY <2>1, <2>2, <2>3, <2>4, SameRequest
<1> QED BY <1>1, <1>2

\* All ids are deleted: a document is replaced yet, or the request is done but for the rebuild.
LEMMA DeletedStep ==
  ASSUME TaskInv, Deleted
  PROVE  TaskInv' /\ ntasks' = ntasks /\ ntasks \in Nat
<1> DEFINE u == req.uid
           next == IF req.op = "put" THEN "seed" ELSE "rebuild"
           b == before.tables
<1>1. /\ pc = "delete" /\ req.ids = {} /\ GoOn(next)
      /\ tables' = tables /\ found' = found /\ settings' = settings
  BY Zenon DEF Deleted
<1>2. /\ req.op \in {"put", "deleteOne", "deleteBatch", "deleteFilter"} /\ u \in Uids /\ tables \in Tables
      /\ b \in Tables /\ settings = [v \in Uids |-> settings[v]] /\ ntasks \in Nat
  BY <1>1, AtCall DEF TaskInv, Shape
<1>3. pc' = next /\ req' = req /\ before' = before /\ ntasks' = ntasks
  BY <1>1, Zenon DEF GoOn
<1>4. next \in CallsOf(req.op)
  BY <1>2 DEF CallsOf
<1>5. ASSUME calm
      PROVE  Stage'
  <2>1. /\ b[u] \in Docs /\ tables = [b EXCEPT ![u] = Without(@, Targets)]
        /\ req.op = "put" => \A i \in before.ids : req.docs[i] # None
    <3>1. Targets \ req.ids = Targets
      BY <1>1
    <3> QED BY <1>1, <1>5, <3>1 DEF TaskInv, Stage
  <2>2. CASE req.op = "put"
    <3>1. Targets = before.ids /\ next = "seed"
      BY <2>2 DEF Targets
    <3> HIDE DEF next
    <3> QED BY <1>1, <1>3, <2>1, <2>2, <3>1 DEF Stage
  <2>3. CASE req.op \in {"deleteOne", "deleteBatch"}
    <3>1. Targets = before.ids /\ next = "rebuild"
      BY <2>3 DEF Targets
    <3>2. tables = Effect(before, req)
      BY <2>1, <2>3, <3>1 DEF Effect
    <3> HIDE DEF next
    <3> QED BY <1>1, <1>3, <2>3, <3>1, <3>2 DEF Stage
  <2>4. CASE req.op = "deleteFilter"
    <3> DEFINE G == {i \in Live(b[u]) : Meant[req.arg][i][b[u][i]]}
    <3>1. Targets = G /\ next = "rebuild"
      BY <2>4 DEF Targets
    <3>2. Without(b[u], G) = [i \in Ids |-> IF b[u][i] # None /\ Meant[req.arg][i][b[u][i]] THEN None ELSE b[u][i]]
      <4>1. \A i \in Ids : i \in Live(b[u]) <=> b[u][i] # None
        BY <2>1, AbsenceAssumption DEF Live
      <4>2. \A i \in Ids : i \in G <=> b[u][i] # None /\ Meant[req.arg][i][b[u][i]]
        BY <4>1
      <4> HIDE DEF G
      <4> QED BY <4>2 DEF Without
    <3>3. tables = Effect(before, req)
      <4>1. Effect(before, req) =
              [b EXCEPT ![u] = [i \in Ids |-> IF @[i] # None /\ Meant[req.arg][i][@[i]] THEN None ELSE @[i]]]
        BY <2>4 DEF Effect
      <4>2. Effect(before, req) = [b EXCEPT ![u] = Without(b[u], G)]
        BY <3>2, <4>1
      <4> QED BY <2>1, <3>1, <4>2
    <3> HIDE DEF next
    <3> QED BY <1>1, <1>3, <2>4, <3>1, <3>3 DEF Stage
  <2> QED BY <1>2, <2>2, <2>3, <2>4
<1> HIDE DEF next
<1> QED BY <1>1, <1>2, <1>3, <1>4, <1>5, GoOnShape

\* The seed puts its documents over the rows, the one it replaces being gone or not.
LEMMA SeedStep ==
  ASSUME TaskInv, Seed
  PROVE  TaskInv' /\ ntasks' = ntasks /\ ntasks \in Nat
<1> DEFINE u == req.uid
           b == before.tables
           new == IF Keyed(u) THEN Put(Base(u), req.docs)
                  ELSE IF Live(req.docs) = {} THEN tables[u] ELSE Keyless
<1>1. /\ pc = "seed" /\ tables' = [tables EXCEPT ![u] = new] /\ GoOn("rebuild")
      /\ found' = found /\ settings' = settings
  BY Zenon DEF Seed
<1>2. /\ req.op \in {"add", "put", "seed", "reseed"} /\ u \in Uids /\ u \in Names /\ tables \in Tables
      /\ b \in Tables /\ settings = [v \in Uids |-> settings[v]] /\ ntasks \in Nat /\ req.docs \in Docs
  BY <1>1, AtCall DEF TaskInv, Shape, Names
<1>3. pc' = "rebuild" /\ req' = req /\ before' = before /\ ntasks' = ntasks
  BY <1>1, Zenon DEF GoOn
<1>4. "rebuild" \in CallsOf(req.op)
  BY <1>2 DEF CallsOf
<1>5. Keyed(u) <=> tables[u] \in Docs
  BY <1>2, AbsenceAssumption DEF Keyed, Tables
<1>6. tables' \in Tables
  <2>1. Keyed(u) => Base(u) \in Docs
    BY <1>5, DocsClosed DEF Base
  <2>2. new \in Docs \cup {None, Keyless}
    BY <1>2, <2>1, DocsClosed DEF Tables
  <2> HIDE DEF new
  <2> QED BY <1>1, <1>2, <2>2 DEF Tables
<1>7. ASSUME calm
      PROVE  Stage'
  <2>1. CASE req.op \in {"seed", "reseed"}
    BY <1>3, <2>1 DEF Stage
  <2>2. CASE req.op \in {"add", "put"}
    <3> DEFINE S == IF req.op = "put" THEN before.ids ELSE {}
    <3>1. /\ b[u] \in Docs /\ tables = [b EXCEPT ![u] = Without(@, S)]
          /\ req.op = "put" => \A i \in before.ids : req.docs[i] # None
      BY <1>1, <1>7, <2>2 DEF TaskInv, Stage
    <3>2. \A i \in S : req.docs[i] # None
      BY <3>1
    <3> HIDE DEF S
    <3>3. tables[u] = Without(b[u], S) /\ tables[u] \in Docs
      BY <1>2, <3>1, DocsClosed DEF Tables
    <3>4. Put(Without(b[u], S), req.docs) = Put(b[u], req.docs)
      BY <3>2 DEF Put, Without
    <3>5. new = Put(b[u], req.docs)
      BY <1>5, <2>2, <3>3, <3>4 DEF Base
    <3> HIDE DEF new
    <3>6. tables' = [b EXCEPT ![u] = Put(b[u], req.docs)]
      BY <1>1, <1>2, <3>1, <3>5 DEF Tables
    <3>7. tables' = Effect(before, req)
      BY <2>2, <3>6 DEF Effect
    <3> QED BY <1>3, <2>2, <3>1, <3>7 DEF Stage
  <2> QED BY <1>2, <2>1, <2>2
<1> HIDE DEF new
<1> QED BY <1>1, <1>2, <1>3, <1>4, <1>6, <1>7, GoOnShape

\* A seed that fails ends the request.
LEMMA SeedFailsStep ==
  ASSUME TaskInv, NEW S \in SUBSET Ids, SeedFails(S)
  PROVE  TaskInv' /\ ntasks' = ntasks /\ ntasks \in Nat
<1> DEFINE u == req.uid
           D == [i \in Ids |-> IF i \in S THEN req.docs[i] ELSE None]
<1>1. /\ pc = "seed" /\ Keyed(u) /\ tables' = [tables EXCEPT ![u] = Put(Base(u), D)] /\ Finished
      /\ found' = found /\ settings' = settings /\ ntasks' = ntasks
  BY Zenon DEF SeedFails, server
<1>2. /\ u \in Uids /\ u \in Names /\ tables \in Tables /\ req.docs \in Docs
      /\ settings = [v \in Uids |-> settings[v]] /\ ntasks \in Nat /\ found \in [Uids -> Docs \cup {None}]
  BY <1>1 DEF TaskInv, Shape, Names
<1>3. Base(u) \in Docs
  BY <1>1, <1>2, DocsClosed DEF Base, Keyed, Tables
<1>4. D \in Docs
  BY <1>2 DEF Docs
<1> HIDE DEF D
<1>5. tables' \in Tables
  BY <1>1, <1>2, <1>3, <1>4, DocsClosed DEF Tables
<1> QED BY <1>1, <1>2, <1>5, FinishedStep

\* Renames that change tables: the names stay names.
LEMMA RenamedTables ==
  ASSUME tables \in Tables, NEW from \in Names, NEW to \in Names, Rename(from, to)
  PROVE  tables' \in Tables
<1>1. tables' = [tables EXCEPT ![from] = None, ![to] = tables[from]]
  BY Zenon DEF Rename
<1> QED BY <1>1 DEF Tables

\* The first two renames: what each table holds, and under which name.
LEMMA SwapStep ==
  ASSUME TaskInv, SwapRename1 \/ SwapRename2
  PROVE  TaskInv' /\ ntasks' = ntasks /\ ntasks \in Nat
<1> DEFINE l == req.uid
           r == req.arg
           b == before.tables
<1>1. pc \in {"rename1", "rename2"} /\ found' = found /\ settings' = settings
  BY Zenon DEF SwapRename1, SwapRename2
<1>2. /\ req.op = "swap" /\ l \in Uids /\ r \in Uids /\ l # r
      /\ l \in Names /\ r \in Names /\ Temp \in Names /\ Temp # l /\ Temp # r
      /\ tables \in Tables /\ b \in Tables /\ settings = [v \in Uids |-> settings[v]] /\ ntasks \in Nat
  BY <1>1, AtCall, NamesAssumption DEF TaskInv, Shape, Names
<1>3. CallsOf(req.op) = {"rename1", "rename2", "rename3"}
  BY <1>2 DEF CallsOf
<1>4. CASE SwapRename1
  <2>1. /\ pc = "rename1" /\ Rename(l, Temp) /\ GoOn("rename2")
        /\ tables' = [tables EXCEPT ![l] = None, ![Temp] = tables[l]]
    BY <1>4, Zenon DEF SwapRename1, Rename
  <2>2. pc' = "rename2" /\ req' = req /\ before' = before /\ ntasks' = ntasks
    BY <2>1, Zenon DEF GoOn
  <2>3. ASSUME calm
        PROVE  Stage'
    <3>1. tables = b /\ b[Temp] = None
      BY <1>2, <2>1, <2>3 DEF TaskInv, Stage
    <3> QED BY <1>2, <2>1, <2>2, <3>1 DEF Stage
  <2>4. tables' \in Tables
    BY <1>2, <2>1, RenamedTables
  <2> QED BY <1>1, <1>2, <1>3, <2>1, <2>2, <2>3, <2>4, GoOnShape
<1>5. CASE SwapRename2
  <2>1. /\ pc = "rename2" /\ Rename(r, l) /\ GoOn("rename3")
        /\ tables' = [tables EXCEPT ![r] = None, ![l] = tables[r]]
    BY <1>5, Zenon DEF SwapRename2, Rename
  <2>2. pc' = "rename3" /\ req' = req /\ before' = before /\ ntasks' = ntasks
    BY <2>1, Zenon DEF GoOn
  <2>3. ASSUME calm
        PROVE  Stage'
    <3>1. tables = [b EXCEPT ![l] = None, ![Temp] = b[l]] /\ b[Temp] = None
      BY <1>2, <2>1, <2>3 DEF TaskInv, Stage
    <3>2. tables[r] = b[r]
      BY <1>2, <3>1 DEF Tables
    <3>3. tables' = [b EXCEPT ![l] = b[r], ![r] = None, ![Temp] = b[l]]
      BY <1>2, <2>1, <3>1, <3>2 DEF Tables
    <3> QED BY <1>2, <2>2, <3>1, <3>3 DEF Stage
  <2>4. tables' \in Tables
    BY <1>2, <2>1, RenamedTables
  <2> QED BY <1>1, <1>2, <1>3, <2>1, <2>2, <2>3, <2>4, GoOnShape
<1> QED BY <1>4, <1>5

\* The last rename, with which settings and text indexes follow the tables.
LEMMA SwapLastStep ==
  ASSUME TaskInv, SwapRename3
  PROVE  TaskInv' /\ (calm => Effected)
<1> DEFINE l == req.uid
           r == req.arg
           b == before.tables
<1>1. /\ pc = "rename3" /\ Rename(Temp, r) /\ tables' = [tables EXCEPT ![Temp] = None, ![r] = tables[Temp]]
      /\ settings' = Exchange(settings, l, r) /\ found' = Exchange(found, l, r)
      /\ ntasks' = ntasks + 1 /\ Finished
  BY Zenon DEF SwapRename3, Rename, PushTask
<1>2. /\ req.op = "swap" /\ l \in Uids /\ r \in Uids /\ l # r
      /\ l \in Names /\ r \in Names /\ Temp \in Names /\ Temp # l /\ Temp # r
      /\ tables \in Tables /\ b \in Tables /\ settings = [v \in Uids |-> settings[v]] /\ ntasks \in Nat
      /\ found \in [Uids -> Docs \cup {None}]
  BY <1>1, AtCall, NamesAssumption DEF TaskInv, Shape, Names
<1>3. tables' \in Tables
  BY <1>1, <1>2, RenamedTables
<1>4. found' \in [Uids -> Docs \cup {None}]
  BY <1>1, <1>2 DEF Exchange
<1>5. /\ settings' = [v \in Uids |-> settings'[v]]
      /\ \A v \in Uids : settings'[v] = IF v = l THEN settings[r] ELSE IF v = r THEN settings[l] ELSE settings[v]
  <2>1. settings' = [v \in Uids |-> IF v = l THEN settings[r] ELSE IF v = r THEN settings[l] ELSE settings[v]]
    BY <1>1, <1>2 DEF Exchange
  <2> QED BY <2>1
<1>6. TaskInv'
  BY <1>1, <1>2, <1>3, <1>4, <1>5, FinishedStep
<1>7. ASSUME calm
      PROVE  Effected
  <2>1. /\ tables = [b EXCEPT ![l] = b[r], ![r] = None, ![Temp] = b[l]] /\ b[Temp] = None
        /\ found = before.found /\ Readings(settings) = Readings(before.settings)
    BY <1>1, <1>2, <1>7 DEF TaskInv, Stage
  <2>2. tables' = [b EXCEPT ![l] = b[r], ![r] = b[l]]
    BY <1>1, <1>2, <2>1 DEF Tables
  <2>3. tables' = Effect(before, req)
    BY <1>2, <2>2 DEF Effect, Exchange
  <2> DEFINE read == Readings(settings)
             R(s) == Reading(IF s = None THEN Defaults ELSE s)
  <2>4. read = [v \in Uids |-> R(settings[v])] /\ Readings(settings') = [v \in Uids |-> R(settings'[v])]
    BY DEF Readings
  <2> HIDE DEF read, R
  <2>5. Readings(settings') = [read EXCEPT ![l] = read[r], ![r] = read[l]]
    BY <1>2, <1>5, <2>4
  <2>6. Readings(settings') = EffectOnSettings(before, req)
    BY <1>2, <2>1, <2>5 DEF EffectOnSettings, Exchange, read
  <2> QED BY <1>1, <1>2, <2>1, <2>3, <2>6 DEF Effected
<1> QED BY <1>6, <1>7

\* A rename that fails ends the request.
LEMMA SwapFailsStep ==
  ASSUME TaskInv, SwapFails
  PROVE  TaskInv' /\ ntasks' = ntasks /\ ntasks \in Nat
<1>1. Finished /\ tables' = tables /\ found' = found /\ settings' = settings /\ ntasks' = ntasks
  BY Zenon DEF SwapFails, server
<1> QED BY <1>1, FinishedStep DEF TaskInv, Shape

\* The calls of requests.
LEMMA TaskStepStep ==
  ASSUME TaskInv, FiltersMean, NoneIsAtomic, Step
  PROVE  TaskInv' /\ (calm /\ ntasks' > ntasks => Effected)
<1>1. CASE CreateExisting \/ CreateTable
  <2>1. ntasks' = ntasks \/ Finished
    BY <1>1, Zenon DEF CreateExisting, CreateTable, GoOn, Refuse
  <2>2. ntasks' = ntasks /\ ntasks \in Nat
    BY <1>1 DEF CreateExisting, CreateTable, GoOn, Refuse, server, TaskInv, Shape
  <2> QED BY <1>1, <2>2, CreateStep
<1>2. CASE DropTable
  BY <1>2, DropStep
<1>3. CASE DropFails
  <2>1. Refuse
    BY <1>3, Zenon DEF DropFails
  <2> QED BY <2>1, RefuseStep
<1>4. CASE Settle
  BY <1>4, SettleStep
<1>5. CASE Rebuild
  BY <1>5, RebuildStep
<1>6. CASE Select
  BY <1>6, SelectStep
<1>7. CASE Truncate
  BY <1>7, TruncateStep
<1>8. CASE TruncateFails
  <2>1. Refuse
    BY <1>8, Zenon DEF TruncateFails
  <2> QED BY <2>1, RefuseStep
<1>9. CASE Deleted
  BY <1>9, DeletedStep
<1>10. CASE Seed
  BY <1>10, SeedStep
<1>11. ASSUME NEW i \in Ids, Delete(i) \/ DeleteFails(i)
       PROVE  TaskInv' /\ (calm /\ ntasks' > ntasks => Effected)
  BY <1>11, DeleteStep, DeleteFailsStep
<1>12. ASSUME NEW S \in SUBSET Ids, SeedFails(S)
       PROVE  TaskInv' /\ (calm /\ ntasks' > ntasks => Effected)
  BY <1>12, SeedFailsStep
<1>13. CASE SwapRename1 \/ SwapRename2
  BY <1>13, SwapStep
<1>14. CASE SwapRename3
  BY <1>14, SwapLastStep
<1>15. CASE SwapFails
  BY <1>15, SwapFailsStep
<1> QED
  BY <1>1, <1>2, <1>3, <1>4, <1>5, <1>6, <1>7, <1>8, <1>9, <1>10, <1>11, <1>12, <1>13, <1>14,
     <1>15, Zenon DEF Step

\* A statement of a client keeps the tables tables, and ends the calm of a request.
LEMMA TaskSqlStep ==
  ASSUME TaskInv, SqlClient
  PROVE  TaskInv' /\ ntasks' = ntasks /\ ntasks \in Nat
<1>1. ASSUME NEW S, Sql(S), tables' \in Tables
      PROVE  TaskInv' /\ ntasks' = ntasks /\ ntasks \in Nat
  <2>1. /\ calm' = (pc = "idle") /\ found' = found /\ settings' = settings /\ ntasks' = ntasks
        /\ pc' = pc /\ req' = req /\ before' = before
    BY <1>1, Zenon DEF Sql, server, local
  <2>2. Shape'
    BY <1>1, <2>1 DEF TaskInv, Shape
  <2> QED BY <2>1, <2>2 DEF TaskInv, Shape
<1>2. PICK u \in Uids :
        \/ SqlCreate(u) \/ SqlDrop(u)
        \/ \E i \in Ids, b \in Written \cup {None} : SqlWrite(u, i, b)
        \/ \E v \in Uids : SqlRename(u, v)
  BY Zenon DEF SqlClient
<1>3. tables \in Tables /\ u \in Names
  BY DEF TaskInv, Shape, Names
<1>4. CASE SqlCreate(u)
  <2>1. Sql({u}) /\ tables' = [tables EXCEPT ![u] = NoDocs]
    BY <1>4, Zenon DEF SqlCreate
  <2> QED BY <1>1, <1>3, <2>1, DocsClosed DEF Tables
<1>5. CASE SqlDrop(u)
  <2>1. Sql({u}) /\ tables' = [tables EXCEPT ![u] = None]
    BY <1>5, Zenon DEF SqlDrop
  <2> QED BY <1>1, <1>3, <2>1 DEF Tables
<1>6. ASSUME NEW i \in Ids, NEW b \in Written \cup {None}, SqlWrite(u, i, b)
      PROVE  TaskInv' /\ ntasks' = ntasks /\ ntasks \in Nat
  <2>1. Sql({u}) /\ Keyed(u) /\ tables' = [tables EXCEPT ![u] = [@ EXCEPT ![i] = b]]
    BY <1>6 DEF SqlWrite
  <2>2. tables[u] \in Docs
    BY <1>3, <2>1 DEF Keyed, Tables
  <2>3. [tables[u] EXCEPT ![i] = b] \in Docs
    BY <2>2, NamesAssumption DEF Docs
  <2>4. tables' \in Tables
    BY <1>3, <2>1, <2>3 DEF Tables
  <2> QED BY <1>1, <2>1, <2>4
<1>7. ASSUME NEW v \in Uids, SqlRename(u, v)
      PROVE  TaskInv' /\ ntasks' = ntasks /\ ntasks \in Nat
  <2>1. Sql({u, v}) /\ Rename(u, v)
    BY <1>7, Zenon DEF SqlRename
  <2>2. v \in Names
    BY DEF Names
  <2> QED BY <1>1, <1>3, <2>1, <2>2, RenamedTables
<1> QED BY <1>2, <1>4, <1>5, <1>6, <1>7

\* Every step, and what it has done if it files a task.
LEMMA TaskInvStep ==
  ASSUME TaskInv, FiltersMean, NoneIsAtomic, [Next]_vars
  PROVE  TaskInv' /\ (pc # "idle" /\ calm /\ ntasks' > ntasks => Effected)
<1>1. CASE Request
  <2>1. pc = "idle"
    BY <1>1
       DEF Request, CreateIndex, DeleteIndex, DeleteAll, SetSettings, AddDocuments, SeedTable,
           DeleteDocument, UpsertDocument, DeleteBatch, DeleteByFilter, SwapIndexes, Begin, UpdateIndex
  <2> QED BY <1>1, <2>1, TaskRequestStep
<1>2. CASE Step
  BY <1>2, TaskStepStep
<1>3. CASE SqlClient
  BY <1>3, TaskSqlStep
<1>4. CASE Restart
  <2>1. /\ Finished /\ tables' = tables /\ ntasks' = 0
        /\ found' = [u \in Uids |-> None] /\ settings' = [u \in Uids |-> None]
    BY <1>4, Zenon DEF Restart
  <2>2. settings' = [u \in Uids |-> settings'[u]]
    BY <2>1
  <2>3. tables \in Tables /\ ntasks \in Nat
    BY DEF TaskInv, Shape
  <2> QED BY <2>1, <2>2, <2>3, FinishedStep
<1>5. CASE ListTasks
  <2>1. /\ tables' = tables /\ found' = found /\ settings' = settings /\ ntasks' = ntasks
        /\ pc' = pc /\ req' = req /\ before' = before /\ calm' = calm /\ pc = "idle"
    BY <1>5, Zenon DEF ListTasks, server, local
  <2> QED BY <2>1 DEF TaskInv, Shape
<1>6. ASSUME NEW t \in Snapshots, Restore(t)
      PROVE  TaskInv' /\ pc = "idle"
  <2>1. /\ tables' = InEngine(t) /\ found' = [u \in Uids |-> IF t[u] = None THEN found[u] ELSE t[u]]
        /\ settings' = settings /\ ntasks' = ntasks /\ pc' = pc /\ req' = req /\ pc = "idle"
    BY <1>6, Zenon DEF Restore, local
  <2>2. t \in [Uids -> Docs \cup {None}]
    BY SnapshotsAssumption
  <2>3. tables' \in Tables
    BY <2>1, <2>2 DEF InEngine, Tables, Names
  <2>4. found' \in [Uids -> Docs \cup {None}]
    BY <2>1, <2>2 DEF TaskInv, Shape
  <2> QED BY <2>1, <2>3, <2>4 DEF TaskInv, Shape
<1>7. CASE UNCHANGED vars
  <2>1. /\ tables' = tables /\ found' = found /\ settings' = settings /\ ntasks' = ntasks
        /\ pc' = pc /\ req' = req /\ before' = before /\ calm' = calm
    BY <1>7, Zenon DEF vars, server, local
  <2>2. Shape'
    BY <2>1 DEF TaskInv, Shape
  <2>3. Targets' = Targets
    BY <2>1 DEF Targets
  <2>4. Stage => Stage'
    BY <2>1, <2>3 DEF Stage
  <2>5. ntasks \in Nat
    BY DEF TaskInv, Shape
  <2>6. Readings(settings)' = Readings(settings) /\ Readings(before.settings)' = Readings(before.settings)
    BY <2>1 DEF Readings
  <2> QED BY <2>1, <2>2, <2>4, <2>5, <2>6 DEF TaskInv
<1> QED BY <1>1, <1>2, <1>3, <1>4, <1>5, <1>6, <1>7, Zenon DEF Next

\* No request runs at the start.
LEMMA TaskInvStart ==
  ASSUME Init
  PROVE  TaskInv
<1>1. PICK t \in Snapshots : tables = InEngine(t)
  BY Zenon DEF Init
<1>2. t \in [Uids -> Docs \cup {None}]
  BY SnapshotsAssumption
<1>3. tables \in Tables
  BY <1>1, <1>2 DEF InEngine, Tables, Names
<1>4. pc = "idle" /\ req = Idle /\ ntasks = 0 /\ found = [u \in Uids |-> None] /\ settings = [u \in Uids |-> None]
  BY Zenon DEF Init
<1>5. settings = [u \in Uids |-> settings[u]]
  BY <1>4
<1>6. req = [op |-> req.op, uid |-> req.uid, arg |-> req.arg, docs |-> req.docs, ids |-> req.ids]
  BY <1>4 DEF Idle
<1> QED BY <1>3, <1>4, <1>5, <1>6 DEF TaskInv, Shape

\* A task stands for its whole effect: tables, settings and text indexes are, when it
\* appears, what its request asked for of the state it began in, through all the engine
\* calls it took, if no statement of a client came between them.
THEOREM TasksMeanDone ==
  ASSUME FiltersMean, NoneIsAtomic
  PROVE  Spec => TaskMeansDone
<1>1. Init => TaskInv
  BY TaskInvStart
<1>2. TaskInv /\ [Next]_vars => TaskInv'
  BY TaskInvStep
<1>3. TaskInv /\ [Next]_vars => (pc # "idle" /\ calm /\ ntasks' > ntasks => Effected)
  BY TaskInvStep
<1>4. TaskInv /\ [Next]_vars =>
        [pc # "idle" /\ calm /\ ntasks' > ntasks =>
           /\ tables' = Effect(before, req)
           /\ Readings(settings') = EffectOnSettings(before, req)
           /\ \A u \in Uids :
                IF req.op = "swap" THEN found'[u] = Exchange(before.found, req.uid, req.arg)[u]
                ELSE u # req.uid => found'[u] = before.found[u]]_vars
  BY <1>3, Zenon DEF Effected
<1> QED BY <1>1, <1>2, <1>4, PTL DEF Spec, TaskMeansDone
-----------------------------------------------------------------------------
(* Searches                                                                *)

\* The text index of u holds the documents of the table n, if it holds any.
Follows(u, n) == tables[n] \in {None, Keyless} \/ found[u] \in {None, tables[n]}

\* A request is between its first write to the table and the rebuild; a swap is
\* between its renames.
Busy(u) ==
  \/ pc \in {"rebuild", "delete", "seed", "truncate"} /\ u = req.uid
  \/ pc \in {"rename2", "rename3"} /\ u \in {req.uid, req.arg}

\* Between the renames the documents of an index are under another name.
Between ==
  \/ {req.uid, req.arg} \cap behind # {}
  \/ /\ Follows(req.uid, Temp)
     /\ Follows(req.arg, IF pc = "rename2" THEN req.arg ELSE req.uid)

Known(s) == s = None \/ s \in AllSettings
Current(u) == u \in behind \/ Follows(u, u)

\* An index that is not behind, and at which no request is at work, follows its table.
FollowInv ==
  /\ \A u \in Uids : Known(settings[u])
  /\ \A u \in Uids : Busy(u) \/ Current(u)
  /\ pc \in {"rename2", "rename3"} => Between

\* A step to no call that is at work on a table.
LEMMA Resting ==
  ASSUME \A u \in Uids : Known(settings'[u]), \A u \in Uids : Current(u)',
         pc' \notin {"rename2", "rename3"}
  PROVE  FollowInv'
BY DEF FollowInv

\* An index stays current where its table and documents stay and behind keeps it.
LEMMA CurrentStays ==
  ASSUME NEW u, Current(u), tables'[u] = tables[u], found'[u] = found[u],
         u \in behind => u \in behind'
  PROVE  Current(u)'
BY DEF Current, Follows

LEMMA FollowRequest ==
  ASSUME FollowInv, Request
  PROVE  FollowInv'
<1> DEFINE Starts ==
      /\ pc = "idle" /\ tables' = tables /\ found' = found /\ settings' = settings /\ behind' = behind
      /\ pc' \notin {"rename2", "rename3"}
<1>1. ASSUME NEW op, NEW u, NEW arg, NEW D, NEW S, NEW next, next \notin {"rename2", "rename3"},
             Begin(op, u, arg, D, S, next)
      PROVE  Starts
  BY <1>1 DEF Begin, server
<1>2. ASSUME NEW u \in Uids, UpdateIndex(u)
      PROVE  Starts
  BY <1>2 DEF UpdateIndex, local
<1> HIDE DEF Starts
<1>3. PICK u \in Uids :
        \/ CreateIndex(u) \/ UpdateIndex(u) \/ DeleteIndex(u) \/ DeleteAll(u)
        \/ \E c \in Changes : SetSettings(u, c)
        \/ \E D \in Payloads : AddDocuments(u, D) \/ SeedTable(u, "seed", D) \/ SeedTable(u, "reseed", D)
        \/ \E i \in Ids : DeleteDocument(u, i) \/ \E b \in Written : UpsertDocument(u, i, b)
        \/ \E S \in Batches : DeleteBatch(u, S)
        \/ \E f \in Filters : DeleteByFilter(u, f)
        \/ \E v \in Uids : SwapIndexes(u, v)
  BY Zenon DEF Request
<1>4. \E op, arg, D, S : \E next \in {"create", "existing", "drop", "truncate", "settings", "seed",
                                       "delete", "select", "rename1"} :
        Begin(op, u, arg, D, S, next) \/ UpdateIndex(u)
  BY <1>3, Zenon
     DEF CreateIndex, DeleteIndex, DeleteAll, SetSettings, AddDocuments, SeedTable,
         DeleteDocument, UpsertDocument, DeleteBatch, DeleteByFilter, SwapIndexes
<1>5. Starts
  BY <1>1, <1>2, <1>4
<1>6. \A v \in Uids : Current(v)
  BY <1>5 DEF Starts, FollowInv, Busy
<1>7. \A v \in Uids : Current(v)'
  BY <1>5, <1>6, CurrentStays DEF Starts
<1> QED BY <1>5, <1>7, Resting DEF Starts, FollowInv

\* The calls that leave the tables to a rebuild.
LEMMA FollowWrites ==
  ASSUME TaskInv, FollowInv, SettingsClosed,
         CreateExisting \/ CreateTable \/ DropTable \/ Truncate \/ Seed \/ Deleted \/ Select
  PROVE  FollowInv'
<1> DEFINE r == req.uid
<1>1. pc # "idle" /\ pc \notin {"rename2", "rename3"}
  BY DEF CreateExisting, CreateTable, DropTable, Truncate, Seed, Deleted, Select
<1>2. /\ r \in Uids /\ tables \in Tables /\ found \in [Uids -> Docs \cup {None}]
      /\ settings = [u \in Uids |-> settings[u]] /\ Uids \subseteq Names
      /\ req = [op |-> req.op, uid |-> req.uid, arg |-> req.arg, docs |-> req.docs, ids |-> req.ids]
  BY <1>1 DEF TaskInv, Shape, Names
<1>3. ASSUME NEW u \in Uids, u # r
      PROVE  Current(u)
  BY <1>1, <1>3 DEF FollowInv, Busy
<1>4. ASSUME NEW u \in Uids, DefaultSettings(r)
      PROVE  Known(settings'[u])
  <2>1. settings'[u] = IF u = r /\ settings[u] = None THEN Defaults ELSE settings[u]
    BY <1>2, <1>4 DEF DefaultSettings
  <2>2. Defaults \in AllSettings
    BY DEF AllSettings
  <2> HIDE DEF r
  <2> QED BY <2>1, <2>2, Zenon DEF FollowInv, Known
<1>5. ASSUME tables' = [tables EXCEPT ![r] = tables'[r]], found' = found, behind' = behind,
             \A u \in Uids : Known(settings'[u]), pc' \in {"rebuild", "delete", "seed"}, req'.uid = r
      PROVE  FollowInv'
  <2>1. ASSUME NEW u \in Uids, u # r
        PROVE  Current(u)'
    <3>1. tables'[u] = tables[u]
      BY <1>2, <1>5, <2>1 DEF Tables
    <3> QED BY <1>3, <1>5, <2>1, <3>1, CurrentStays
  <2> QED BY <1>5, <2>1 DEF FollowInv, Busy
<1>6. \A u \in Uids : Known(settings[u])
  BY DEF FollowInv
<1>7. CASE CreateExisting
  <2>1. DefaultSettings(r) /\ GoOn("rebuild") /\ tables' = tables /\ found' = found /\ behind' = behind
    BY <1>7, Zenon DEF CreateExisting
  <2>2. pc' = "rebuild" /\ req' = req
    BY <2>1, Zenon DEF GoOn
  <2>3. tables' = [tables EXCEPT ![r] = tables'[r]]
    BY <1>2, <2>1 DEF Tables
  <2> QED BY <1>4, <1>5, <2>1, <2>2, <2>3
<1>8. CASE CreateTable
  <2>1. CASE Refuse
    <3>1. /\ pc' = "idle" /\ tables' = tables /\ found' = found /\ settings' = settings
          /\ behind' = behind /\ pc = "create"
      BY <1>8, <2>1, Zenon DEF CreateTable, Refuse, Finished, server
    <3>2. \A u \in Uids : Current(u)
      BY <3>1 DEF FollowInv, Busy
    <3>3. \A u \in Uids : Current(u)'
      BY <3>1, <3>2, CurrentStays
    <3> QED BY <1>6, <3>1, <3>3, Resting
  <2>2. CASE ~Refuse
    <3>1. /\ tables' = IF tables[r] = None THEN [tables EXCEPT ![r] = NoDocs] ELSE tables
          /\ DefaultSettings(r) /\ GoOn("rebuild") /\ found' = found /\ behind' = behind
      BY <1>8, <2>2, Zenon DEF CreateTable
    <3>2. pc' = "rebuild" /\ req' = req
      BY <3>1, Zenon DEF GoOn
    <3>3. tables' = [tables EXCEPT ![r] = tables'[r]]
      BY <1>2, <3>1 DEF Tables
    <3> QED BY <1>4, <1>5, <3>1, <3>2, <3>3
  <2> QED BY <2>1, <2>2
<1>9. CASE DropTable
  <2>1. /\ tables' = [tables EXCEPT ![r] = None] /\ settings' = [settings EXCEPT ![r] = None]
        /\ found' = [found EXCEPT ![r] = None] /\ behind' = behind /\ pc' = "idle"
    BY <1>9, Zenon DEF DropTable, Finished
  <2>2. ASSUME NEW u \in Uids
        PROVE  Current(u)' /\ Known(settings'[u])
    <3>1. CASE u = r
      <4>1. tables'[r] = None /\ settings'[r] = None
        BY <1>2, <2>1 DEF Tables
      <4> QED BY <3>1, <4>1 DEF Current, Follows, Known
    <3>2. CASE u # r
      <4>1. tables'[u] = tables[u] /\ found'[u] = found[u] /\ settings'[u] = settings[u]
        BY <1>2, <2>1, <3>2 DEF Tables
      <4> QED BY <1>3, <1>6, <2>1, <3>2, <4>1, CurrentStays
    <3> QED BY <3>1, <3>2
  <2> QED BY <2>1, <2>2, Resting
<1>10. CASE Truncate \/ Seed \/ Deleted
  <2>1. PICK next \in {"rebuild", "seed"} :
          /\ GoOn(next) /\ found' = found /\ behind' = behind /\ settings' = settings
          /\ tables' = tables \/ \E t : tables' = [tables EXCEPT ![r] = t]
    BY <1>10 DEF Truncate, Seed, Deleted
  <2>2. pc' = next /\ req' = req
    BY <2>1, Zenon DEF GoOn
  <2>3. tables' = [tables EXCEPT ![r] = tables'[r]]
    BY <1>2, <2>1 DEF Tables
  <2> QED BY <1>5, <1>6, <2>1, <2>2, <2>3
<1>11. CASE Select
  <2>1. /\ tables' = tables /\ found' = found /\ settings' = settings /\ behind' = behind
        /\ pc' = "delete" /\ req'.uid = r
    <3>1. \E S : req' = [req EXCEPT !.ids = S]
      BY <1>11, Zenon DEF Select
    <3>2. req'.uid = r
      BY <1>2, <3>1
    <3> QED BY <1>11, <3>2, Zenon DEF Select, server
  <2>2. tables' = [tables EXCEPT ![r] = tables'[r]]
    BY <1>2, <2>1 DEF Tables
  <2> QED BY <1>5, <1>6, <2>1, <2>2
<1> QED BY <1>7, <1>8, <1>9, <1>10, <1>11

\* The calls of a deletion.
LEMMA FollowDelete ==
  ASSUME TaskInv, FollowInv, NEW i \in Ids, Delete(i) \/ DeleteFails(i)
  PROVE  FollowInv'
<1> DEFINE r == req.uid
<1>1. pc = "delete" /\ behind' = behind /\ found' = found /\ settings' = settings
  BY DEF Delete, DeleteFails, Refuse, server
<1>2. /\ r \in Uids /\ tables \in Tables /\ Uids \subseteq Names
      /\ req = [op |-> req.op, uid |-> req.uid, arg |-> req.arg, docs |-> req.docs, ids |-> req.ids]
  BY <1>1 DEF TaskInv, Shape, Names
<1>3. \A u \in Uids : Known(settings'[u])
  BY <1>1 DEF FollowInv
<1>4. \A u \in Uids \ {r} : tables'[u] = tables[u]
  <2>1. tables' = tables \/ \E t : tables' = [tables EXCEPT ![r] = t]
    BY DEF Delete, DeleteFails, Refuse
  <2> QED BY <1>2, <2>1 DEF Tables
<1>5. \A u \in Uids \ {r} : Current(u)'
  <2>1. \A u \in Uids \ {r} : Current(u)
    BY <1>1 DEF FollowInv, Busy
  <2> QED BY <1>1, <1>4, <2>1, CurrentStays
<1>6. CASE pc' = "delete" /\ req'.uid = r
  BY <1>3, <1>5, <1>6 DEF FollowInv, Busy
<1>7. CASE Refuse /\ tables[r] = None
  <2>1. pc' = "idle" /\ tables' = tables
    BY <1>7, Zenon DEF Refuse, Finished
  <2>2. \A u \in Uids \cap {r} : Current(u)'
    BY <1>7, <2>1 DEF Current, Follows
  <2> QED BY <1>3, <1>5, <2>1, <2>2, Resting
<1>8. (pc' = "delete" /\ req'.uid = r) \/ (Refuse /\ tables[r] = None)
  <2>1. CASE Refuse /\ tables[r] = None
    BY <2>1
  <2>2. CASE ~(Refuse /\ tables[r] = None)
    <3>1. pc' = pc /\ \E S : req' = [req EXCEPT !.ids = S]
      BY <2>2 DEF Delete, DeleteFails
    <3> QED BY <1>1, <1>2, <3>1
  <2> QED BY <2>1, <2>2
<1> QED BY <1>6, <1>7, <1>8

\* The steps that end a request.
LEMMA FollowEnds ==
  ASSUME TaskInv, FollowInv, SettingsClosed,
         DropFails \/ TruncateFails \/ Settle \/ Rebuild \/ SwapFails \/ \E S \in SUBSET Ids : SeedFails(S)
  PROVE  FollowInv'
<1> DEFINE r == req.uid
<1>1. pc # "idle" /\ pc' = "idle"
  BY DEF DropFails, TruncateFails, Settle, Rebuild, SwapFails, SeedFails, Refuse, Finished
<1>2. /\ r \in Uids /\ tables \in Tables /\ found \in [Uids -> Docs \cup {None}]
      /\ settings = [u \in Uids |-> settings[u]] /\ Uids \subseteq Names
  BY <1>1 DEF TaskInv, Shape, Names
<1>3. \A u \in Uids : Known(settings[u])
  BY DEF FollowInv
<1>4. CASE DropFails \/ TruncateFails
  <2>1. /\ tables' = tables /\ found' = found /\ settings' = settings /\ behind' = behind
        /\ pc = "drop" \/ (pc = "truncate" /\ tables[r] = None)
    BY <1>4 DEF DropFails, TruncateFails, Refuse, server
  <2>2. \A u \in Uids : Current(u)
    BY <2>1 DEF FollowInv, Busy, Current, Follows
  <2>3. \A u \in Uids : Current(u)'
    BY <2>1, <2>2, CurrentStays
  <2> QED BY <1>1, <1>3, <2>1, <2>3, Resting
<1>5. CASE Settle
  <2>1. /\ tables' = tables /\ found' = found /\ behind' = behind /\ pc = "settings"
        /\ settings' = [settings EXCEPT ![r] = Changed(SettingsOf(r), req.arg)]
    BY <1>5, Zenon DEF Settle
  <2>2. req.arg \in Changes
    BY <2>1, AtCall DEF TaskInv, Shape
  <2>3. SettingsOf(r) \in AllSettings
    <3>1. Defaults \in AllSettings
      BY DEF AllSettings
    <3> QED BY <1>2, <1>3, <3>1 DEF SettingsOf, Known
  <2>4. Changed(SettingsOf(r), req.arg) \in AllSettings
    BY <2>2, <2>3 DEF SettingsClosed
  <2>5. \A u \in Uids : Known(settings'[u])
    BY <1>2, <1>3, <2>1, <2>4 DEF Known
  <2>6. \A u \in Uids : Current(u)
    BY <2>1 DEF FollowInv, Busy
  <2>7. \A u \in Uids : Current(u)'
    BY <2>1, <2>6, CurrentStays
  <2> QED BY <1>1, <2>5, <2>7, Resting
<1>6. CASE Rebuild
  <2>1. /\ tables' = tables /\ settings' = settings /\ behind' = behind \ {r} /\ pc = "rebuild"
        /\ found' = [found EXCEPT ![r] = IF Keyed(r) THEN tables[r] ELSE NoDocs]
    BY <1>6, Zenon DEF Rebuild
  <2>2. \A u \in Uids \cap {r} : Current(u)'
    <3>1. \A u \in Uids \cap {r} : found'[u] = IF Keyed(u) THEN tables[u] ELSE NoDocs
      BY <1>2, <2>1
    <3> QED BY <2>1, <3>1 DEF Current, Follows, Keyed
  <2>3. \A u \in Uids \ {r} : Current(u)'
    <3>1. \A u \in Uids \ {r} : Current(u)
      BY <2>1 DEF FollowInv, Busy
    <3>2. \A u \in Uids \ {r} : found'[u] = found[u]
      BY <1>2, <2>1
    <3> QED BY <2>1, <3>1, <3>2, CurrentStays
  <2> QED BY <1>1, <1>3, <2>1, <2>2, <2>3, Resting
<1>7. CASE SwapFails
  <2>1. /\ tables' = tables /\ found' = found /\ settings' = settings
        /\ behind' = IF pc = "rename1" THEN behind ELSE behind \cup {req.uid, req.arg}
        /\ pc \in {"rename1", "rename2", "rename3"}
    BY <1>7 DEF SwapFails, server
  <2>2. ASSUME NEW u \in Uids
        PROVE  Current(u)'
    <3>1. CASE Current(u)
      BY <2>1, <3>1, CurrentStays
    <3>2. CASE Busy(u)
      BY <2>1, <3>2 DEF Busy, Current
    <3> QED BY <3>1, <3>2 DEF FollowInv
  <2> QED BY <1>1, <1>3, <2>1, <2>2, Resting
<1>8. ASSUME NEW S \in SUBSET Ids, SeedFails(S)
      PROVE  FollowInv'
  <2>1. /\ \E t : tables' = [tables EXCEPT ![r] = t]
        /\ found' = found /\ settings' = settings /\ behind' = behind \cup {r} /\ pc = "seed"
    BY <1>8, Zenon DEF SeedFails, server
  <2>2. \A u \in Uids \ {r} : Current(u) /\ tables'[u] = tables[u]
    BY <1>2, <2>1 DEF FollowInv, Busy, Tables
  <2>3. \A u \in Uids \ {r} : Current(u)'
    BY <2>1, <2>2, CurrentStays
  <2>4. \A u \in Uids \cap {r} : Current(u)'
    BY <2>1 DEF Current
  <2> QED BY <1>1, <1>3, <2>1, <2>3, <2>4, Resting
<1> QED BY <1>4, <1>5, <1>6, <1>7, <1>8

\* The renames of a swap: the documents go with their tables from name to name.
LEMMA FollowSwap ==
  ASSUME TaskInv, FollowInv, SwapRename1 \/ SwapRename2 \/ SwapRename3
  PROVE  FollowInv'
<1>1. pc \in {"rename1", "rename2", "rename3"}
  BY DEF SwapRename1, SwapRename2, SwapRename3
<1>2. /\ req.uid \in Uids /\ req.arg \in Uids /\ req.arg # req.uid /\ tables \in Tables
      /\ found \in [Uids -> Docs \cup {None}] /\ settings = [u \in Uids |-> settings[u]]
  BY <1>1, AtCall DEF TaskInv, Shape
<1>3. PICK l \in Uids, r \in Uids : l = req.uid /\ r = req.arg /\ l # r
  BY <1>2
<1>4. Uids \subseteq Names /\ Temp \in Names /\ Temp \notin Uids
  BY NamesAssumption DEF Names
<1>5. \A u \in Uids : Known(settings[u])
  BY DEF FollowInv
<1>6. \A u \in Uids \ {l, r} : Current(u)
  BY <1>1, <1>3 DEF FollowInv, Busy
<1>7. CASE SwapRename1
  <2>1. /\ pc = "rename1" /\ pc' = "rename2" /\ req' = req /\ tables' = [tables EXCEPT ![l] = None, ![Temp] = tables[l]]
        /\ found' = found /\ settings' = settings /\ behind' = behind
    BY <1>3, <1>7, Zenon DEF SwapRename1, Rename, GoOn
  <2>2. /\ \A u \in Uids \ {l} : tables'[u] = tables[u]
        /\ tables'[Temp] = tables[l]
    BY <1>2, <1>3, <1>4, <2>1 DEF Tables
  <2>3. \A u \in Uids \ {l, r} : Current(u)'
    BY <1>6, <2>1, <2>2, CurrentStays
  <2>4. l \in behind \/ r \in behind \/ (Follows(l, l) /\ Follows(r, r))
    BY <1>3, <2>1 DEF FollowInv, Busy, Current
  <2>5. l \in behind' \/ r \in behind' \/ (Follows(l, Temp)' /\ Follows(r, r)')
    BY <1>3, <2>1, <2>2, <2>4 DEF Follows
  <2>6. Between'
    BY <1>3, <2>1, <2>5 DEF Between
  <2> QED BY <1>3, <1>5, <2>1, <2>3, <2>6 DEF FollowInv, Busy
<1>8. CASE SwapRename2
  <2>1. /\ pc = "rename2" /\ pc' = "rename3" /\ req' = req /\ tables' = [tables EXCEPT ![r] = None, ![l] = tables[r]]
        /\ found' = found /\ settings' = settings /\ behind' = behind
    BY <1>3, <1>8, Zenon DEF SwapRename2, Rename, GoOn
  <2>2. /\ \A u \in Uids \ {l, r} : tables'[u] = tables[u]
        /\ tables'[Temp] = tables[Temp] /\ tables'[l] = tables[r]
    BY <1>2, <1>3, <1>4, <2>1 DEF Tables
  <2>3. \A u \in Uids \ {l, r} : Current(u)'
    BY <1>6, <2>1, <2>2, CurrentStays
  <2>4. l \in behind \/ r \in behind \/ (Follows(l, Temp) /\ Follows(r, r))
    BY <1>3, <2>1 DEF FollowInv, Between
  <2>5. l \in behind' \/ r \in behind' \/ (Follows(l, Temp)' /\ Follows(r, l)')
    BY <1>3, <2>1, <2>2, <2>4 DEF Follows
  <2>6. Between'
    BY <1>3, <2>1, <2>5 DEF Between
  <2> QED BY <1>3, <1>5, <2>1, <2>3, <2>6 DEF FollowInv, Busy
<1>9. CASE SwapRename3
  <2>1. /\ pc = "rename3" /\ pc' = "idle" /\ tables' = [tables EXCEPT ![Temp] = None, ![r] = tables[Temp]]
        /\ found' = Exchange(found, l, r) /\ settings' = Exchange(settings, l, r)
        /\ behind' = behind \cup {u \in {l, r} : {l, r} \cap behind # {}}
    BY <1>3, <1>9, Zenon DEF SwapRename3, Rename, Finished
  <2>2. /\ \A u \in Uids \ {r} : tables'[u] = tables[u]
        /\ tables'[r] = tables[Temp]
    BY <1>2, <1>3, <1>4, <2>1 DEF Tables
  <2>3. /\ \A u \in Uids \ {l, r} : found'[u] = found[u] /\ settings'[u] = settings[u]
        /\ found'[l] = found[r] /\ found'[r] = found[l]
        /\ settings'[l] = settings[r] /\ settings'[r] = settings[l]
    BY <1>2, <1>3, <2>1 DEF Exchange
  <2>4. \A u \in Uids \ {l, r} : Current(u)'
    BY <1>6, <2>1, <2>2, <2>3, CurrentStays
  <2>5. l \in behind \/ r \in behind \/ (Follows(l, Temp) /\ Follows(r, l))
    BY <1>3, <2>1 DEF FollowInv, Between
  <2>6. Current(l)' /\ Current(r)'
    <3>1. CASE l \in behind \/ r \in behind
      <4>1. {l, r} \cap behind # {}
        BY <3>1
      <4>2. l \in behind' /\ r \in behind'
        BY <2>1, <4>1
      <4> QED BY <4>2 DEF Current
    <3>2. CASE Follows(l, Temp) /\ Follows(r, l)
      <4>1. tables'[l] = tables[l] /\ tables'[r] = tables[Temp]
        BY <1>3, <2>2
      <4>2. Follows(l, l)' /\ Follows(r, r)'
        BY <2>3, <3>2, <4>1 DEF Follows
      <4> QED BY <4>2 DEF Current
    <3> QED BY <2>5, <3>1, <3>2
  <2>7. \A u \in Uids : Current(u)'
    BY <2>4, <2>6
  <2>8. \A u \in Uids : Known(settings'[u])
    BY <1>3, <1>5, <2>3
  <2> QED BY <2>1, <2>7, <2>8, Resting
<1> QED BY <1>7, <1>8, <1>9

\* A statement of a client leaves the indexes behind whose tables it changes.
LEMMA FollowSql ==
  ASSUME TaskInv, FollowInv, SqlClient
  PROVE  FollowInv'
<1>1. tables \in Tables /\ Uids \subseteq Names /\ Temp \in Names /\ Temp \notin Uids
  BY NamesAssumption DEF TaskInv, Shape, Names
<1>2. \E S \in SUBSET Uids : Sql(S) /\ \A n \in Names \ S : tables'[n] = tables[n]
  <2>1. PICK u \in Uids :
          \/ SqlCreate(u) \/ SqlDrop(u)
          \/ \E i \in Ids, b \in Written \cup {None} : SqlWrite(u, i, b)
          \/ \E v \in Uids : SqlRename(u, v)
    BY Zenon DEF SqlClient
  <2>2. CASE SqlCreate(u) \/ SqlDrop(u) \/ \E i \in Ids, b \in Written \cup {None} : SqlWrite(u, i, b)
    <3>1. Sql({u}) /\ \E t : tables' = [tables EXCEPT ![u] = t]
      BY <2>2, Zenon DEF SqlCreate, SqlDrop, SqlWrite
    <3>2. \A n \in Names \ {u} : tables'[n] = tables[n]
      BY <1>1, <3>1 DEF Tables
    <3> QED BY <3>1, <3>2
  <2>3. ASSUME NEW v \in Uids, SqlRename(u, v)
        PROVE  \E S \in SUBSET Uids : Sql(S) /\ \A n \in Names \ S : tables'[n] = tables[n]
    <3>1. Sql({u, v}) /\ tables' = [tables EXCEPT ![u] = None, ![v] = tables[u]]
      BY <2>3, Zenon DEF SqlRename, Rename
    <3>2. \A n \in Names \ {u, v} : tables'[n] = tables[n]
      BY <1>1, <3>1 DEF Tables
    <3> QED BY <3>1, <3>2
  <2> QED BY <2>1, <2>2, <2>3
<1>3. PICK S \in SUBSET Uids : Sql(S) /\ \A n \in Names \ S : tables'[n] = tables[n]
  BY <1>2, Zenon
<1>4. /\ behind' = behind \cup S /\ found' = found /\ settings' = settings /\ pc' = pc /\ req' = req
  BY <1>3, Zenon DEF Sql, server, local
<1>5. ASSUME NEW u \in Uids, NEW n \in Names, n \notin S, Follows(u, n)
      PROVE  Follows(u, n)'
  BY <1>3, <1>4, <1>5 DEF Follows
<1>6. ASSUME NEW u \in Uids, Current(u)
      PROVE  Current(u)'
  BY <1>1, <1>4, <1>5, <1>6 DEF Current
<1>7. ASSUME pc \in {"rename2", "rename3"}
      PROVE  Between'
  <2>1. req.uid \in Uids /\ req.arg \in Uids
    BY <1>7, AtCall DEF TaskInv, Shape
  <2>2. PICK l \in Uids, r \in Uids : l = req.uid /\ r = req.arg
    BY <2>1
  <2>3. PICK n \in {l, r} : n = IF pc = "rename2" THEN r ELSE l
    OBVIOUS
  <2>4. l \in behind \/ r \in behind \/ (Follows(l, Temp) /\ Follows(r, n))
    BY <1>7, <2>2, <2>3 DEF FollowInv, Between
  <2>5. l \in behind' \/ r \in behind' \/ (Follows(l, Temp)' /\ Follows(r, n)')
    BY <1>1, <1>4, <1>5, <2>3, <2>4
  <2> QED BY <1>4, <2>2, <2>3, <2>5 DEF Between
<1>8. \A u \in Uids : Busy(u)' <=> Busy(u)
  BY <1>4 DEF Busy
<1> QED BY <1>4, <1>6, <1>7, <1>8 DEF FollowInv

\* Every step keeps the indexes that are not behind with their tables.
LEMMA FollowStep ==
  ASSUME TaskInv, FollowInv, SettingsClosed, [Next]_vars
  PROVE  FollowInv'
<1>1. CASE Request
  BY <1>1, FollowRequest
<1>2. CASE Step
  <2>1. \/ CreateExisting \/ CreateTable \/ DropTable \/ Truncate \/ Seed \/ Deleted \/ Select
        \/ \E i \in Ids : Delete(i) \/ DeleteFails(i)
        \/ DropFails \/ TruncateFails \/ Settle \/ Rebuild \/ SwapFails \/ \E S \in SUBSET Ids : SeedFails(S)
        \/ SwapRename1 \/ SwapRename2 \/ SwapRename3
    BY <1>2, Zenon DEF Step
  <2> QED BY <2>1, FollowWrites, FollowDelete, FollowEnds, FollowSwap
<1>3. CASE SqlClient
  BY <1>3, FollowSql
<1>4. CASE Restart
  <2>1. /\ found' = [u \in Uids |-> None] /\ settings' = [u \in Uids |-> None] /\ pc' = "idle"
    BY <1>4, Zenon DEF Restart, Finished
  <2> QED BY <2>1, Resting DEF Known, Current, Follows
<1>5. CASE ListTasks \/ UNCHANGED vars
  <2>1. /\ tables' = tables /\ found' = found /\ settings' = settings /\ pc' = pc /\ req' = req
        /\ behind' = behind
    BY <1>5, Zenon DEF ListTasks, vars, server, local
  <2>2. \A u \in Uids : (Busy(u)' <=> Busy(u)) /\ (Current(u)' <=> Current(u))
    BY <2>1 DEF Busy, Current, Follows
  <2>3. Between' <=> Between
    BY <2>1 DEF Between, Follows
  <2> QED BY <2>1, <2>2, <2>3 DEF FollowInv
<1>6. ASSUME NEW t \in Snapshots, Restore(t)
      PROVE  FollowInv'
  <2>1. /\ tables' = InEngine(t) /\ found' = [u \in Uids |-> IF t[u] = None THEN found[u] ELSE t[u]]
        /\ settings' = settings /\ pc' = "idle"
    BY <1>6, Zenon DEF Restore, local
  <2>2. \A u \in Uids : tables'[u] = t[u] /\ found'[u] = IF t[u] = None THEN found[u] ELSE t[u]
    BY <2>1 DEF InEngine, Names
  <2>3. \A u \in Uids : Current(u)'
    BY <2>2 DEF Current, Follows
  <2> QED BY <2>1, <2>3, Resting DEF FollowInv
<1> QED BY <1>1, <1>2, <1>3, <1>4, <1>5, <1>6, Zenon DEF Next

\* The best hits are hits, and no best hits remain of an index that holds nothing.
Hits(u, q) ==
  {i \in Live(found[u]) : /\ Looked(u, q) # {} /\ q.text # <<>>
                          /\ IndexMatches(Entry[i][found[u][i]], Words[q], Looked(u, q))}

LEMMA TopHitsAreHits ==
  ASSUME NEW u, NEW q, NEW T \in TopHits(u, q)
  PROVE  T \subseteq Hits(u, q)
<1>1. Live(None) = {}
  BY DEF Live
<1>2. (IF found[u] = None THEN {} ELSE Live(found[u])) = Live(found[u])
  BY <1>1
<1>3. \E k : T \in kSubset(k, Hits(u, q))
  BY <1>2, Zenon DEF TopHits, Hits, Looked
<1> QED BY <1>3 DEF kSubset

\* An index that holds the documents of its table has no more hits than the table has
\* rows, so none is cut off.
LEMMA NoHitIsCutOff ==
  ASSUME NEW u \in Uids, NEW q \in Queries, NEW T \in TopHits(u, q), found[u] \in {None, tables[u]}
  PROVE  T = Hits(u, q)
<1> DEFINE limit == IF Live(tables[u]) = {} THEN 1 ELSE Cardinality(Live(tables[u]))
           all == Hits(u, q)
<1>1. Live(None) = {} /\ Live(found[u]) \subseteq Ids /\ Live(tables[u]) \subseteq Ids
  BY DEF Live
<1>2. (IF found[u] = None THEN {} ELSE Live(found[u])) = Live(found[u])
  BY <1>1
<1>3. T \in kSubset(LeastOf(limit, Cardinality(all)), all)
  BY <1>2, Zenon DEF TopHits, Hits, Looked
<1>4. all \subseteq Live(tables[u]) /\ all \subseteq Ids
  BY <1>1 DEF Hits
<1>5. IsFiniteSet(all) /\ IsFiniteSet(Live(tables[u]))
  BY <1>1, <1>4, IdsAssumption, FS_Subset
<1>6. Cardinality(all) \in Nat /\ limit \in Nat /\ Cardinality(all) <= limit
  <2>1. Cardinality(all) \in Nat /\ Cardinality(Live(tables[u])) \in Nat
    BY <1>5, FS_CardinalityType
  <2>2. Cardinality(all) <= Cardinality(Live(tables[u]))
    BY <1>4, <1>5, FS_Subset
  <2>3. CASE Live(tables[u]) = {}
    <3>1. Cardinality(Live(tables[u])) = 0
      BY <2>3, FS_EmptySet
    <3> QED BY <2>1, <2>2, <2>3, <3>1
  <2> QED BY <2>1, <2>2, <2>3
<1>7. LeastOf(limit, Cardinality(all)) = Cardinality(all)
  BY <1>6 DEF LeastOf
<1>8. T \subseteq all /\ Cardinality(T) = Cardinality(all)
  BY <1>3, <1>7 DEF kSubset
<1> QED BY <1>5, <1>8, FS_Subset

\* A row of a table is a document with a body.
LEMMA LiveBody ==
  ASSUME NEW t, t \in Docs \cup {None, Keyless}, NEW i \in Live(t)
  PROVE  i \in Ids /\ t[i] \in Bodies
BY DEF Live, Docs

\* A word that the text index holds of a field is a word of that field, so a document
\* that the index finds is one that the query fits.
LEMMA IndexHitsFit ==
  ASSUME NEW s \in AllSettings, NEW q \in Queries, NEW i \in Ids, NEW b \in Bodies,
         NEW F, NEW G, F \subseteq G, IndexMatches(Entry[i][b], Words[q], F)
  PROVE  Fits(Fitting[s][q][i][b], G)
<1> DEFINE d == Doc(i, b)
           words == {{f \in DOMAIN d : WordFits(s, word, d[f])} : word \in ToSet(Tokens(q.text))}
<1>1. /\ Entry[i][b] = Indexed(d) /\ Words[q] = ToSet(Tokens(q.text))
      /\ Fitting[s][q][i][b] = FieldsThatFit(d, q.text, s)
  <2>1. Entry[i][b] = Indexed(Doc(i, b))
    BY DEF Entry
  <2>2. Words[q] = ToSet(Tokens(q.text))
    BY DEF Words
  <2>3. Fitting[s][q][i][b] = FieldsThatFit(Doc(i, b), q.text, s)
    BY DEF Fitting
  <2> QED BY <2>1, <2>2, <2>3
<1>2. FieldsThatFit(d, q.text, s).words = words
  BY DEF FieldsThatFit
<1> HIDE DEF d
<1>3. ASSUME NEW word \in ToSet(Tokens(q.text))
      PROVE  {f \in DOMAIN d : WordFits(s, word, d[f])} \cap G # {}
  <2>1. PICK f \in F \cap DOMAIN Indexed(d) : word \in Indexed(d)[f]
    BY <1>1 DEF IndexMatches
  <2>2. f \in DOMAIN d /\ d[f] # Null /\ word \in ToSet(Tokens(d[f].text))
    BY <2>1, Zenon DEF Indexed
  <2>3. \A n : Edits(word, word, n)
    BY Zenon DEF Edits
  <2>4. WordFits(s, word, d[f])
    BY <2>2, <2>3 DEF WordFits
  <2> QED BY <2>1, <2>2, <2>4
<1>4. \A places \in words : places \cap G # {}
  BY <1>3
<1> QED BY <1>1, <1>2, <1>4, Zenon DEF Fits

\* A scan finds the rows that hold every word in the fields it reads, and only rows
\* that the query fits.
LEMMA ScansMean ==
  ASSUME QueriesMean, NEW u \in Uids, NEW q \in Queries, NEW F,
         Known(settings[u]), tables[u] \in Docs
  PROVE  /\ Certain(u, q, Scanned(u, q)) \subseteq Scan(u, q)
         /\ Scan(u, q) \subseteq Possible(u, q, Scanned(u, q) \cup F)
         /\ \A S : Filtered(u, q, S) = S \cap Allowed(u, q)
<1>1. SettingsOf(u) \in AllSettings
  BY DEF SettingsOf, Known, AllSettings
<1>2. \A i \in Live(tables[u]) : i \in Ids /\ tables[u][i] \in Bodies
  BY LiveBody
<1>3. \A i \in Live(tables[u]) : Passing[q.filter][i][tables[u][i]] = Meant[q.filter][i][tables[u][i]]
  BY <1>2 DEF QueriesMean
<1>4. \A S : Filtered(u, q, S) = S \cap Allowed(u, q)
  BY <1>3 DEF Filtered, Allowed
<1>5. Certain(u, q, Scanned(u, q)) \subseteq Scan(u, q)
  <2> SUFFICES ASSUME NEW i \in Certain(u, q, Scanned(u, q))
               PROVE  i \in Scan(u, q)
    OBVIOUS
  <2>1. i \in Allowed(u, q) /\ IndexMatches(Entry[i][tables[u][i]], Words[q], Scanned(u, q))
    BY DEF Certain
  <2>2. i \in Live(tables[u])
    BY <2>1 DEF Allowed
  <2>3. Matching[SettingsOf(u)][q][i][tables[u][i]]
    BY <1>1, <1>2, <2>1, <2>2 DEF QueriesMean, Scanned
  <2>4. i \in Filtered(u, q, Ids)
    BY <1>2, <1>4, <2>1, <2>2
  <2> QED BY <2>3, <2>4 DEF Scan
<1>6. Scan(u, q) \subseteq Possible(u, q, Scanned(u, q) \cup F)
  <2> SUFFICES ASSUME NEW i \in Scan(u, q)
               PROVE  i \in Possible(u, q, Scanned(u, q) \cup F)
    OBVIOUS
  <2>1. i \in Filtered(u, q, Ids) /\ Matching[SettingsOf(u)][q][i][tables[u][i]]
    BY DEF Scan
  <2>2. i \in Allowed(u, q) /\ i \in Live(tables[u])
    BY <1>4, <2>1 DEF Allowed
  <2>3. Fits(Fitting[SettingsOf(u)][q][i][tables[u][i]], Scanned(u, q))
    BY <1>1, <1>2, <2>1, <2>2 DEF QueriesMean, Scanned
  <2>4. Fits(Fitting[SettingsOf(u)][q][i][tables[u][i]], Scanned(u, q) \cup F)
    BY <2>3, Zenon DEF Fits
  <2> QED BY <2>2, <2>4 DEF Possible
<1> QED BY <1>4, <1>5, <1>6

\* A search that its scan completes: what it answers does not depend on the index.
LEMMA CompletedByScan ==
  ASSUME TaskInv, FollowInv, QueriesMean
  PROVE  SearchMissesNothing
<1> SUFFICES ASSUME NEW u \in Uids, Keyed(u), Tolerant(u), NEW q \in Queries, NEW T \in TopHits(u, q)
             PROVE  /\ Certain(u, q, Scanned(u, q)) \subseteq SearchHits(u, q, T)
                    /\ SearchHits(u, q, T) \subseteq Allowed(u, q)
  BY Zenon DEF SearchMissesNothing
<1>1. tables[u] \in Docs /\ Known(settings[u])
  BY DEF Keyed, TaskInv, Shape, Tables, Names, FollowInv
<1>2. /\ Certain(u, q, Scanned(u, q)) \subseteq Scan(u, q)
      /\ \A S : Filtered(u, q, S) = S \cap Allowed(u, q)
  BY <1>1, ScansMean
<1>3. Scan(u, q) \subseteq Allowed(u, q)
  BY <1>2 DEF Scan
<1>4. T # {} => q.text # <<>>
  BY TopHitsAreHits DEF Hits
<1>5. SearchHits(u, q, T) = IF T # {} THEN (T \cap Allowed(u, q)) \cup (Scan(u, q) \ T) ELSE Scan(u, q)
  BY <1>2, <1>4 DEF SearchHits
<1> QED BY <1>2, <1>3, <1>5

\* Between requests an index that is not behind answers with the rows as they are.
LEMMA CurrentAnswers ==
  ASSUME TaskInv, FollowInv, QueriesMean
  PROVE  SearchTruth
<1> DEFINE least(u, q) ==
             Certain(u, q, IF found[u] = None THEN Scanned(u, q) ELSE Scanned(u, q) \cap Looked(u, q))
           most(u, q) == Possible(u, q, Scanned(u, q) \cup Looked(u, q))
<1> SUFFICES ASSUME pc = "idle", NEW u \in Uids \ behind, Keyed(u), NEW q \in Queries,
                    NEW T \in TopHits(u, q), NEW hits \in {SearchHits(u, q, T), ListHits(u, q, T)}
             PROVE  least(u, q) \subseteq hits /\ hits \subseteq most(u, q)
  BY Zenon DEF SearchTruth
<1>1. tables[u] \in Docs /\ Known(settings[u]) /\ found[u] \in {None, tables[u]}
  BY DEF Keyed, TaskInv, Shape, Tables, Names, FollowInv, Busy, Current, Follows
<1>2. /\ Certain(u, q, Scanned(u, q)) \subseteq Scan(u, q)
      /\ Scan(u, q) \subseteq most(u, q)
      /\ \A S : Filtered(u, q, S) = S \cap Allowed(u, q)
  BY <1>1, ScansMean
<1>3. T = Hits(u, q)
  BY <1>1, NoHitIsCutOff
<1>4. least(u, q) \subseteq Certain(u, q, Scanned(u, q))
  BY DEF Certain, IndexMatches
<1>5. SettingsOf(u) \in AllSettings
  BY <1>1 DEF SettingsOf, Known, AllSettings
<1>6. CASE T = {}
  <2>1. hits = Scan(u, q)
    BY <1>6 DEF SearchHits, ListHits
  <2> QED BY <1>2, <1>4, <2>1
<1>7. CASE T # {}
  <2>1. T \cap Allowed(u, q) \subseteq hits /\ hits \subseteq (T \cap Allowed(u, q)) \cup Scan(u, q)
    BY <1>2, <1>7 DEF SearchHits, ListHits
  <2>2. Live(None) = {}
    BY DEF Live
  <2>3. found[u] = tables[u] /\ q.text # <<>> /\ Looked(u, q) # {} /\ found[u] # None
    BY <1>1, <1>3, <1>7, <2>2, AbsenceAssumption DEF Hits
  <2>4. least(u, q) \subseteq T \cap Allowed(u, q)
    <3> SUFFICES ASSUME NEW i \in least(u, q)
                 PROVE  i \in T \cap Allowed(u, q)
      OBVIOUS
    <3>1. i \in Allowed(u, q) /\ IndexMatches(Entry[i][tables[u][i]], Words[q], Scanned(u, q) \cap Looked(u, q))
      BY <2>3 DEF Certain
    <3>2. i \in Live(tables[u])
      BY <3>1 DEF Allowed
    <3>3. IndexMatches(Entry[i][tables[u][i]], Words[q], Looked(u, q))
      BY <3>1 DEF IndexMatches
    <3> QED BY <1>3, <2>3, <3>1, <3>2, <3>3 DEF Hits
  <2>5. T \cap Allowed(u, q) \subseteq most(u, q)
    <3> SUFFICES ASSUME NEW i \in T, i \in Allowed(u, q)
                 PROVE  i \in most(u, q)
      OBVIOUS
    <3>1. i \in Live(tables[u]) /\ IndexMatches(Entry[i][tables[u][i]], Words[q], Looked(u, q))
      BY <1>3, <2>3 DEF Hits
    <3>2. i \in Ids /\ tables[u][i] \in Bodies
      BY <1>1, <3>1, LiveBody
    <3>3. Fits(Fitting[SettingsOf(u)][q][i][tables[u][i]], Scanned(u, q) \cup Looked(u, q))
      BY <1>5, <3>1, <3>2, IndexHitsFit
    <3> QED BY <3>3 DEF Possible
  <2> QED BY <1>2, <2>1, <2>4, <2>5
<1> QED BY <1>6, <1>7

\* No index holds documents at the start.
LEMMA FollowStart ==
  ASSUME Init
  PROVE  FollowInv
<1>1. /\ found = [u \in Uids |-> None] /\ settings = [u \in Uids |-> None] /\ pc = "idle"
  BY Zenon DEF Init
<1> QED BY <1>1 DEF FollowInv, Known, Current, Follows

\* The answers of searches and document listings, between requests, are the rows of
\* the table as it is, for every index whose table only this server has changed since
\* its last rebuild (do_search_documents_result, do_list_documents).
THEOREM SearchTruthHolds ==
  ASSUME FiltersMean, NoneIsAtomic, QueriesMean, SettingsClosed
  PROVE  Spec => []SearchTruth
<1>1. Init => TaskInv /\ FollowInv
  BY TaskInvStart, FollowStart
<1>2. TaskInv /\ FollowInv /\ [Next]_vars => (TaskInv /\ FollowInv)'
  BY TaskInvStep, FollowStep
<1>3. TaskInv /\ FollowInv => SearchTruth
  BY CurrentAnswers
<1> QED BY <1>1, <1>2, <1>3, PTL DEF Spec

\* With typo tolerance or synonyms a search misses no row, at any moment of any request
\* and however far the text index is behind (do_search_documents_result).
THEOREM SearchMissesNothingHolds ==
  ASSUME FiltersMean, NoneIsAtomic, QueriesMean, SettingsClosed
  PROVE  Spec => []SearchMissesNothing
<1>1. Init => TaskInv /\ FollowInv
  BY TaskInvStart, FollowStart
<1>2. TaskInv /\ FollowInv /\ [Next]_vars => (TaskInv /\ FollowInv)'
  BY TaskInvStep, FollowStep
<1>3. TaskInv /\ FollowInv => SearchMissesNothing
  BY CompletedByScan
<1> QED BY <1>1, <1>2, <1>3, PTL DEF Spec
=============================================================================
