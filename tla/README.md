# Trovex: a verification development in TLA+

Trovex keeps one SQLite database of a team's documents, indexed from files and
written by agents, and answers "which document is the right one for this?".
This directory models the parts of it where that answer can go wrong without
anything crashing visibly: the queue that serialises indexing, the writes of
owned documents and what becomes of them later, the rule that a topic has one
canonical document, the incremental passes that keep the index in step with
the files, the connector jobs that feed and prune it, the vector tables a
search runs on, what a search and its rerankers return, the tools agents call,
the links between documents, the migrations every start walks through, and the
services beside the requests: pools, watchdog, write-ahead log, query log and
file watcher.

Paths are relative to the repository; line numbers are those of the commit the
modules were read from. `PROJECT.json` gives the lines of every definition.

## 1. Inventory of the system

| Part | State it keeps | Operations | Interacts with | Hard behaviour | Correct when | Here |
|---|---|---|---|---|---|---|
| Reindex op-log and Applier (`index_jobs.py`, `server.py` reindex routes) | table `index_jobs`; one connection shared with the running job; `index_jobs_lock` | `enqueue`, claim, complete/rerun, crash recovery, `get_job` | request threads, Applier thread, indexer | two users of one transaction; crash between claim and completion; flag arriving as a pass ends | an acknowledged request is served by a run that starts after it; one live row per key; the Applier survives bad jobs | `IndexJobs`, `ReindexIntents`, `IndexJobsProofs` |
| Canonical topics, SSOT (`store.py` put/delete/set_lifecycle/sweep_bloat, `status.py`) | `docs.status`, `canonical_topic`, `lifecycle`; partial unique index | put with or without force, delete, retire, sweep, `compute_status` | store threads (one lock per store object), status pass on another connection, other processes | read in autocommit, acted on later; passes in several transactions beside live writes; reused rowids | exactly one live canonical per topic; a retired doc stays retired; nothing live is swept | `CanonicalDocs`, `CanonicalDocsProofs` |
| Store write path (`store.py` `_retry_on_locked`, put, delete, versions, tombstones) | docs, chunks, FTS, vectors, versions, tombstones; one connection and one lock per store | put, delete, retry on SQLITE_BUSY, rollback | threads of the server's pool, other processes | rollback outside the lock; snapshot outside the transaction; retry of a half-made write | a write is whole or absent; an acknowledged one is stored; what it replaced is recoverable | `StoreWrites`, `OwnedDocs`, `StoreWritesProofs` |
| Retention, lifecycle, restore (`store.py`, `retention.py`) | lifecycle and since when, pins, tombstones and versions with caps | put, import, archive, pin, tag, delete, restore, both sweeps | scheduled sweeps, MCP tools, status passes | reads of one hold of the lock used in another; ids used again; ages that do not restart | what was last written is live, a version or a tombstone; a written doc is not evicted | `DocLifecycle`, `DocLifecycleProofs` |
| Indexer (`indexer.py`, `db.py` blob resolution) | docs rows with mtime and hash, vectors, status, code edges | `reindex` (incremental or full), `reindex_paths` | Applier, file system, embedder | fast paths over state left by a pass that failed; files read more than once per pass | after a pass, the rows, vectors, status, citations and duplicate marks are those of the files | `Reindex`, `ServingProofs` |
| File watcher (`watch.py`, `cli.py` watch) | pending paths, one armed timer, two locks | notify, timer, flush, stop | observer thread, timer threads, indexer | a timer that fired cannot be cancelled; flushes overlap; stop beside a flush | every edit seen is on its way to the index; no older reading is stored over a newer | `Watch`, `ServingProofs` |
| Connector sync (`sync.py`, `connectors/`) | cursor, failures, lifecycle of source docs | `sync_source`, `gc_source`, sinks | connector, store, Applier | cursor and sink fail independently; grace window; safety ratio | no item skipped for ever; nothing deleted before its grace ends, and deleted then | `SyncSource`, `SyncSourceProofs` |
| Vector rebuild (`db.py` `rebuild_vec_shadow`) | shadow vec tables, signature | stage, swap, resume | Applier, store writes | swap of a snapshot taken long before | every doc has the vectors of the new model after the swap, and the stamp does not lie | `VecTables`, `VecTablesProofs` |
| Vector metadata (`db.py` sync, `store.py` reconcile) | status, lifecycle, kind copied into vec0 | sync on write, drift check, batched reconcile | all writers | a copy every writer must bring along | a filter on the copy hides no visible doc | `VecTables` |
| Schema and migrations (`db.py` `open_db`) | tables, columns, indexes, vec layouts, the model's stamp | some twenty check-then-act steps | every process that starts | death between two statements; two walks at once; another model or dimension at each start | no row is lost; an open store is complete; an interrupted walk can be resumed | `Migrations` |
| Search and ranking (`search.py`, `store.py` search_chunks, `rerank*.py`), boot packs and budgets (`boot.py`, `budget.py`) | none | KNN per shard, keyword side, fusion, rerank, fit | vector tables, models | filters around a bounded KNN; merges of shards; any output of a reranking model | what may be seen is found, ranked by what both signals say, once, within the budget | `Retrieval`, `ServingProofs` |
| Links (`links_parse.py`, `implicit_refs.py`, as_of in `store.py`) | `doc_refs` | bind on write, re-bind, dangle on delete, infer, walk back in time | `put` and the indexer (not `put_batch`) | an edge bound once is not looked at again | a named link binds to the doc it names | `Links`, `ServingProofs` |
| MCP tools and their cache (`mcp_app.py`, `cache.py`) | table `query_cache` | ask, write whole or by section, restore, tag, archive, delete | threads of the pool, store, indexer | calls that read, then write; a cache versioned by a count and a maximum | a cached answer is fresh; a section write spares the rest; near-copies are flagged by the check of a write | `Tools`, `ToolsProofs` |
| Offload pools and watchdog (`offload.py`, `server.py` boot route) | two bounded pools, the registry of calls in flight | run with a deadline, shed, restart | every HTTP and MCP handler, event loop | a late answer of a call already given up; hung workers; load shedding | a wedged pool is noticed and restarted, and no other | `Offload`, `ServingProofs` |
| WAL checkpoints (`db.py`) | the log's size, a backoff | backstop after a commit, tick with TRUNCATE | every connection | readers pinning the log; the tick holds the store's connection | the log shrinks once the store is quiet | `WalCheckpoint` |
| Query log (`usage.py`) | a bounded queue, a writer thread and its connection | log, batch, drop, stop | boot route, indexer | errors between two inserts; the writer's death | logging holds no write lock | `QueryLog` |
| Table of sources, chunking, embedder, configuration, setup, update, backup, savings, insights, evaluation | rows, files or none | edits by request, pure functions, reports | - | data, not control | - | not modelled, see section 7 |
| Command line, HTTP routes, graph view | none of their own | dispatch to the parts above | - | - | - | as the callers of the models' operations |
| SQLite, vector extension, watchdog's Observer, file system | external | - | - | failure, BUSY, autocommit, rowid reuse | - | inside the models, as nondeterminism |

## 2. What SQLite does in these models

The modules about the store have the same three facts about SQLite in them, because most of the hard
cases come from them:

* a connection is in autocommit until its first writing statement; what a
  SELECT returned before it may be outdated when that statement runs;
* one connection has one transaction, whoever's thread issued the statements:
  `commit()` and `rollback()` act on all of it;
* one writer at a time per database; another connection waits `busy_timeout`
  and then raises.

`committed` is the database on disk and `view` what the shared connection
sees; `inTxn` is Python's `in_transaction`. A commit copies `view` to
`committed`, a rollback or a crash the other way. Transactions that run on a
connection of their own are a single step.

## 3. Modules

### IndexJobs, ReindexIntents (op-log)

`committed`/`view` are the `index_jobs` table; a row's number is its id and its
seq (rows are never deleted). `caller[c]` is a request thread inside
`enqueue()`, `applier` the Applier thread, with the job and payload it holds in
memory.

* `EnqueueBegin` .. `EnqueueReply` are the steps of `enqueue()`
  (index_jobs.py:61-134): BEGIN IMMEDIATE, one of the three coalescing cases
  (`MatchQueued`/`MergeIntoQueued`, `FlagRerun`, `InsertRow`), commit.
  `EnqueueRejected` and `EnqueueAborts` are its error paths.
* `Start` is construction plus crash recovery, `Claim`, `Write`/`CommitBatch`
  (the job's own transactions on the shared connection), `Return`/`Raise`,
  `Rerun`/`Finish` are `_loop` and `_run_job`; `ApplierDies` is an exception
  that leaves `_loop`; `Crash` also stands for `stop()` in the middle of a job,
  which the daemon thread does not outlive.
* A job may raise in three ways (`FailureModes`): with nothing open, after a
  rollback (`_rollback_on_error`, indexer.py:123), or with its transaction left
  open.

`ReindexIntents` is the abstract promise: a set of owed (key, item) pairs and a
run. Nothing is taken from the set but by a run, and an interrupted run gives
it back. `PromiseKept` is the refinement.

Abstracted: the HTTP server only enqueues `scan_source`, `rebuild` and
`rebuild_vec`, whose request is the row's key; the 'paths' kind is the
primitive with union of payloads, not wired into serve yet (index_jobs.py:20-27)
and modelled as the code has it. `full` is determined by the kind. `get_job`
and `_position` read only.

### CanonicalDocs (one canonical per topic)

`docs` are the rows with a topic, by rowid, with status, lifecycle and mtime;
`thread[t]` what a store thread read before its transaction; `pass` the status
pass and its snapshots. A put is `PutCheck` (lookup and collision check,
in autocommit), or `PutRefused`, then `PutWrite` (one transaction) or
`PutFails` (the unique index raises), the duplicate flagging (`PutFlag...`) and
`PutReturn`. `Sweep` snapshots ids and deletes and ages them in later
transactions. The pass is `PassCollisions`, `PassReset`, `PassScan`/`PassMark`
(Pass 1), `PassDrivers`, `PassPair`, `PassFlag`/`PassSkip` (Pass 2), `PassEnd`.
Which docs are similar is left open.

The separation of read and write in the pass is real where it runs beside
writers: `trovex status` (cli.py:1037-1043) and `gc_source` (sync.py:204-209);
in the incremental mode a pass touches no doc with a topic. Left out: status
`plan` and ephemeral kinds (they have no topic), `put_batch`, the vectors
(`VecTables`), `dup_of_id`, the owner-fork collapse, `sweep_retention`, and
crashes in the middle of a pass (`Reindex` has them). `delete()`'s lookup and
its transaction are one step.

### StoreWrites, OwnedDocs (the write path)

One put is `PutCall`, `PutBegin`, `SnapshotRead`, `SnapshotWrite`, `UpdateRow` or
`InsertRow`, `IndexRow`, `PutCommit`, and, still in the lock, the duplicate check with
a transaction of its own: `Unmarked`, or `MarkDuplicate` and `MarkCommit`, or
`MarkSwallowed` when it raises after its UPDATE, which put() swallows with no
rollback (store.py:437-443; `stranded` remembers the transaction). One that changed
nothing ends with `Commit` after `UpdateRow`. A delete is `DeleteCall`, `DeleteBegin`,
`Bury` or `NothingToBury`, `Cascade`, `Commit`. A step is one statement, or a group of
statements that only this transaction can see. `Raise`, then `Rollback` is
`_retry_on_locked` (store.py:85-125), whose rollback comes after `with self._lock` was
left; `BadArgument` is a decorated call that raises before it takes the lock.
`ForeignPut` is another process. `OwnedDocs` is the abstract store: every write keeps
what it replaced as a version or as a tombstone. Left out: the status a mark sets
(it changes no text, so the connection's `view` is the same with it and without
it), `put_batch`, `restore_deleted`, the caps on versions and tombstones (config.py:96,
102), chunk rows as such (a doc's `index` is the body they are of).

### Reindex (incremental indexing)

`files` is the file system, a doc's `hash`, `vec`, `rated` say which
content the row, its vector and the status its own text gives it are of, `cvec` which
content the vectors of its chunks are of. `graph` is what one doc owes to others:
the code citations, those whose target was deleted (`lost`), and the duplicate
marks. Which texts cite which files (`Cites`), are near-duplicates (`Near`, a
symmetric relation and no equivalence) or say stale (`Withdrawn`) is given by
constants. A scan is
`Begin`, per file `Miss` or `Stat` and `Read`, `RemoveVanished`,
`FlushBegin`/`Flush` (embedding blobs), `SyncCodeGraph` (citations of the docs the
pass touched, of files that are docs by then), `ResetStatus`, `Rate` (Pass 1),
`Pair` for each driver (Pass 2: the older of a driver and its nearest neighbour is marked) and
`EndPass`; a watcher's pass is `BeginPaths`, `Prune`, `ReadFirst`, `StatAfter` and
the same end. `EditFile` is anybody's edit. `disturbed` remembers the kinds of
pass a file was edited in the middle of, and whether a watcher's pass rated a
doc by a text that is not its own (`Misrated`). `CommitProgress` is the batch commit, `EmbedFails` and `Crash` end a
pass at any step. Left out: more than one source (rows of others are not
touched), a missing source root (then nothing is removed), a flush between a
row and its chunk rows inside `_upsert_doc` (they count as written together),
plan documents and the age rule (the status of a text is stale or not), drift, symbol,
ticket and commit references, the order of drivers and which neighbour is nearest (any),
what the window k = 20 of the duplicate search squeezes out (`Crowded`: any search may come
back empty, or none does), inferred edges, edits that preserve the mtime (a gap the code documents,
indexer.py:325-327). Passes do not overlap: one Applier runs them.

### SyncSource (connector jobs)

`files` have a content and an mtime of a `clock` that need not move between two
edits; `docs` are the source's docs with lifecycle, `journal` is the cursor and
the failed ids of the last good run, `job` what the job under way holds in
memory. A sync is `SyncBegin`, `Replay` (ids that failed last time),
`WalkBegin`/`Walk` (the tree, file by file), `Poll` (fresh files, oldest first),
`Flush` (the sink, which reads each file again through `reindex_paths`) and
`SyncDone`; `SyncFails` and `ReplayFails` are a sink that raises, under `poll()`
and under a replay, where `take()` counts it as the record's failure. A
collection is `GcBegin` (docs first), `List`, `GcDecide` or `GcAbort` (the safety
ratio), `GcItem` per doc and `GcDone`. A collection acts on the ids it read in
`GcBegin`, with the lifecycle it read there (`hidden`, `due`). `OtherIndexes` is
another process (`trovex watch`) on the same source; a row it deletes frees its
id, which a row it inserts later may get (`FreeIds`, `job.heir`), and `GcItem`
then does to the new doc what it would have done to the old one. `GraceEnds` is
the grace window, `Crash` the end of the process. Left out: docs of other
sources, to which a freed id may go as well, remote connectors and their
tombstones (the repository has the filesystem one), a missing root, and what
else a run journals.

### VecTables (vectors and their filters)

`docs` are owned docs with a text, what the filters see of them (`meta`: status
and lifecycle) and whether their kind is store-only; `vecDocs` and `vecChunks`
the two vector tables, a row being a copy of text, filters and model; `stamp`
is `store_meta['embed_model']`. `PutNew`, `Put` (the `content_unchanged` path
`Rewritten` and the other one, `Replaced`, in which `sync_doc_chunks()` keeps the
chunk row whose text is there), `SetMeta`, `Delete` are the store's
transactions. `Mark` .. `ReconDone` are a status pass or sweep: a bulk update,
the SELECT of mismatches (`ReconSelect`) and `vec_sync_meta()` per doc, whose
read is in autocommit for the first doc of a transaction (`ReconRead`,
`ReconWrite`). `RebuildDocs`, `RebuildChunks`, `Swap`, `RebuildDone`,
`RebuildRaises` are `rebuild_vec_shadow()` as a job, `Restart` recovery and the
start-up check. Left out: file-backed docs, read at their batch in the
rebuild; the static shadow tables; the usearch index; the owner column; more
than one chunk per doc. A rebuild and a status pass inside one process exclude
each other at the Applier, so the pass is one of another process or
connection.

### Migrations (opening the store)

`db` is the store on disk: tables, columns, the layout and dimension of each
vector table, whether the unique index is there, which rows have what. `pc[p]`
is the step of `open_db` a process is at, `due[p]` the statements its step still
has to run. `Decides` reads the schema as each migration does and queues its
statements, `Runs` runs one: what `executescript` and an ALTER commit one by
one are several steps, what stands in BEGIN IMMEDIATE is one; the schema script of
`_init_schema` is one step too, although SQLite commits its CREATEs one by one: each
is IF NOT EXISTS, so a script cut short is run again whole by the next start.
`Refused` is a statement that raises, `Killed` the death of a process, `Write` and `Rebuild` what an open store
is used for, `Open` a start with any of the configurations. A column stands for
the migration that adds it. The stores a walk may start from (`Generations`) need
only be databases (`IsStore`: no column without its table, no index without its
column). A release that was killed may have left them in any state, and what it
left is latched from the start, as what a kill leaves later is: in `torn` the steps
done by half that no migration makes up for (`LeftTorn`: a copy of docs left over, a
topic column without its rule, a static pair of two dimensions, a docs_fts that misses
docs), in `uneven` two vector tables that the walk would not make a pair
(`Matched`), such as those of a process killed between two DROPs by a release from before the
BEGIN IMMEDIATE (db.py:1128-1143). The names `MigrationsInit`,
`MigrationsNext`, `MigrationsSpec` leave the short ones to `StoreWrites`, with which
the module shares its proofs. Left out: the usearch index, the tables only reports
read.

### DocLifecycle (after the write)

`docs` are owned docs with id, body, status, lifecycle and the day it changed,
pin, owners, versions; `tombs` the tombstones, oldest first. One hold of the
store's lock is one step (`StoreWrites` has the inside of one): `Client` is put,
`put_batch`, lifecycle, pin, tag and delete; `RestoreRead`, `RestorePut`,
`RestoreClear` are `restore_deleted` and `restore_version` with what they read;
`Sweep` is `sweep_bloat` in its phases and batches, `SweepRetention` the chain
archived, pending, deleted; `Tick` a day, `Rated` a status pass, `Crash` a
restart. `disturbed` remembers a client's write, or a second sweep, beside a sweep. An import is taken to hold its topic, where `put_batch` leaves `canonical_topic`
NULL until the next put; no property is about topics. Left out: the score that orders victims, collections.

### Tools (what agents call)

`call[t]` is a call on a pool thread with what it resolved, read or probed.
`WriteCall`, `WriteSection`/`WriteWhole`, `Probe`, `Put`, `Mark` are `trovex_write`:
`put()` refuses a topic another canonical has (or, forced, supersedes that one)
and commits, then `Mark` looks for a near-copy under the same hold of the lock
and commits again. Nearness is a constant relation, symmetric and not
transitive, as a threshold on distances is; a check may fail or see none of the
copies, and flags one of them only. `unchecked` remembers the docs whose check is
due, failed, or found several. `Query`, `Lookup`, `Search`, `StoreAnswer` are
`trovex` with its cache; `Restore` reads and leads to the same `Put`; `Tag`,
`Archive`, `Delete` are one step each; `IndexFile` is the indexer, `Lapse` the
TTL, `Crash` a restart. A retry after "tool_timeout" is a second thread with
the same arguments. Ids are sequences and a short id any prefix. The leading
section stands for the title and so for the topic. Left out: the
listings, collections, graph tools, and the ranking (in `Retrieval`).

### Retrieval (what a search returns)

A behaviour picks a corpus (a profile per doc, keyword hits, rowids, sources
with an HNSW index), asks once and may rerank. Rows, docs for `trovex` and chunks
for `trovex_search`, are numbered by their distance from the question; a doc of
several chunks is several rows of one profile. What the KNN filters is its pool
(`KnnPool`, `ChunkPool`); tags that are no column, and replaced docs, are dropped
from the `Window`, or the `MaxK` for tags, it returns. `VectorRows` is `_vector_rows` (KNN per partition,
`OwnerFallback`, `Hnsw`, `Merged`), `Search` and `SearchChunks` the two fusions,
`DenseSearch`, `BootPack` and `StaticPack` the boot packs, `Reranks`, `Picked`,
`Reordered` the rerankers for any index list a model may return, `FitBudget` the
budget with its bisection and upgrades. A list ordered by a key is `Arranged`, which
puts each element at one more than the number of elements before it; `sort`
in the code is stable, so the order given to it is total. The bisection and the
upgrades are functions of the number of turns. Left out: age and importance in a
score, the kind filter, a stale HNSW index, the text of an answer.

### Links (edges between docs)

`edges` keep what was written and the doc it is bound to. `WriteDoc` replaces
the doc's edges and re-binds the dangling edges whose key is one of its names,
`DeleteDoc` makes edges dangle, `Infer` is the mentions of a status pass;
`AsOf` walks a version history. `spoiled` remembers base names that two docs
had at once, names that found another doc by its title, and deleted docs. Left out: `put_batch`,
which syncs no links, its doc's or those waiting for it (store.py:1121-1214), parsing, similarity edges, the graph view.

### Offload, WalCheckpoint, QueryLog, Watch (services)

* `Offload`: `call[c]` is a request with its stage, age and where it hangs.
  `AdmitBoot`/`ShedBoot` are the boot route's test, `Submit`, `Start`, `Finish`,
  `Expire` the life of a call: a deadline ends the wait and not the work.
  `SelfHeal` is the watchdog's exit, `Restart` launchd.
* `WalCheckpoint`: `Want`, `Begin`, `Commit`, `Rollback`, `Backstop` are two
  writers (store and indexer), `ReadStart`/`ReadEnd` readers, `Tick...` the
  periodic tick from its PASSIVE to the end of its TRUNCATE. SQLite's part is
  marked external.
* `QueryLog`: `Enqueue` puts or drops, `WriterSteps` takes a batch, inserts and
  commits, drops it or ends; `LogDirect`, `CommitDirect`, `FailDirect`,
  `MissDirect` are what is logged on the served connection, by a boot where no
  writer runs and by the tools (`log_query`, `mark_result_used`) always;
  `OtherWrite` any other write there, `Reindex...` the other writer of the
  database.
* `Watch`: `InitialIndex`, `StartObserver`, `Notify`, `Fire`, `Take`, `ReadBatch`,
  `StoreBatch`/`FailBatch`, `Stop`, `LastFlush`, `Exit`. Timers are threads; one
  that fired is past cancelling. What happens inside a pass is in `Reindex`.

## 4. Runs

All runs pass. Their bounds and why these suffice:

* `jobs_safety` - 2 callers, a coalescing kind and the 'paths' kind with 2
  paths, 3 rows, 1 crash, jobs raising in all three ways, a foreign writer.
  Three rows are one processing, one queued and one ended or of the other key;
  two callers are what it takes for a flag to be merged or to race with a
  completion. Shows one live row per key, that a crash replays exactly the run
  it interrupted, that no ended row carries a flag, and the refinement of
  `ReindexIntents`. A 202 means the intent is on disk, but for the request whose
  own write a failed pass rolled back between its INSERT and its commit.
* `jobs_live` - jobs that raise cleanly or roll the shared connection back, 2
  rows. Under fairness the queue drains once callers are quiet.
* `topics` - 2 threads of one store, 3 docs, 2 topics, 3 writes, a status pass
  beside them. Three docs are a prior canonical, its challenger and a
  bystander; the third id makes rowid reuse possible.
* `writes` - 2 threads on one doc with 3 bodies, failures, retries, a foreign
  writer, crashes, and the refinement of `OwnedDocs`. One contended doc is the
  hard case, since rows of different docs only meet in the shared transaction,
  which the half-applied property sees with one doc as well.
* `index` - 2 files that say the same, near-duplicates of which one cites the other and
  one itself, a second content that is stale, 2 edits, one failure, scans (incremental and
  full) and watcher passes. Two edits are what it takes to remove a cited file
  and put it back, or to change one in the middle of a pass and revert; the findings take three. One
  hazard takes more: a watcher's pass that rates a doc by an edit it does not index
  (section 6). The theorems cover it; the state space is too large for this run.
* `sync` - 2 files, batches of 1, a safety ratio of one half, another process, 2
  edits, one failure. With two docs one half is the ratio that can be
  met and missed; a batch of 1 makes each record flush, so that a batch can fail
  in the middle of a replay or a poll; two edits are a file removed and put
  back, or written twice in one tick.
* `vectors` - 2 docs, 3 writes, one failure or restart, models of one dimension
  (else puts raise until the swap, which is a subset of the behaviours).
  Three writes are what it takes to make a doc store-only and back beside
  one that a pass marks, or to change a doc, have it staged and change it
  back.
* `migrations` - six stores (none, one before the chunks and the sources, one with two
  canonicals of one title, one of the last generation, one killed with vec_docs
  dropped, and that one opened since by the release that partitioned the vectors), 2 processes, 3
  openings, 1 crash, three configurations (another model, another dimension with
  static vectors). Three openings are one that crashes, one that finds what it
  left, and one beside it.
* `lifecycle` - 1 thread beside the sweeps, 2 docs of one topic, 2 bodies, owners
  `dev`, `dev-1`, `dev-2`, caps of 1, 2 client calls, 3 days with thresholds of
  0, so that each stage of the chain takes a day; two calls are a write and
  what interferes with it.
* `tools` - 2 threads, 2 ids with a common prefix and that prefix as an id an agent
  may choose, bodies of 2 sections with 3 texts, of which the second is near the
  first and the third and these are not near each other, one cache row, 3 calls:
  one makes the state and two cross, or three make three docs, the least with two
  copies of one. The findings use 4 calls.
* `retrieval` - 4 docs of 5 profiles, limit 2, 3 candidates for the reranker, a
  window of 3 that is also the largest, two floors: more visible docs than the limit, fewer than the
  window, and hidden ones among them. 4 pages in 3 sources with 4 writes, one
  titled like another's file: written, linked, deleted, written again. Every history of 4 versions at 3 times.
* `serving` - 3 calls, 2 recall workers and 1 heavy one, hangs; 2 readers, 3
  frames; 4 rows of which one cannot be stored, a queue and batches of 2; 2
  files, 2 timer threads, 3 versions. One more call than workers is what it takes to
  queue; two timers are two flushes at once.

`retrieval` and `serving` check several modules that share no state, one `part`
per behaviour: the state spaces add up and do not multiply. Some properties
name several at once where they are one question with one instance:
`TopicsHoldSerially`, `WritesAreWhole`, `PassKeepsTheIndex`, `JobsKeepTheDocs`,
`SyncSettles`; each conjunct is defined and commented by itself, with the type invariant
first.

Properties whose name ends in `Serially`, `Uncrossed`, `Unfailed`, `Undisturbed`,
`Settled`, `Checked`, `Unrefused`, `Unchanged`, `UnlessQuiet`, `UnlessUndone`, `Undoubled` or `Alone`, and
`CompletedPassIndexes`, `CompletedPassDerives` and `GcSparesOthers`, which name
theirs, hold until a named disturbance, which a history variable (`overlapped`, `crossed`,
`interposed`, `disturbed`, `edited`, `written`, `faults`, `quiet`, `doubled`,
`overlap`, `torn`, `uneven`, `spoiled`, `unchecked`) latches: a status pass beside a store operation, a lock taken while
a rollback is due, a file edited in the middle of a pass or behind the cursor, a doc rated by a
text that is not its own,
a failed pass, a rollback between a request's write and its commit (`pc = "undone"`), a duplicate check that is due, failed or found several copies, a doc that got the id of a deleted one, a doc written since a rebuild read it, a change that left the
corpus version as it was or took it back to a former value, two restores at once,
two sweeps at once, two processes opening at once, a migration left half done, vector tables found unlike, a name of two docs. The same
properties without the condition are what comments of the code promise, and
section 5 says how they fail. Together the two say precisely when the code keeps
the promise.

CHECK_DEADLOCK is off: the bounds stop every instance, and a system without
requests, edits or crashes may rest.

### Fairness

* `IndexJobs`: weak fairness of each step of a request inside `enqueue()`, of
  recovery, claim, the end of a job and its completion. The loop polls every
  `POLL_INTERVAL_SEC`, a wake-up is only an optimisation; the supervisor
  restarts a crashed process; a job ends. No caller has to call, no job has to
  raise. `QueueDrains` supposes that callers become quiet: a row flagged in
  each of its passes is rerun before any other is claimed, so an endless
  stream of requests for one key starves the others.
* `Reindex`: weak fairness of the steps of a pass. That scans go on being
  asked for is a premise of `Converges` and no fairness: nothing in the
  program schedules them.
* `SyncSource`: weak fairness of a job's steps (the Applier's thread runs on) and
  of `GraceEnds` (time passes). That syncs or collections are asked for
  again is a premise, as above.
* `Offload` (in `MCServing`): time passes, a running event loop runs its
  callbacks and the watchdog's poll, launchd restarts what exits. No call has to
  return.
* `WalCheckpoint`: the tick comes, and one that has begun ends. That the store is
  left alone some day is the premise of `WalShrinks`.
* `QueryLog`: the writer thread and the callers that log by themselves go on; a
  reindex that finds the lock free for good takes it. Nobody has to write on the
  served connection: what a failed log of a tool left open there is what
  `ReindexGetsTheLock` excepts.
* The other modules have safety properties only and assume none.

## 5. Findings

Statements of comments and docstrings that an interleaving, a failure or a crash breaks. None
is among the runs: each is checked with the configuration named here, after
all of its INVARIANT and PROPERTY lines but one are taken out
(`tlc -config MCX_findings.cfg MCX`; `tlc -config VecTables_findings.cfg VecTables`
and the same for `SyncSource`, which need no MC module). `PROJECT.json` quotes each statement with
its line.

| Configuration | Property | In short |
|---|---|---|
| `MCIndexJobs_findings` | `AcceptedIsOwed` | a failed pass's rollback takes a request's uncommitted row with it; the request answers 202 |
| `MCIndexJobs_findings` | `NoBareRejection` | a request raises while the job has a transaction open |
| `MCIndexJobs_findings` | `BadJobNeverKillsApplier` | a job that raises with its transaction open ends the Applier thread |
| `MCIndexJobs_findings` | `FailedPassNotForgotten` | a flagged pass that raised is rerun without its own paths |
| `MCCanonicalDocs_findings` | `NoRawIntegrityError` | a pass promotes a peer between a put's check and its insert |
| `MCCanonicalDocs_findings` | `PassNeverRaises` | a put adds a peer between a pass's check and its update |
| `MCCanonicalDocs_findings` | `SupersededStays` | a pass writes by id over a doc superseded since it read |
| `MCCanonicalDocs_findings` | `SwapLeavesACanonical` | a forced put supersedes the canonical and leaves none |
| `MCCanonicalDocs_findings` | `SweepDeletesOnlySuperseded` | a sweep deletes a live doc that reuses a rowid |
| `MCCanonicalDocs_findings` | `WriteResurrects` | rewriting a superseded doc leaves it superseded: the next sweep deletes it |
| `MCStoreWrites_findings` | `NoStrandedTxn` | a duplicate check that raised after its UPDATE leaves its transaction open after the put answered |
| `MCStoreWrites_findings` | `NeverHalfApplied` | another thread commits a failed put before its rollback |
| `MCStoreWrites_findings` | `AcknowledgedIsStored` | a foreign rollback removes another thread's put, which is acknowledged |
| `MCStoreWrites_findings` | `NonClobber` | another process's write is overwritten and is no version |
| `MCReindex_findings` | `CompletedPassEmbeds` | rows are committed before they are embedded; the next pass's fast path skips them |
| `MCReindex_findings` | `CompletedPassRates` | docs of a failed pass are not rated again |
| `MCReindex_findings` | `CompletedPassCites` | a citation of a file that becomes a doc later gets no edge |
| `MCReindex_findings` | `CompletedPassPairs` | a doc stays marked as a duplicate of one that was rewritten |
| `MCReindex_findings` | `CompletedPassReads` | an mtime newer than the content it is stored with |
| `MCReindex_findings` | `StatusKept` | a crash inside `compute_status` leaves statuses that incremental passes do not repair |
| `MCReindex_findings` | `FullPassEmbeds` | a full pass does not embed chunks whose rows a failed pass left |
| `SyncSource_findings` | `SyncCovers` | an edit behind the walk or in the tick of the cursor is not seen |
| `SyncSource_findings` | `DeletedAfterGrace` | the sink deletes the doc of a file that vanished since it was polled |
| `SyncSource_findings` | `GcSparesIndexed` | a collection acts by ids read before the listing: a new doc that got the id of a deleted one is hidden or deleted in its place |
| `SyncSource_findings` | `PendingResolves` | hidden docs count against the safety ratio and block their own deletion |
| `VecTables_findings` | `StoreOnlyHasNone` | a model rebuild gives store-only docs vectors again |
| `VecTables_findings` | `SwapCovers` | a doc written during a rebuild loses its vectors in the swap |
| `VecTables_findings` | `FlippedBackEmbeds` | a doc back from store-only has a doc vector and none for its chunks |
| `VecTables_findings` | `ReconcileSettlesChunks` | filters of chunk rows drift where the doc's row does not |
| `VecTables_findings` | `MetaInStep` | a write between a reconciliation's read and its update is overwritten |
| `MCMigrations_findings` | `RowsSurviveCrash` | a crash between two statements of a table copy leaves no docs table, or two |
| `MCMigrations_findings` | `AnotherDimensionOpens` | a flat store opened at another dimension raises for ever |
| `MCMigrations_findings` | `PartialStateOpens` | a vec_chunks behind its vec_docs lacks the columns a migration reads from it |
| `MCMigrations_findings` | `OpenMeansPair` | a vec_chunks left at its old schema is never rebuilt if vec_docs is missing |
| `MCMigrations_findings` | `OneCanonicalAfterCrash` | the column is there, so the demotion of colliding titles is never made up for |
| `MCMigrations_findings` | `StaticPairAgrees` | one of the two static tables stays at the old dimension |
| `MCMigrations_findings` | `SearchableOnce` | two processes fill the keyword index twice |
| `MCMigrations_findings` | `SwapDetected` | a fresh store is stamped with a model that did not fill it |
| `MCDocLifecycle_restore` | `LastWriteSurvives` | two overlapping restores lose the text of a delete made meanwhile |
| `MCDocLifecycle_findings` | `ParkedIsKept` | the sweep marks archived docs stale too, and evicts them |
| `MCDocLifecycle_findings` | `WrittenOrImportedIsNotEvicted` | an import does not bring a doc back from pending_delete |
| `MCDocLifecycle_findings` | `QueuedAfterItsTime` | a put resets the lifecycle and not its date |
| `MCDocLifecycle_findings` | `OwnersKept` | victims are deleted by id after their tags changed |
| `MCTools_findings` | `HitIsFresh` | what moves neither the count nor the greatest mtime leaves stale answers in the cache |
| `MCTools_findings` | `HitIsFreshUnlessMuted` | the version comes back to a former value |
| `MCTools_findings` | `PatchSparesTheRest` | a section write undoes another write outside its section |
| `MCTools_findings` | `TagsKept` | a section write drops a tag set meanwhile |
| `MCTools_findings` | `OneCanonicalPerGist` | the check of a write marks one of several copies, or none when it fails or its process ends |
| `MCTools_findings` | `DuplicateHasItsCanonical` | a duplicate's canonical is rewritten or deleted |
| `MCRetrieval_findings` | `ChunksHideDuplicates` | passages of near-copies fill the answer |
| `MCRetrieval_findings` | `NearestAreRecalledHnsw` | with HNSW, filters squeeze the window |
| `MCRetrieval_findings` | `TagsScanThePartition` | rows without the tag fill the largest k |
| `MCRetrieval_findings` | `StaticRecallsAsDense` | the degraded boot pack misses records of several owners |
| `MCRetrieval_findings` | `NearerRanksHigherEverywhere` | shards' lists are put one after the other, HNSW rows come by rowid |
| `MCRetrieval_findings` | `NothingResolvableDangles` | a dangling link by a title with a slash never binds |
| `MCRetrieval_findings` | `BoundToWhatItMeans` | a link bound to another source's file stays there |
| `MCRetrieval_findings` | `InferredOnlyWhereUnlinked` | a mention is inferred while the link dangles |
| `MCRetrieval_findings` | `RenamedTargetIsBound` | links to a moved file dangle until their docs change |
| `MCServing_findings` | `BootNeverQueues` | boots that all saw one idle worker queue |
| `MCServing_findings` | `WritesSpareRecall` | write tools run on the recall pool |
| `MCServing_findings` | `LoopNeverBlocks` | the static recall runs on the event loop |
| `MCServing_findings` | `WritesSpared` | TRUNCATE waits for a reader of the newest frame |
| `MCServing_findings` | `ToolsReleaseTheLock` | a tool's failed log leaves its transaction open on the served connection |
| `MCServing_findings` | `WriterSurvives` | a value that does not fit a column ends the writer thread |
| `MCServing_findings` | `EveryEditIsSeen` | an edit between the first index and the observer raises no event |
| `MCServing_findings` | `StoppedIsFlushed` | the last flush does not wait for a batch a timer took |
| `MCServing_findings` | `HeavyWedgeHeals` | a hung heavy pool is never restarted |

## 6. Proofs

`IndexJobsProofs` proves, for any callers, keys, paths, failure modes and
bounds satisfying `ConstantsAssumption`:

| Theorem | Statement |
|---|---|
| `TypeCorrect` | `Spec => []TypeOK` |
| `OneLiveRow` | `Spec => []OneLiveRowPerKey` |
| `CrashReplaysTheRun` | `Spec => []ReplayIsTheRun` |
| `NoLostFlag` | `Spec => []NoFlagOnEndedRow` |
| `PromiseHolds` | `Spec => Promise!Spec`, the refinement |
| `AcceptanceIsOwed` | `Spec => AcceptedIsOwedUnlessUndone`: whatever passes fail, a 202 is an intent on disk unless that request's own write was rolled back (section 5) |

None of the invariants is inductive alone. The strengthening `IndInv` is
`TypeOK`, who holds the lock and where callers and Applier are (`LockInv`),
what `view` and `committed` may differ in (`ViewInv`), the row invariants of
*both* tables (`RowsInv`: one queued and one processing row per key, rerun flags
only on live rows, the running job's row is processing with its payload), and
that `view` extends `committed`. Both tables have to satisfy the row invariants
because a commit makes the view durable and a rollback or a crash
makes the disk the view - at moments neither `enqueue()` nor the Applier chooses.
There is a lemma per action; `PromiseHolds` maps each step to a step of
`ReindexIntents` or a stutter.

`VecTablesProofs` proves, for any number of docs, writes and failures and for
models of equal or different dimension (`ConstantsAssumption` of `VecTables`):

| Theorem | Statement |
|---|---|
| `TypeCorrect` | `Spec => []TypeOK` |
| `StampNeverLies` | `Spec => []StampTruthful` |
| `VectorsFollowTheText` | `Spec => []VectorsFollowUndisturbed` |
| `SwapCoversTheUnchanged` | `Spec => SwapCoversUnchanged`, an action property |
| `ReconcileCatchesUp` | `Spec => ReconcileSettles`, an action property |

Its `IndInv` adds to these: chunk ids are bounded and no two docs share one
(`ChunkRows`; without it a write of one doc could disturb the vectors of another,
and `TypeOK` would not be inductive); what is staged is of the new model
(`StagedNew`, without which the swap could make the stamp lie); what is staged for
a doc that nobody wrote is still the doc's (`RowsCurrent`, `ChunksCurrent`); and a
doc that no other writer touched is in step or still to be synced
(`ReconCurrent`). Steps that change one doc, and steps that change labels only, are
each covered by one lemma (`OneDocInv`, `RelabelInv`). That SQLite's next rowid
exists and is unused (`NextChunkFresh`) rests on the least element of a set of
naturals, from `WellFoundedInduction`.

`CanonicalDocsProofs` proves, for any threads, stores, ext_ids and topics, and any
number of docs and writes:

| Theorem | Statement |
|---|---|
| `AnsweredIsStored` | `Spec => AcknowledgedIsStored`, when all threads work on one store |
| `TopicsHold` | `Spec => TopicsHoldSerially`, likewise: types, no raw integrity error, whole swaps, retired docs stay retired |

Both rest on `KeyInv`: the types and the two unique keys. A step either is
checked by the index (`PutWrite`, the reset of a pass) or leaves the table
`Tamer`: it removes docs or changes labels and makes nothing canonical; one
lemma covers all the latter. `TypeOK` itself bounds the clock and is not inductive for
several stores, whose puts may all have passed the test of the bound, so `Types`
leaves it open. The first theorem needs `Locked` (a put holds its store's lock from
its reads to its answer) and `Holds` (the row it found is still the one of its
ext_id, and after the write its doc is there): while a put is under way
every step changes statuses only (`RowsWait`). `OneStore` cannot be dropped: two processes
have a lock each.

The second compares a step with what was read several steps before. `SerialInv`
says, until a pass overlaps an operation, that what was read still is so: the
canonicals in the way of a put and the doc it is to flag (`ReadsHold`), the
losers, the aged docs, the drivers and the victim of a pass (`PassHolds`), and that
passes and operations stay `Apart`. An outcome of such a put is admissible
(`OutcomeAdmissible`), and so is the reset of such a pass, as of two docs of a
topic one outranks the other (`ResetUnique`). With one store the clock keeps its
bound too (`Bounds`), and `TypeOK` follows.

`StoreWritesProofs` proves, for any threads, docs and bodies, any number of
attempts, with or without calls that raise and another process that writes:

| Theorem | Statement |
|---|---|
| `WholeWrites` | `Spec => WritesAreWhole`: its invariants and `AcknowledgedIsStoredUncrossed` |
| `PromiseHolds` | `Spec => PromiseKept`, the refinement of `OwnedDocs` |

Both hold until a lock is taken with a rollback due or another process writes
inside a call, and rest on who holds the lock, what its call was called with and
whose the transaction is (`LockInv`, `CallInv`, `TxnInv`: one that is nobody's is a
`stranded` mark, and what the connection sees differs from the disk only inside a
write or with a rollback due). `WritesInv` says while nothing has crossed what the
connection sees at each statement of a write (`Progress`): what is on disk, but for
its own doc, of which it sees exactly the statements so far. A commit then makes a
whole row whole and is one step of `OwnedDocs`; the commit of a mark changes
nothing.

The second part of `StoreWritesProofs` is about opening the store (`Migrations`),
for any processes, docs, models and configurations, any number of starts, kills,
writes and rebuilds:

| Theorem | Statement |
|---|---|
| `WalkInvariant` | `MigrationsSpec => []WalkIndInv` |
| `WalkKeepsRows` | `MigrationsSpec => []RowsSurviveAlone` |
| `OpenLeavesComplete` | `MigrationsSpec => []OpenMeansComplete` |
| `WalkNeverRefused` | `MigrationsSpec => AloneNeverRefused`, an action property |

It assumes of the constants that docs are a finite set of ids (`DocsAreIds`), that a
configuration names a dimension, a model and a static dimension (`ConfigsAreSet`), and
of the store the first start finds only that it is one (`GenerationsAreStores`, which TLC
evaluates on the six stores of the run). What no migration repairs is no assumption
but part of the statements: `torn` and `uneven` hold from the start for a store
that was found so. With `torn` the three say nothing, as after a kill inside the same
step. With `uneven` they still say that rows and vectors survive and that everything
but vec_chunks is complete.

That an open store is complete is a fact about the whole walk, while each migration
looks only at what it is to change. `Done` says what holds once a process has passed
each of the steps, whatever it found: it grows along the walk and no later step may
take any of it back. `Left` says what is still queued inside a step and what the
statements before have done to the store: a copy of docs is half way exactly if
its remaining statements are those that finish it, columns are added but for those
queued, docs still to be put in docs_fts are those not there once. `Formed` keeps a
queued statement's argument true to the store until it runs, so that nothing
raises. `Kept` is what survives in between: every doc in docs or in the copy, with the
vectors it had in either table. All of this holds until a kill leaves a step half done or a walk meets
another, or a process of another configuration, and within that over any number of starts, as a kill between two commits
that are not `HalfDone` leaves a store the next walk may start from (`Formed` of a
check). A walk may well run beside processes that have the store open: `OpenInv` says
that all it then finds to do is `Calm`, statements that take nothing from the
store those found complete. `WalkTyped` holds always. `PairInv` is about
the pair: vector tables that are `Matched` stay so, as each rebuild is decided by vec_docs and
makes both (`RunsMatched`), and once vec_docs has its last layout `Matched` is the pair itself. There is a lemma for what each
statement does to the store, one for each step of the walk - the statements it
queues, and what is done when they have run - and one per action. For the proof
an ALTER is queued for each column of a migration's list and passes over a column that
is there, as the code's loop does; before, the missing ones were
selected first, which is a recursion over the list.

`ToolsProofs` proves, for any threads, ids, headings, texts and drafts, any symmetric
relation of near bodies, any cap of the cache:

| Theorem | Statement |
|---|---|
| `CachedAnswersAreFresh` | `Spec => []HitIsFreshUnlessQuiet` |
| `OneCanonicalOfAGist` | `Spec => []OneCanonicalPerGistChecked` |
| `PatchesSpareTheRest` | `Spec => []PatchSparesTheRestUncrossed` |

A hit is fresh because of what was stored, by whichever call, under the version
the query read: `RowInv` and `QueryInv` say that an answer kept or about to be
stored is of a version of the past or is what a search finds now, `LookupInv`
that whatever may be in the cache by the time a query looks is a result it has
seen. This needs a version never to come back with other results, and the proof
showed that it can: a doc deleted and another written in its place bring count and
maximum back to former values. The property used to except only versions that
stayed as they were; `quiet` now remembers both ways, with the way it came
about (`HitIsFreshUnlessMuted` in section 5 is the former statement). For section
writes `PatchInv` ties what is about to be put to the doc it was read from, as
long as the doc's mtime is the one read. Of near-copies `WriteKeepsDocs` says that
a put leaves its own doc unchecked, `MarkKeepsDocs` that a check which saw at most
one copy leaves no other canonical near its doc.

`SyncSourceProofs` proves, for any number of files, batch size, safety ratio, edits
and failures, beside any other indexer:

| Theorem | Statement |
|---|---|
| `JobsKeepDocs` | `Spec => JobsKeepTheDocs`: no record skipped, nothing collected that was not missing, hidden is what is gone, deleted at the end of the grace window; of a collection's steps, for docs that have not the id of another |

`JournalInv` is what each good run leaves to the next: what the cursor has
passed is indexed or to be replayed. Inside a run `ReplayInv` and `WalkInv` carry
it through the three phases, and say of a file edited in the meantime that it is
above what the cursor will reach. For a collection `KnownInv` says that the rows
it read first are docs until it has dealt with them, or somebody replaced
them, and `SettledInv` that for a file nobody edits the listing is right.
`ReadInv` says that what was read of a row holds as long as the row does;
`HeirInv` that a doc which has the id of another is new, was deleted before it
came, and is among what the next sync replays if the cursor has passed its file.

`DocLifecycleProofs` proves, for any docs, bodies, topics and owners, any number
of threads, calls and days, any caps, batches and thresholds:

| Theorem | Statement |
|---|---|
| `LastWritesSurvive` | `Spec => []LastWriteSurvivesUndoubled` |
| `WritesAreNotEvicted` | `Spec => WrittenIsNotEvicted`, an action property |
| `OwnersAreKept` | `Spec => OwnersKeptUndisturbed`, an action property |

A restore reads a tombstone in one hold of the lock, puts in a second and clears
it by id in a third. `LifeInv` therefore says what a restore in progress may count on:
no other tombstone has its id, and none will get it, because ids are given out
above the greatest and the cap takes the smallest (`Ascending`, `Reserved`); and
once it has put, its doc is stored or has a later tombstone (`Relieved`), so
that to clear loses nothing. `QueuedAfterWrite` relates the date of a doc in the
deletion queue to the last write; it leaves out imports, which do not restart it
(section 5). For the owners `SweepInv` says that the ids chosen in one hold of
the lock are still those of victims in the next; `OwnerKeeps` gives each owner
that has a record one the collapse keeps. The proof
showed that a second sweep can disturb the first as a client's write does, which
the property did not say; `disturbed` now latches on it. What the caps and ids need
of finite sets, a greatest element, comes from the least element of the set of
its bounds and not from induction.

`ServingProofs` is about five parts whose modules share no names, checked by the runs
`serving`, `retrieval` and `index`. For the watch command, any files, timer threads
and edits, whether or not a pass may fail; for the pools, any requests, workers
and waits, whatever hangs; for links, any docs, names, contents and writes; for
the indexer, any paths, texts, edits, failures and crashes, with or without a
watcher; for searches, any corpus, question, limit, windows, answer of the reranking
model and costs:

| Theorem | Statement |
|---|---|
| `Inductive` | `WatchSpec => []IndInv` |
| `EditsAreOwed` | `WatchSpec => []NothingForgotten` |
| `FlushesAreOrdered` | `WatchSpec => NeverIndexedBackwards`, an action property |
| `RestartsAreDeserved` | `OffloadSpec => []RestartIsDeserved` |
| `LinksAreBound` | `LinksSpec => []EdgesAreBound` |
| `VersionsAreShown` | `HistorySpec => []AsOfShowsTheVersion`, for any number of docs and times |
| `PassesKeepTheIndex` | `Spec => PassKeepsTheIndex` (of `Reindex`): its type invariant and three action properties |
| `FullPassesRepair` | `Spec => FullPassRepairs`, an action property |
| `AnswersAreSound` | `RetrievalSpec => []AnswerIsSound` |
| `FiltersNeverSqueeze` | `RetrievalSpec => []NearestAreRecalled` |
| `MergingKeepsOrder` | `RetrievalSpec => []NearerRanksHigher` |
| `BudgetsAreKept` | `RetrievalSpec => []BudgetFits` |

`NothingForgotten` is not inductive: a thread about to store an old reading makes
a file stale that is not so yet, so `StaleIsOwed` counts it as `Stale` at once;
`PendingIsDue` says somebody comes for what is pending, `OneReindexes` that
`_reindex_lock` keeps readings apart, `Holding` and `Quiet` where paths are and
what holds before the observer runs. `Ordered` puts each reading between what is
stored and what is on disk.

The watchdog counts calls past their deadline in `_inflight`, among them calls
that only wait in the executor's queue. That it is right all the same takes
`AnsweredInv` (while the loop runs, every deadline is answered in time, which takes a call
that waits out of the queue) and `RegisterInv`, so that late calls are running,
and `WorkersInv`, so that as many as there are workers are all of them; `HeldInv`
relates the count of seconds to the age of one of them.

A doc that appears re-binds the edges that dangle under its name, so the danger is
an edge that dangles again while its doc is there. A deletion does that to the
edges bound to the deleted doc: each has that doc's own name, which is now
`spoiled`, or was bound to it under another name, which is `spoiled` too
(`Strayed`, `Namesakes`); `BoundByName` is what remains. The proof attempt found
the case the property did not except before: a link bound by title to one doc, the
file of that name written later, the titled doc deleted - the link dangles though
its file is there, until that file is indexed anew.

The walk of `resolve_as_of` is a recursive function, of which the prover knows
nothing but its equation. `Iterates` shows that there is one: from turn to turn, by the least
number for which there is none. `Walked` is what its loop keeps: the path goes back
along what replaced what, over versions not in force, each older than the one
before. So it meets no doc twice, has stopped by the turn that has its number of docs
(`WalkStops`), and every version of the doc's line is on it or older than where it
stopped (`ShownIsInForce`).

What a scan leaves behind depends on what all passes before it left, so
`ReindexInv` says it of every state in between. `RowsInv`: an mtime that is the
file's proves that the text is, in what the pass sees, in what is on disk (a
crash makes it the view) and in what the scan loaded at its start, where the
fast path looks. `SeenInv` and `KeptInv`: a file nobody edits has been seen
exactly if it exists, and a doc the pass did not write is as it was loaded, or
gone with its file. `TouchedInv`, `BatchInv` and `EmbeddedInv`: what the pass
wrote is of the text it read, and has its vectors or waits for them, once, in
the batch. `DerivedInv`: the same of the status, of every doc, until a
pass fails; for a status that a pass has reset it takes the set still to be
rated. A last step then only has to be read off. Full passes need no more:
`SeenInv` says that they touch every file.

`GraphInv` says of what docs owe each other. `CitesInv`: until a pass fails, each
citation a text makes is an edge, or has lost its target, or was passed over
because the target was no doc; the pass's own docs are excepted until their
citations are extracted. `ExtractedInv` is the same after any failure for what a
scan has just extracted, without exceptions. `MarksInv`: what a pass has reset and not marked
is unmarked, its marks are right, and a driver that is done is alone among its live
neighbours or has taken a duplicate; a mark takes a doc out of the live ones, so it makes no new
rival. `OwnedInv`: what is no doc has no citations, in the pass's view and on disk.

The proof attempt found what three edits do not show. A watcher's pass that
removed a file rates *all* docs, by the heads of their files as they are then
(status.py Pass 1), also a doc whose file has an edit this pass does not index.
When that edit is taken back before a pass reads it, the next scan finds the text
unchanged, refreshes the mtime, and the status of a text the doc never had stays.
`CompletedPassDerives` did not except this; TLC finds it with 5 edits from an empty tree and no failure.

A search changes state once, so what there is to prove of it is about lists.
`ArrangedIs` says of any finite set with a strict total order that `Arranged` lists
each element once and in that order: the number of elements ahead grows along the
order (`AheadGrows`), so no place is taken twice, and counting leaves none empty
(`PlaceFilled`). Taking the first of a list, some of its places, or the elements
of a set keeps both (`FirstOfIs`, `AtIs`, the lemmas on `Select`). On these rest what each
partition returns (`KnnIs`, `OwnerFallbackIs`, `HnswIs`), that the filters come
before the window in each of them or leave it room (`NotSqueezed`, `VectorRowsRecall`), and that merging
follows the distance. `AgreedRanks` is the arithmetic of the fusion: each signal's
1 / (60 + rank) is taken from a position, and a doc the other signal does not
list gets nothing, so no worse on both is no worse in the sum, and a tie falls to who
arrived first. `RetrievalInvariant` adds to the three properties what a reranker needs:
the candidates it is given are visible docs, each once.

The budget is three loops, each a recursive function, for which `Iterates` gives the
equation. `Bracket` is what the bisection keeps: the prefix of `lo` fits, that of
`hi + 1` does not, and the distance shrinks at every turn, so that as many turns as
candidates suffice. `Spent` is what the upgrades keep: what is reported as used is
the sum of what the tiers cost, and within the budget; `TotalChanged` is the sum with one
row changed.

The proof attempt found that `NearerRanksHigher` said too much for windows larger
than the instance's. A doc past the window of its own partition, found by its keywords
alone, ranks below a farther doc of a smaller partition, which has both signals:
with the code's numbers, one source with more than `max(limit * 5, 50)` nearer
docs and another with few. `Agreed` now asks that the nearer doc is in the window if the
farther one is.

Only model-checked:

* liveness (`QueueDrains`, `Converges`, `SyncSettles`, `RecallWedgeHeals`, `WalShrinks`,
  `ReindexGetsTheLock`) and anything with ENABLED, which are outside the prover's
  reach.

## 7. Not modelled, and what is left

Not modelled, with the reason:

* chunking, parsing of links and code references, rendering, the rules that tell
  plan, stale and near-duplicate docs: text in, values out. The models leave
  their results open.
* `savings.py`, `insights.py`, measurements, pricing: reports over logs no other
  part reads. `sources.py`, `config.py`, setup, update, backup: settings and file
  copies. Evaluation and benchmarks: offline.
* the embedder and reranking models: a call that answers, raises or hangs.
* pages and read endpoints of the server, listings of the tools, the graph view: queries.
* `get_job` and `_position`, which only read.

Partly modelled parts say in `PROJECT.json` what is left out of them. What would
come next: the HNSW index against the tables it copies; collections; the
partition key and the owner column of the vector tables; more than one chunk
per doc.
