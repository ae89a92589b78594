------------------------------ MODULE Migrations ------------------------------
(***************************************************************************)
(* open_db (src/trovex/db.py): every process that opens the store first    *)
(* walks it through some twenty check-then-act migrations.  There is no    *)
(* schema version and no lock around the walk: each migration reads the    *)
(* schema, decides, and then runs its statements.  What makes a statement  *)
(* atomic is the code's: executescript and an ALTER outside a transaction  *)
(* commit one statement at a time, a BEGIN IMMEDIATE block commits as one. *)
(* A process may die between two statements, a second process (the server, *)
(* a command line, a reindex) may walk at the same time, and the           *)
(* configuration may name another embedding model at each start.           *)
(***************************************************************************)
EXTENDS Naturals, Sequences, FiniteSets, SequencesExt

CONSTANTS
  Procs,        \* processes that open the store
  Docs,         \* docs that may be stored; all owned ones share one title
  Models,       \* embedding models
  Configs,      \* [dim, model, static] a process may be started with
  Generations,  \* the stores the first process may find
  MaxCrashes,   \* bound: processes killed
  MaxOpens      \* bound: calls of open_db

ASSUME BoundsAreNat == MaxCrashes \in Nat /\ MaxOpens \in Nat
ASSUME DocsAreIds == Docs \subseteq Nat /\ IsFiniteSet(Docs)

None == "none"
NoConfig == [dim |-> 0, model |-> None, static |-> 0]

ASSUME ConfigsAreSet ==
  None \notin Models /\ Configs \subseteq [dim : Nat, model : Models, static : Nat]

VARIABLES
  db,       \* the store on disk
  pc,       \* per process: 0 not running, i in step i, Len(Steps) + 1 open
  due,      \* per process: "check", or the statements its step still has to run
  cfg,      \* per process: the configuration it runs on, NoConfig when it does not
  opens,    \* calls of open_db so far
  crashes,  \* processes killed so far
  stored,   \* the docs, and their vectors, that are in the store or were written to it
  torn,     \* steps a crash left half done
  uneven,   \* the store was found with vector tables that are not a pair
  overlap   \* two processes were opening at once, or ran on two configurations

migrationsVars == <<db, pc, due, cfg, opens, crashes, stored, torn, uneven, overlap>>

-----------------------------------------------------------------------------
(* The schema, by the migration that adds each column. *)

ColumnsOf == [
  store_columns |-> <<"content", "ext_id", "kind", "origin">>,
  query_session |-> <<"session_id">>,
  query_used |-> <<"used">>,
  query_source |-> <<"source">>,
  query_budget |-> <<"budget_requested", "budget_used">>,
  chunk_hash |-> <<"content_hash">>,
  chunker_version |-> <<"chunker_version">>,
  lifecycle |-> <<"lifecycle">>,
  canonical_topic |-> <<"canonical_topic">>,
  importance |-> <<"importance", "pinned", "lifecycle_changed_at">>,
  run_metrics |-> <<"docs_changed", "phase_ms", "embed_cache_hits">>,
  jobs_link |-> <<"job_id">>,
  provenance |-> <<"source_url">>,
  chunk_provenance |-> <<"anchor">>,
  drift |-> <<"drift", "drift_reason">>]

\* The table a migration looks for before it looks for the column.
TableOf(step) ==
  CASE step \in {"query_session", "query_source", "query_budget"} -> "mcp_queries"
    [] step = "query_used" -> "mcp_query_results"
    [] step \in {"chunk_hash", "chunker_version", "chunk_provenance"} -> "chunks"
    [] step \in {"run_metrics", "jobs_link"} -> "index_runs"
    [] OTHER -> "docs"

Tables == {"docs", "chunks", "mcp_queries", "mcp_query_results", "index_runs"}
AllColumns == UNION {ToSet(ColumnsOf[s]) : s \in DOMAIN ColumnsOf}
ColumnsIn(t) == UNION {ToSet(ColumnsOf[s]) : s \in {r \in DOMAIN ColumnsOf : TableOf(r) = t}}

\* The order of open_db: owner after embed_model after partition after the
\* schema, canonical_topic after lifecycle.
Alters == <<"store_columns", "query_session", "query_used", "query_source",
            "query_budget", "chunk_hash", "chunker_version", "lifecycle",
            "canonical_topic", "importance", "run_metrics", "jobs_link",
            "provenance", "drift">>
Rebuilds == <<"partition_vec", "vec_embed_model", "vec_owner", "static_vec",
              "docs_fts", "stamp">>
SchemaFirst == <<"init_schema", "multi_source", "embed_dim">> \o Alters \o Rebuilds    \* mutant
Steps == <<"multi_source", "embed_dim">> \o Alters \o <<"init_schema">> \o Rebuilds

Opened == Len(Steps) + 1
Opening(p) == pc[p] \in 1..Len(Steps)
Step(p) == Steps[pc[p]]

\* A vec0 table: its layout (none, flat, partitioned, model, owner), its
\* dimension and the model each row was made by.
NoVec == [d \in Docs |-> None]
NoTable == [layout |-> None, dim |-> 0, rows |-> NoVec]

Layouts == {None, "flat", "partitioned", "model", "owner"}
VecTable == [layout : Layouts, dim : Nat, rows : [Docs -> Models \cup {None}]]
Store == [tables : SUBSET Tables, cols : SUBSET (AllColumns \cup {"source_id"}),
          rows : SUBSET Docs, owned : SUBSET Docs, topic : SUBSET Docs, live : SUBSET Docs,
          unique : BOOLEAN, scratch : {None, "made", "copied"}, scratchRows : SUBSET Docs,
          vecDocs : VecTable, vecChunks : VecTable, chunks : SUBSET Docs, tags : SUBSET Docs,
          fts : [Docs -> Nat], staticDocs : Nat, staticChunks : Nat, stamp : Models \cup {None}]

-----------------------------------------------------------------------------
(* The store an earlier release left, killed at whatever moment it was.     *)

\* What holds of any file: no column without its table, no index without its
\* column, vec_chunks has no owner column in any release.
IsStore(s) ==
  /\ s \in Store
  /\ s.topic \subseteq s.owned /\ s.owned \subseteq s.rows
  /\ "docs" \notin s.tables => s.rows = {} /\ "content" \notin s.cols
  /\ s.unique => "canonical_topic" \in s.cols
  /\ s.vecChunks.layout # "owner"
  /\ s.vecDocs.layout = None => s.vecDocs.rows = NoVec
  /\ s.vecChunks.layout = None => s.vecChunks.rows = NoVec

ASSUME GenerationsAreStores == \A s \in Generations : IsStore(s)

NoCopy(s) == s.scratch = None /\ s.scratchRows = {}

\* docs is the first table there is, and what has no table has no column.
DocsFirst(s) ==
  "docs" \notin s.tables => /\ "chunks" \notin s.tables /\ s.cols \cap ColumnsIn("docs") = {}
                           /\ s.rows = {} /\ s.vecDocs.layout = None

\* docs_fts was filled in one transaction.
Filled(s, ds) == (\E d \in Docs : s.fts[d] > 0) => \A d \in ds : s.fts[d] = 1

\* SSOT from the release on that brought topics, and its index with it.
OneLive(s) ==
  "canonical_topic" \in s.cols =>
    s.topic = s.owned /\ \A d, e \in s.owned \cap s.live : d = e

StaticPaired(s) == s.staticChunks \in {0, s.staticDocs}

\* The steps a release that was killed did by half.
LeftTorn(s) ==
  (IF NoCopy(s) /\ DocsFirst(s) THEN {} ELSE {"multi_source"})
  \cup (IF OneLive(s) THEN {} ELSE {"canonical_topic"})
  \cup (IF StaticPaired(s) THEN {} ELSE {"static_vec"})
  \cup (IF Filled(s, s.rows) THEN {} ELSE {"docs_fts"})

\* The walk makes a pair of the vector tables: both have the dimension and the
\* layout of one release, or a rebuild of vec_docs makes vec_chunks anew with it,
\* whether there is one or not.  A release before the BEGIN IMMEDIATE of
\* _migrate_embed_dim and _migrate_partition_vec could be killed with vec_docs
\* dropped and vec_chunks left at its old schema.
Carries(s) ==
  s.rows \cup s.scratchRows = {} \/ \E d \in s.rows \cup s.scratchRows : s.vecDocs.rows[d] # None
Matched(s) ==
  /\ s.vecDocs.layout = None => s.vecChunks.layout = None
  /\ s.vecDocs.layout = "partitioned" => s.vecChunks.layout # "flat"
  /\ s.vecDocs.layout \in {"model", "owner"} =>
       s.vecChunks.layout = "model" /\ s.vecChunks.dim = s.vecDocs.dim
  /\ s.vecDocs.layout \in {"flat", "partitioned", "model"} => Carries(s)

\* The docs of a store and those that have a vector in either table.
Held(s) == [rows |-> s.rows,
            vecDocs |-> {d \in s.rows : s.vecDocs.rows[d] # None},
            vecChunks |-> {d \in s.rows \cap s.chunks : s.vecChunks.rows[d] # None}]
Both(k, l) == [rows |-> k.rows \cup l.rows, vecDocs |-> k.vecDocs \cup l.vecDocs,
               vecChunks |-> k.vecChunks \cup l.vecChunks]

-----------------------------------------------------------------------------
(* rebuild_vec_needed: another dimension, or another model than the stamp. *)
Needed(s, c) ==
  /\ s.rows # {}
  /\ \/ s.vecDocs.layout # None /\ s.vecDocs.dim # c.dim
     \/ s.stamp \notin {None, c.model}

Has(s, t) == t \in s.tables

Missing(s, step) == ToSet(ColumnsOf[step]) \ s.cols

\* Statements are [op, arg]; op names what runs, arg what the check read.
Stmt(op, arg) == [op |-> op, arg |-> arg]

\* An empty store of another dimension is wiped; a filled one is left to
\* rebuild_vec.
AnyMismatch(s, c) == s.vecDocs.layout # None /\ s.vecDocs.dim # c.dim    \* mutant
Wipes(s, c) == s.vecDocs.layout # None /\ s.vecDocs.dim # c.dim /\ s.rows = {}

\* docs_fts is filled once, when a store from before it is opened.
EveryRow(s) == s.rows    \* mutant
Unfilled(s) == IF \E d \in Docs : s.fts[d] > 0 THEN {} ELSE s.rows

-----------------------------------------------------------------------------
(* Per migration, the statements it decides to run from the schema it reads: *)
(* << >> when there is nothing to do.                                        *)

MultiSource(s) ==
  IF Has(s, "docs") /\ "source_id" \notin s.cols
  THEN <<Stmt("create docs_new", {}), Stmt("copy docs", {}),
         Stmt("drop docs", {}), Stmt("rename docs_new", {})>>
  ELSE << >>

\* ALTER outside a transaction: each column commits on its own, one that the
\* check found is passed over.
AddColumns(s, step) ==
  IF Has(s, TableOf(step)) /\ Missing(s, step) # {}
  THEN [i \in DOMAIN ColumnsOf[step] |-> Stmt("add", {ColumnsOf[step][i]} \ s.cols)]
  ELSE << >>

\* The backfill, the de-duplication and the index share a transaction, which
\* the ALTER before them is not part of.
CanonicalTopic(s) ==
  IF Has(s, "docs") /\ Missing(s, "canonical_topic") # {}
  THEN <<Stmt("add", {"canonical_topic"}), Stmt("backfill topics", {})>>
  ELSE << >>

\* BEGIN IMMEDIATE: all the columns, or none.
AddTogether(s, todo) == IF Has(s, "docs") /\ todo # {} THEN <<Stmt("add", todo)>> ELSE << >>
Provenance(s) ==
  AddTogether(s, Missing(s, "provenance") \cup
                 (IF Has(s, "chunks") THEN Missing(s, "chunk_provenance") ELSE {}))
Drift(s) == AddTogether(s, Missing(s, "drift"))

\* A vec0 table has no ALTER: a layout that lacks the column is rebuilt.
RebuildTo(s, layout, lacking) ==
  IF s.vecDocs.layout \in lacking THEN <<Stmt("rebuild", layout)>> ELSE << >>
PartitionVec(s) == RebuildTo(s, "partitioned", {"flat"})
VecEmbedModel(s) == RebuildTo(s, "model", {"flat", "partitioned"})
VecOwner(s) == RebuildTo(s, "owner", {"flat", "partitioned", "model"})

\* The dimension is read off the docs table of the pair.
StaticVec(s, c) ==
  IF c.static = 0 THEN << >>
  ELSE (IF s.staticDocs \in {0, c.static} THEN << >>
        ELSE <<Stmt("drop static docs", {}), Stmt("drop static chunks", {})>>)
       \o <<Stmt("create static docs", {}), Stmt("create static chunks", {})>>

Stamp(s, c) == IF s.stamp = None /\ ~Needed(s, c) THEN <<Stmt("stamp", {})>> ELSE << >>

Decide(s, step, c) ==
  CASE step = "multi_source" -> MultiSource(s)
    [] step = "embed_dim" -> IF Wipes(s, c) THEN <<Stmt("wipe", {})>> ELSE << >>
    [] step = "canonical_topic" -> CanonicalTopic(s)
    [] step = "provenance" -> Provenance(s)
    [] step = "drift" -> Drift(s)
    [] step = "init_schema" -> <<Stmt("schema", {})>>
    [] step = "partition_vec" -> PartitionVec(s)
    [] step = "vec_embed_model" -> VecEmbedModel(s)
    [] step = "vec_owner" -> VecOwner(s)
    [] step = "static_vec" -> StaticVec(s, c)
    [] step = "docs_fts" -> <<Stmt("fill and purge", Unfilled(s))>>
    [] step = "stamp" -> Stamp(s, c)
    [] OTHER -> AddColumns(s, step)

-----------------------------------------------------------------------------
(* What a statement does, and when SQLite refuses it. *)

\* The columns some index of the schema script names.
Indexed == {"source_id", "lifecycle", "ext_id", "canonical_topic", "session_id",
            "source", "used", "content_hash"}

\* The script creates a missing table whole; it never adds a column to one.
WithTables(s) == s.cols \cup (UNION {ColumnsIn(t) : t \in Tables \ s.tables})
                        \cup (IF Has(s, "docs") THEN {} ELSE {"source_id"})

\* embed_dim counts the docs, the one check that can itself raise.
CheckFails(s, step, c) ==
  step = "embed_dim" /\ s.vecDocs.layout # None /\ s.vecDocs.dim # c.dim /\ ~Has(s, "docs")

\* The embeddings a rebuild copies must fit the configured dimension; the
\* first one copies those of rows that are there, the last leaves vec_chunks.
Misfit(s, layout, c) ==
  \/ /\ s.vecDocs.dim # c.dim
     /\ \E d \in Docs : s.vecDocs.rows[d] # None /\ (layout = "partitioned" => d \in s.rows)
  \/ /\ layout # "owner" /\ s.vecChunks.layout # None /\ s.vecChunks.dim # c.dim
     /\ \E d \in Docs : /\ s.vecChunks.rows[d] # None
                         /\ layout = "partitioned" => d \in s.chunks \cap s.rows

\* SQLite refuses the statement on the schema it finds when it runs.
Fails(s, st, c) ==
  CASE st.op = "create docs_new" -> s.scratch # None
    [] st.op = "copy docs" -> s.scratch # "made" \/ ~Has(s, "docs")
    [] st.op = "drop docs" -> ~Has(s, "docs")
    [] st.op = "rename docs_new" -> s.scratch = None \/ Has(s, "docs")
    [] st.op = "wipe" -> ~Has(s, "docs")
    [] st.op = "add" ->
         \/ st.arg \cap s.cols # {}
         \/ \E t \in Tables \ s.tables : st.arg \cap ColumnsIn(t) # {}
    [] st.op = "backfill topics" -> ~({"kind", "lifecycle", "canonical_topic"} \subseteq s.cols)
    [] st.op = "schema" -> ~(Indexed \subseteq WithTables(s))
    [] st.op = "rebuild" ->
         \/ st.arg = "partitioned" /\ s.vecDocs.layout = None
         \/ st.arg = "model" /\ (s.vecDocs.layout \in {None, "flat"} \/ s.vecChunks.layout = "flat")
         \/ st.arg = "owner" /\ s.vecDocs.layout \in {None, "flat", "partitioned"}
         \/ Misfit(s, st.arg, c)
    [] OTHER -> FALSE

\* The rows of a vec0 table whose doc is still among ds.
Joined(v, ds) == [d \in Docs |-> IF d \in ds THEN v.rows[d] ELSE None]

Newest(ds) == CHOOSE d \in ds : \A e \in ds : e <= d

\* _migrate_add_canonical_topic: every owned doc gets the slug of its title;
\* of the live ones that share it only the newest stays canonical.
Backfilled(s) ==
  LET rivals == s.owned \cap s.live
  IN [s EXCEPT !.topic = s.owned, !.unique = TRUE,
               !.live = IF rivals = {} THEN @ ELSE (@ \ rivals) \cup {Newest(rivals)}]

\* Drop, create at the configured dimension, copy back: one transaction.
Rebuilt(s, layout, c) ==
  LET docsTable == [layout |-> layout, dim |-> c.dim,
                    rows |-> IF layout = "partitioned" THEN Joined(s.vecDocs, s.rows)
                             ELSE s.vecDocs.rows]
      chunkTable == [layout |-> layout, dim |-> c.dim,
                     rows |-> IF layout = "partitioned"
                              THEN Joined(s.vecChunks, s.chunks \cap s.rows)
                              ELSE s.vecChunks.rows]
  IN [s EXCEPT !.vecDocs = docsTable,
               !.vecChunks = IF layout = "owner" THEN @ ELSE chunkTable]

\* _migrate_purge_orphans, in the transaction that filled docs_fts.
Purged(s) == [s EXCEPT !.tags = @ \cap s.rows, !.chunks = @ \cap s.rows,
                       !.vecChunks.rows = [d \in Docs |->
                           IF d \in s.chunks \ s.rows THEN None ELSE @[d]]]

CreatedIfMissing(v, layout, c) ==
  IF v.layout = None THEN [layout |-> layout, dim |-> c.dim, rows |-> NoVec] ELSE v

\* CREATE ... IF NOT EXISTS for every table.
Initialised(s, c) ==
  [s EXCEPT
     !.tables = Tables, !.cols = WithTables(s), !.unique = TRUE,
     !.vecDocs = CreatedIfMissing(@, "owner", c),
     !.vecChunks = CreatedIfMissing(@, "model", c)]

After(s, st, c) ==
  CASE st.op = "create docs_new" -> [s EXCEPT !.scratch = "made"]
    [] st.op = "copy docs" -> [s EXCEPT !.scratch = "copied", !.scratchRows = s.rows]
    [] st.op = "drop docs" ->
         [s EXCEPT !.tables = @ \ {"docs"}, !.rows = {}, !.owned = {}, !.topic = {},
                   !.live = {}, !.unique = FALSE, !.cols = @ \ (ColumnsIn("docs") \cup {"source_id"})]
    [] st.op = "rename docs_new" ->
         [s EXCEPT !.tables = @ \cup {"docs"}, !.cols = @ \cup {"source_id"},
                   !.rows = s.scratchRows, !.live = s.scratchRows,
                   !.scratch = None, !.scratchRows = {}]
    [] st.op = "wipe" ->
         [s EXCEPT !.vecDocs = NoTable, !.vecChunks = NoTable,
                   !.chunks = {}, !.tables = @ \ {"chunks"},
                   !.cols = @ \ ColumnsIn("chunks")]
    [] st.op = "add" -> [s EXCEPT !.cols = @ \cup st.arg]
    [] st.op = "backfill topics" -> Backfilled(s)
    [] st.op = "schema" -> Initialised(s, c)
    [] st.op = "rebuild" -> Rebuilt(s, st.arg, c)
    [] st.op = "drop static docs" -> [s EXCEPT !.staticDocs = 0]
    [] st.op = "drop static chunks" -> [s EXCEPT !.staticChunks = 0]
    [] st.op = "create static docs" -> [s EXCEPT !.staticDocs = IF @ = 0 THEN c.static ELSE @]
    [] st.op = "create static chunks" -> [s EXCEPT !.staticChunks = IF @ = 0 THEN c.static ELSE @]
    [] st.op = "fill and purge" ->
         Purged([s EXCEPT !.fts = [d \in Docs |-> IF d \in st.arg THEN @[d] + 1 ELSE @[d]]])
    [] st.op = "stamp" -> [s EXCEPT !.stamp = c.model]

-----------------------------------------------------------------------------
Check == Stmt("check", {})

MigrationsInit ==
  /\ db \in Generations
  /\ pc = [p \in Procs |-> 0]
  /\ due = [p \in Procs |-> << >>]
  /\ cfg = [p \in Procs |-> NoConfig]
  /\ opens = 0 /\ crashes = 0
  /\ stored = Held(db)
  /\ torn = LeftTorn(db) /\ uneven = ~Matched(db) /\ overlap = FALSE

\* A process is started on a configuration and connects.
Open(p, c) ==
  /\ pc[p] = 0 /\ opens < MaxOpens
  /\ pc' = [pc EXCEPT ![p] = 1]
  /\ due' = [due EXCEPT ![p] = <<Check>>]
  /\ cfg' = [cfg EXCEPT ![p] = c]
  /\ opens' = opens + 1
  /\ overlap' = (overlap \/ \E q \in Procs \ {p} : pc[q] # 0 /\ (Opening(q) \/ cfg[q] # c))
  /\ UNCHANGED <<db, crashes, stored, torn, uneven>>

\* With the statements rest left, stay in the step; with none, go on.
Advance(p, rest) ==
  /\ pc' = [pc EXCEPT ![p] = IF rest = << >> THEN @ + 1 ELSE @]
  /\ due' = [due EXCEPT ![p] = IF rest # << >> THEN rest
                               ELSE IF pc[p] = Len(Steps) THEN << >> ELSE <<Check>>]

\* The connection is closed; a step left between two of its commits is torn.
HalfDone == {"copy docs", "drop docs", "rename docs_new", "backfill topics",
             "drop static chunks"}

Leave(p) ==
  /\ pc' = [pc EXCEPT ![p] = 0]
  /\ due' = [due EXCEPT ![p] = << >>]
  /\ cfg' = [cfg EXCEPT ![p] = NoConfig]
  /\ torn' = IF Opening(p) /\ Head(due[p]).op \in HalfDone
             THEN torn \cup {Step(p)} ELSE torn

Decides(p) ==
  /\ Opening(p) /\ Head(due[p]) = Check
  /\ ~CheckFails(db, Step(p), cfg[p])
  /\ Advance(p, Decide(db, Step(p), cfg[p]))
  /\ UNCHANGED <<db, cfg, opens, crashes, stored, torn, uneven, overlap>>

Runs(p) ==
  /\ Opening(p) /\ Head(due[p]) # Check
  /\ ~Fails(db, Head(due[p]), cfg[p])
  /\ db' = After(db, Head(due[p]), cfg[p])
  /\ Advance(p, Tail(due[p]))
  /\ UNCHANGED <<cfg, opens, crashes, stored, torn, uneven, overlap>>

\* SQLite raises, open_db lets it through, the process does not start.
Refused(p) ==
  /\ Opening(p)
  /\ IF Head(due[p]) = Check THEN CheckFails(db, Step(p), cfg[p])
     ELSE Fails(db, Head(due[p]), cfg[p])
  /\ Leave(p)
  /\ UNCHANGED <<db, opens, crashes, stored, uneven, overlap>>

Killed(p) ==
  /\ Opening(p) /\ crashes < MaxCrashes
  /\ Leave(p)
  /\ crashes' = crashes + 1
  /\ UNCHANGED <<db, opens, stored, uneven, overlap>>

Exit(p) ==
  /\ pc[p] = Opened
  /\ Leave(p)
  /\ UNCHANGED <<db, opens, crashes, stored, uneven, overlap>>

\* A write of a process that has opened the store: an owned doc (refused by
\* the write path while its topic has a live canonical) or a file of a source.
Write(p, d, owned) ==
  /\ pc[p] = Opened /\ d \notin db.rows
  /\ AllColumns \subseteq db.cols
  /\ db.vecDocs.layout = "owner" /\ db.vecDocs.dim = cfg[p].dim
  /\ db.vecChunks.layout = "model" /\ db.vecChunks.dim = cfg[p].dim
  /\ owned => db.topic \cap db.live = {}
  /\ db' = [db EXCEPT !.rows = @ \cup {d}, !.live = @ \cup {d},
                      !.owned = IF owned THEN @ \cup {d} ELSE @,
                      !.topic = IF owned THEN @ \cup {d} ELSE @,
                      !.chunks = @ \cup {d}, !.tags = @ \cup {d}, !.fts[d] = 1,
                      !.vecDocs.rows[d] = cfg[p].model,
                      !.vecChunks.rows[d] = cfg[p].model]
  /\ stored' = Both(stored, Held(db'))
  /\ UNCHANGED <<pc, due, cfg, opens, crashes, torn, uneven, overlap>>

\* The rebuild_vec job the server enqueues at start-up, run to its end.
Rebuild(p) ==
  /\ pc[p] = Opened /\ Needed(db, cfg[p])
  /\ LET made(ds) == [d \in Docs |-> IF d \in ds THEN cfg[p].model ELSE None]
     IN db' = [db EXCEPT
          !.vecDocs = [layout |-> "owner", dim |-> cfg[p].dim, rows |-> made(db.rows)],
          !.vecChunks = [layout |-> "model", dim |-> cfg[p].dim, rows |-> made(db.chunks)],
          !.stamp = cfg[p].model]
  /\ stored' = Both(stored, Held(db'))
  /\ UNCHANGED <<pc, due, cfg, opens, crashes, torn, uneven, overlap>>

MigrationsNext ==
  \E p \in Procs :
    \/ \E c \in Configs : Open(p, c)
    \/ Decides(p)
    \/ Runs(p)
    \/ Refused(p)
    \/ Killed(p)
    \/ Exit(p)
    \/ \E d \in Docs, owned \in BOOLEAN : Write(p, d, owned)
    \/ Rebuild(p)

MigrationsSpec == MigrationsInit /\ [][MigrationsNext]_migrationsVars

-----------------------------------------------------------------------------
(* Properties *)

Complete(s, c) ==
  /\ s.tables = Tables /\ AllColumns \cup {"source_id"} \subseteq s.cols
  /\ s.unique
  /\ s.vecDocs.layout = "owner"
  /\ s.vecDocs.dim = c.dim \/ Needed(s, c)
  /\ c.static # 0 => s.staticDocs = c.static /\ s.staticChunks = c.static
  /\ \A d \in s.rows : s.fts[d] = 1
  /\ s.tags \cup s.chunks \subseteq s.rows
  /\ Cardinality(s.owned \cap s.live) <= 1

\* A pair of vector tables of the last release.
PairOf(s) == s.vecChunks.layout = "model" /\ s.vecChunks.dim = s.vecDocs.dim

\* Types of the variables and what each set of docs is a part of.
MigrationsTypeOK ==
  /\ pc \in [Procs -> 0..Opened]
  /\ cfg \in [Procs -> Configs \cup {NoConfig}]
  /\ db.cols \subseteq AllColumns \cup {"source_id"}
  /\ db.topic \subseteq db.owned /\ db.owned \subseteq db.rows

\* Walking the store forward loses nothing: as long as no crash fell inside
\* the one migration that copies the docs table statement by statement, every
\* doc found or committed is in docs or in the copy about to become docs, and
\* every embedding it had, in either table, survived each drop-and-recreate of
\* the vector tables, also when these were not a pair
\* (db.py _migrate_to_multi_source, _migrate_partition_vec and the two after).
RowsSurviveAlone ==
  (torn = {} /\ ~overlap) =>
    /\ stored.rows \subseteq db.rows \cup db.scratchRows
    /\ \A d \in stored.vecDocs : db.vecDocs.rows[d] # None
    /\ \A d \in stored.vecChunks : db.vecChunks.rows[d] # None

\* A process that finished open_db finds the whole schema: every column and
\* table its queries name, vec_docs of the last layout at its dimension (or a
\* rebuild it will ask for), every doc once in docs_fts, no orphans, and one
\* live canonical per title, the docs from before the rule included; and
\* vec_chunks is vec_docs's pair, unless the store was found without one.
OpenMeansComplete ==
  /\ MigrationsTypeOK
  /\ \A p \in Procs : (pc[p] = Opened /\ torn = {} /\ ~overlap) =>
       Complete(db, cfg[p]) /\ (~uneven => PairOf(db))

\* An interrupted open_db is retried by the next one (the comments at its
\* transactions): alone, on a store no crash left half done, no migration
\* raises, unless it must rebuild vectors of another dimension, or the one that
\* adds embed_model meets a vec_chunks it found behind its vec_docs.
AloneNeverRefused ==
  [][\A p \in Procs :
       Refused(p) =>
         \/ torn # {} \/ overlap
         \/ /\ Head(due[p]).op = "rebuild"
            /\ Misfit(db, Head(due[p]).arg, cfg[p]) \/ (uneven /\ Head(due[p]).arg = "model")
      ]_migrationsVars

-----------------------------------------------------------------------------
(* What the comments of db.py say beyond that, which the code does not keep. *)

\* "Idempotent - checks current state before acting": a crash inside
\* _migrate_to_multi_source loses no doc of a process that opens the store later.
RowsSurviveCrash ==
  \A p \in Procs : (pc[p] = Opened /\ ~overlap) => stored.rows \subseteq db.rows

\* The old vector tables of another dimension keep serving "exactly as
\* before" until the rebuild_vec job: open_db goes through.
AnotherDimensionOpens ==
  [][\A p \in Procs : Refused(p) => torn # {} \/ overlap]_migrationsVars

\* "boot stays fail-open throughout - a partial state just yields empty
\* recall, never a 500": a vec_chunks behind its vec_docs does not stop open_db.
PartialStateOpens ==
  [][\A p \in Procs :
       Refused(p) => \/ torn # {} \/ overlap
                     \/ /\ Head(due[p]).op = "rebuild"
                        /\ Misfit(db, Head(due[p]).arg, cfg[p])]_migrationsVars

\* A process that finished open_db can store a doc: _init_schema or a migration
\* has mended what a killed release left of the vector tables.
OpenMeansPair ==
  \A p \in Procs : (pc[p] = Opened /\ torn = {} /\ ~overlap) => PairOf(db)

\* SSOT after an upgrade, whatever crashed: one live canonical per title.
OneCanonicalAfterCrash ==
  \A p \in Procs : (pc[p] = Opened /\ ~overlap) => Cardinality(db.owned \cap db.live) <= 1

\* The static tables are recreated at the configured dimension, both of them.
StaticPairAgrees ==
  \A p \in Procs : (pc[p] = Opened /\ ~overlap /\ cfg[p].static # 0) =>
    db.staticDocs = db.staticChunks

\* docs_fts holds a doc once, also when two processes filled it.
SearchableOnce == \A d \in Docs : db.fts[d] <= 1

\* "Only from this point on can a LATER runtime embed_model change ever be
\* detected": vectors of another model than the configured one never go
\* unnoticed.
SwapDetected ==
  \A p \in Procs : (pc[p] = Opened /\ torn = {} /\ ~overlap) =>
    ((\E d \in db.rows : db.vecDocs.rows[d] \notin {None, cfg[p].model})
       => Needed(db, cfg[p]))
===============================================================================
