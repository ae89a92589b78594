---------------------------- MODULE MCMigrations ----------------------------
(* Small instances of Migrations: two docs that share a title, two processes, *)
(* and the stores that earlier releases left on disk.                         *)
EXTENDS Migrations, TLC

MCDocs == {1, 2}
MCModels == {"m1", "m2", "m3"}
Symmetric == Permutations(Procs)

Before == ColumnsOf.store_columns \o ColumnsOf.query_session \o ColumnsOf.lifecycle

Blank == [tables |-> {}, cols |-> {}, rows |-> {}, owned |-> {}, topic |-> {},
          live |-> {}, unique |-> FALSE, scratch |-> None, scratchRows |-> {},
          vecDocs |-> NoTable, vecChunks |-> NoTable, chunks |-> {}, tags |-> {},
          fts |-> [d \in Docs |-> 0], staticDocs |-> 0, staticChunks |-> 0, stamp |-> None]

AllOf(m) == [d \in Docs |-> m]
Flat(m) == [layout |-> "flat", dim |-> 1, rows |-> AllOf(m)]

\* Before the sources: file-backed docs, flat vectors, no added column.
Oldest == [Blank EXCEPT !.tables = Tables, !.rows = Docs, !.live = Docs, !.chunks = Docs,
                        !.tags = Docs, !.vecDocs = Flat("m1"), !.vecChunks = Flat("m1")]
\* With owned docs, before their topics: two canonicals of one title.
Owned == [Oldest EXCEPT !.owned = Docs, !.cols = ToSet(Before) \cup {"source_id"}]
\* Every column, no row yet; built for static vectors of dimension 1.
Empty == [Blank EXCEPT !.tables = Tables, !.cols = AllColumns \cup {"source_id"},
                       !.unique = TRUE, !.stamp = "m1", !.staticDocs = 1, !.staticChunks = 1,
                       !.vecDocs = [layout |-> "owner", dim |-> 1, rows |-> NoVec],
                       !.vecChunks = [layout |-> "model", dim |-> 1, rows |-> NoVec]]

\* The oldest, from before the chunks; killed with vec_docs dropped; the same, opened by
\* the release that partitioned vec_docs.
Chunkless == [Oldest EXCEPT !.tables = Tables \ {"chunks"}, !.chunks = {}, !.vecChunks = NoTable]
Halved == [Oldest EXCEPT !.vecDocs = NoTable]
Lagging == [Oldest EXCEPT !.cols = ToSet(Before) \cup {"source_id"},
                          !.vecDocs = [layout |-> "partitioned", dim |-> 1, rows |-> NoVec]]

EveryStore == {Blank, Chunkless, Owned, Empty, Halved, Lagging}

C1 == [dim |-> 1, model |-> "m1", static |-> 0]
C2 == [dim |-> 1, model |-> "m2", static |-> 0]
C3 == [dim |-> 2, model |-> "m3", static |-> 2]
OneConfig == {C1}
ThreeConfigs == {C1, C2, C3}
=============================================================================
