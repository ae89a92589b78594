------------------------------ MODULE Reindex ------------------------------
(***************************************************************************)
(* Indexing one source of files: Indexer.reindex(), the full scan with its *)
(* mtime and content-hash fast paths, and Indexer.reindex_paths(), the     *)
(* scoped pass of the file watcher (indexer.py).  Files are edited at any  *)
(* time, also between two steps of a pass; a pass commits along the way;   *)
(* the embedder fails, and the process crashes.                            *)
(*                                                                         *)
(* A doc's `hash' is the content it was written from, `vec' the content    *)
(* its vector is of, `cvec' the content its chunks' vectors are of,        *)
(* `rated' the content whose own status it has (plan, stale or neither).   *)
(* Its chunk rows are those of `hash': they are written with the row.      *)
(* What one doc owes to others is the graph: the code citations (doc_refs) *)
(* and the duplicate marks (docs.dup_of_id).  Passes do not overlap: the   *)
(* Applier thread is the only one that runs them.                          *)
(***************************************************************************)
EXTENDS Naturals

CONSTANTS
  Paths, Texts,
  NoFile, NoPath,
  FirstFiles,  \* what the files say before the first pass
  Cites,       \* <<text, path>>: the text cites the file at the path
  Near,        \* <<text, text>>: their vectors are within the duplicate threshold
  Withdrawn,   \* the texts whose frontmatter says stale
  Crowded,     \* may 20 nearer rows keep a doc out of a duplicate search?
  MaxFileEdits,    \* bound on the edits of files
  MaxFaults,   \* bound on failures of the embedder and crashes
  PathsPasses  \* does the file watcher run passes?

ASSUME ConstantsAssumption ==
  /\ NoFile \notin Texts
  /\ NoPath \notin Paths
  /\ MaxFileEdits \in Nat
  /\ MaxFaults \in Nat
  /\ PathsPasses \in BOOLEAN
  /\ Crowded \in BOOLEAN
  /\ FirstFiles \in [Paths -> Texts \cup {NoFile}]
  /\ Cites \subseteq Texts \X Paths
  /\ Near \subseteq Texts \X Texts
  /\ \A n \in Near : <<n[2], n[1]>> \in Near
  /\ Withdrawn \subseteq Texts

VARIABLES
  files,      \* the file system: content and mtime
  committed,  \* the docs of the source, on disk
  view,       \* the docs as the indexer's connection sees them
  graph,      \* citations and duplicate marks, as that connection sees them
  graphDisk,  \* the same on disk
  pass,       \* the pass under way
  edits,      \* edits so far; each gives its file a fresh mtime
  faults,     \* failures so far
  edited,     \* history: the paths edited since the pass began
  unseen,     \* history: <<p, q>>: p's citation of q was passed over, q being no doc
  disturbed   \* history: the kinds of pass a file was edited in the middle of,
              \* "rating" if a watcher's pass rated a doc by a text that is
              \* not its own

links == <<graph, graphDisk, unseen>>

vars == <<files, committed, view, links, pass, edits, faults, edited, disturbed>>

File == [content : Texts \cup {NoFile}, mtime : 0..MaxFileEdits]

Doc == [hash : Texts \cup {NoFile}, mtime : 0..MaxFileEdits,
        vec : Texts \cup {NoFile}, cvec : Texts \cup {NoFile},
        rated : Texts \cup {NoFile}]

NoRow == [hash |-> NoFile, mtime |-> 0, vec |-> NoFile, cvec |-> NoFile,
          rated |-> NoFile]

\* `lost' are the citations whose target was deleted (dst_id is NULL).
Graph == [cites : SUBSET (Paths \X Paths), lost : SUBSET (Paths \X Paths),
          dup : [Paths -> Paths \cup {NoPath}]]

Exists(p) == files[p].content # NoFile
Known(rows, p) == rows[p].hash # NoFile

Resting == [pc |-> "idle", kind |-> "none", full |-> FALSE, existing |-> [p \in Paths |-> NoRow],
            todo |-> {}, seen |-> {}, cur |-> NoPath, content |-> NoFile, mtime |-> 0,
            batch |-> {}, touched |-> {}, removed |-> FALSE,
            drivers |-> {}, marked |-> {}]

Init ==
  /\ files = [p \in Paths |-> [content |-> FirstFiles[p], mtime |-> 0]]
  /\ committed = [p \in Paths |-> NoRow]
  /\ view = committed
  /\ graph = [cites |-> {}, lost |-> {}, dup |-> [p \in Paths |-> NoPath]]
  /\ graphDisk = graph
  /\ unseen = {}
  /\ pass = Resting
  /\ edits = 0
  /\ faults = 0
  /\ edited = {}
  /\ disturbed = {}

\* A file is written or removed; its mtime moves on.  (An edit that preserves
\* the mtime is the gap the mtime fast path documents.)
EditFile ==
  /\ edits < MaxFileEdits
  /\ edits' = edits + 1
  /\ \E p \in Paths, c \in Texts \cup {NoFile} :
       /\ c # files[p].content
       /\ files' = [files EXCEPT ![p] = [content |-> c, mtime |-> edits + 1]]
       /\ edited' = edited \cup {p}
  /\ disturbed' = disturbed \cup ({pass.kind} \ {"none"})
  /\ UNCHANGED <<committed, view, links, pass, faults>>
-----------------------------------------------------------------------------
(***************************************************************************)
(* reindex()                                                               *)
(***************************************************************************)

\* The source's docs are loaded once, for the fast paths and the removals.
Begin ==
  /\ pass.pc = "idle"
  /\ edited' = {}
  /\ \E full \in BOOLEAN :
       pass' = [Resting EXCEPT !.pc = "scan", !.kind = "source", !.full = full,
                               !.existing = view, !.todo = Paths]
  /\ UNCHANGED <<files, committed, view, links, edits, faults, disturbed>>

Scanning(kind) == pass.pc = "scan" /\ pass.kind = kind

\* The scan does not come upon the path.
Miss(p) ==
  /\ Scanning("source")
  /\ p \in pass.todo
  /\ ~Exists(p)
  /\ pass' = [pass EXCEPT !.todo = @ \ {p}]
  /\ UNCHANGED <<files, committed, view, links, edits, faults, edited, disturbed>>

\* Mutant: a full pass takes the fast path too.
StatAlwaysFast(p) ==
  LET same == Known(pass.existing, p) /\ pass.existing[p].mtime = files[p].mtime IN
  /\ Scanning("source")
  /\ p \in pass.todo
  /\ Exists(p)
  /\ pass' = IF same
             THEN [pass EXCEPT !.todo = @ \ {p}, !.seen = @ \cup {p}]
             ELSE [pass EXCEPT !.todo = @ \ {p}, !.seen = @ \cup {p}, !.pc = "read",
                               !.cur = p, !.mtime = files[p].mtime]
  /\ UNCHANGED <<files, committed, view, links, edits, faults, edited, disturbed>>

\* stat(), and the mtime fast path ...
Stat(p) ==
  LET same == Known(pass.existing, p) /\ pass.existing[p].mtime = files[p].mtime IN
  /\ Scanning("source")
  /\ p \in pass.todo
  /\ Exists(p)
  /\ pass' = IF same /\ ~pass.full
             THEN [pass EXCEPT !.todo = @ \ {p}, !.seen = @ \cup {p}]
             ELSE [pass EXCEPT !.todo = @ \ {p}, !.seen = @ \cup {p}, !.pc = "read",
                               !.cur = p, !.mtime = files[p].mtime]
  /\ UNCHANGED <<files, committed, view, links, edits, faults, edited, disturbed>>

\* sync_doc_chunks(): chunk rows whose text is there already are kept, with the
\* vectors they have or lack; others are deleted with theirs.
ChunksKept(p, c) == view[p].hash = c

\* The row _upsert_doc() writes, by an UPDATE or an INSERT.
RowOf(p, c, m) == [view[p] EXCEPT !.hash = c, !.mtime = m,
                                  !.cvec = IF ChunksKept(p, c) THEN @ ELSE NoFile]

\* The texts to embed, with the new one of p: the doc's, and its new chunks'.
Queued(p, c) == {b \in pass.batch : b[1] # p} \cup {<<p, c, ~ChunksKept(p, c)>>}

\* _touched_ids, with p.
Touched(p) == pass.touched \cup {p}

RelinkOwn(p) ==   \* mutant: a doc that comes back is not looked for among lost targets
  [graph EXCEPT !.cites = {e \in @ : e[1] # p},
                !.lost = {e \in @ : e[1] # p}]

\* sync_doc_refs(): p's citations go, until they are extracted again, and those
\* that lost p as their target have it back.
Relink(p) ==
  [graph EXCEPT !.cites = {e \in @ : e[1] # p} \cup {e \in graph.lost : e[2] = p /\ e[1] # p},
                !.lost = {e \in @ : p \notin {e[1], e[2]}}]

\* delete_doc_cascade(): the citations of p go, those of others lose their target.
Unlink(p) ==
  [graph EXCEPT !.cites = {e \in @ : p \notin {e[1], e[2]}},
                !.lost = {e \in @ : e[1] # p} \cup {e \in graph.cites : e[2] = p /\ e[1] # p},
                !.dup[p] = NoPath]

\* _upsert_doc()
Upsert(p, c, m) ==
  /\ view' = [view EXCEPT ![p] = RowOf(p, c, m)]
  /\ graph' = Relink(p)
  /\ pass' = [pass EXCEPT !.pc = "scan", !.cur = NoPath, !.content = NoFile, !.mtime = 0,
                          !.batch = Queued(p, c), !.touched = Touched(p)]

\* The content did not change: the row only gets the new mtime.
Refresh(p, m) ==
  /\ view' = IF Known(view, p) THEN [view EXCEPT ![p].mtime = m] ELSE view
  /\ UNCHANGED graph
  /\ pass' = [pass EXCEPT !.pc = "scan", !.cur = NoPath, !.content = NoFile, !.mtime = 0]

\* ... then read() and the content-hash fast path.
Read ==
  LET p == pass.cur
      c == files[p].content
  IN /\ pass.pc = "read"
     /\ pass.kind = "source"
     /\ IF ~Exists(p)
        THEN /\ pass' = [pass EXCEPT !.pc = "scan", !.cur = NoPath, !.mtime = 0]
             /\ UNCHANGED <<view, graph>>
        ELSE IF pass.existing[p].hash = c /\ ~pass.full
             THEN Refresh(p, pass.mtime)
             ELSE Upsert(p, c, pass.mtime)
     /\ UNCHANGED <<files, committed, graphDisk, unseen, edits, faults, edited, disturbed>>

VanishedOnlyIfFull ==   \* mutant: an incremental pass removes nothing
  {p \in Paths : pass.full /\ Known(pass.existing, p) /\ p \notin pass.seen /\ Known(view, p)}

\* Docs of the source the scan did not see are deleted.
Vanished == {p \in Paths : Known(pass.existing, p) /\ p \notin pass.seen /\ Known(view, p)}

RemoveVanished ==
  /\ Scanning("source")
  /\ pass.todo = {}
  /\ \E p \in Vanished :
       /\ view' = [view EXCEPT ![p] = NoRow]
       /\ graph' = Unlink(p)
  /\ pass' = [pass EXCEPT !.removed = TRUE]
  /\ UNCHANGED <<files, committed, graphDisk, unseen, edits, faults, edited, disturbed>>

\* _commit_progress(), when a batch is full or has been pending for a second:
\* what is queued was flushed first.
CommitProgress ==
  /\ Scanning("source")
  /\ pass.batch = {}
  /\ <<committed, graphDisk>> # <<view, graph>>
  /\ committed' = view /\ graphDisk' = graph
  /\ UNCHANGED <<files, view, graph, unseen, pass, edits, faults, edited, disturbed>>
-----------------------------------------------------------------------------
(***************************************************************************)
(* reindex_paths(): no mtime fast path, and the file is read before it is  *)
(* stat()ed.                                                               *)
(***************************************************************************)

BeginPaths ==
  /\ PathsPasses
  /\ pass.pc = "idle"
  /\ edited' = {}
  /\ \E S \in (SUBSET Paths) \ {{}} :
       pass' = [Resting EXCEPT !.pc = "scan", !.kind = "paths", !.todo = S]
  /\ UNCHANGED <<files, committed, view, links, edits, faults, disturbed>>

\* Gone, or not indexable any more.
Prune(p) ==
  /\ Scanning("paths")
  /\ p \in pass.todo
  /\ ~Exists(p)
  /\ view' = [view EXCEPT ![p] = NoRow]
  /\ graph' = Unlink(p)
  /\ pass' = [pass EXCEPT !.todo = @ \ {p}, !.removed = @ \/ Known(view, p)]
  /\ UNCHANGED <<files, committed, graphDisk, unseen, edits, faults, edited, disturbed>>

ReadFirst(p) ==
  /\ Scanning("paths")
  /\ p \in pass.todo
  /\ Exists(p)
  /\ pass' = [pass EXCEPT !.todo = @ \ {p}, !.pc = "read", !.cur = p,
                          !.content = files[p].content]
  /\ UNCHANGED <<files, committed, view, links, edits, faults, edited, disturbed>>

StatAfter ==
  LET p == pass.cur IN
  /\ pass.pc = "read"
  /\ pass.kind = "paths"
  /\ IF ~Exists(p)
     THEN /\ pass' = [pass EXCEPT !.pc = "scan", !.cur = NoPath, !.content = NoFile]
          /\ UNCHANGED <<view, graph>>
     ELSE IF view[p].hash = pass.content
          THEN Refresh(p, files[p].mtime)
          ELSE Upsert(p, pass.content, files[p].mtime)
  /\ UNCHANGED <<files, committed, graphDisk, unseen, edits, faults, edited, disturbed>>
-----------------------------------------------------------------------------
(***************************************************************************)
(* Both.                                                                   *)
(***************************************************************************)

\* _flush_embeddings(): embeddings that are not in the cache are computed with
\* no transaction open, so what was written so far is committed first.  A flush
\* may come at any point of the scan: the batch is full, or time is up.
FlushBegin ==
  /\ pass.pc = "scan"
  /\ pass.batch # {}
  /\ \/ committed' = view /\ graphDisk' = graph
     \/ UNCHANGED <<committed, graphDisk>>
  /\ pass' = [pass EXCEPT !.pc = "embed"]
  /\ UNCHANGED <<files, view, graph, unseen, edits, faults, edited, disturbed>>

\* The docs' vectors, then the chunks', are stored: nothing for a doc that is gone.
DocVecs(rows) ==
  [p \in Paths |->
     IF Known(rows, p) /\ \E b \in pass.batch : b[1] = p
     THEN [rows[p] EXCEPT !.vec = (CHOOSE b \in pass.batch : b[1] = p)[2]] ELSE rows[p]]

ChunkVecs(rows) ==
  [p \in Paths |->
     IF Known(rows, p) /\ \E b \in pass.batch : b[1] = p /\ b[3]
     THEN [rows[p] EXCEPT !.cvec = (CHOOSE b \in pass.batch : b[1] = p)[2]] ELSE rows[p]]

Flush ==
  /\ pass.pc = "embed"
  /\ view' = ChunkVecs(DocVecs(view))
  /\ pass' = [pass EXCEPT !.pc = "scan", !.batch = {}]
  /\ UNCHANGED <<files, committed, links, edits, faults, edited, disturbed>>

\* What is on disk when a pass ends early.  The docs' vectors are committed
\* before chunks are embedded that are not in the cache.
Left ==
  IF pass.pc = "embed" THEN {<<committed, graphDisk>>, <<DocVecs(view), graph>>}
                       ELSE {<<committed, graphDisk>>}

\* A pass ends early, and the connection is where the disk is.
Abort ==
  /\ faults < MaxFaults
  /\ faults' = faults + 1
  /\ \E l \in Left : committed' = l[1] /\ graphDisk' = l[2]
  /\ view' = committed'
  /\ graph' = graphDisk'
  /\ pass' = Resting
  /\ UNCHANGED <<files, unseen, edits, edited, disturbed>>

\* The embedder raises: _rollback_on_error.
EmbedFails == pass.pc = "embed" /\ Abort

\* The files are scanned, and what they were written from is embedded.
ScanDone ==
  /\ pass.pc = "scan"
  /\ pass.todo = {}
  /\ pass.kind = "source" => Vanished = {}
  /\ pass.batch = {}

\* _sync_code_graph(): the citations of the docs this pass touched, each of a file
\* that is a doc by now.  It reads the files again, so it may come upon a newer
\* content, or none.
Extracted == {e \in pass.touched \X Paths : <<files[e[1]].content, e[2]>> \in Cites}

SyncCodeGraph ==
  /\ ScanDone
  /\ graph' = [graph EXCEPT !.cites = {e \in @ : e[1] \notin pass.touched}
                                       \cup {e \in Extracted : Known(view, e[2])},
                            !.lost = {e \in @ : e[1] \notin pass.touched}]
  /\ unseen' = {e \in unseen : e[1] \notin pass.touched}
               \cup {e \in Extracted : ~Known(view, e[2])}
  /\ pass' = [pass EXCEPT !.pc = "graph"]
  /\ UNCHANGED <<files, committed, view, graphDisk, edits, faults, edited, disturbed>>

\* The docs compute_status() is about: all of them after a removal, else those
\* this pass touched.
ToRate == {p \in Paths : Known(view, p) /\ (p \in pass.touched \/ pass.removed)}

\* It makes them canonical first, and commits ...
ResetStatus ==
  /\ pass.pc = "graph"
  /\ pass.touched # {} \/ pass.removed
  /\ view' = [p \in Paths |-> IF p \in ToRate THEN [view[p] EXCEPT !.rated = NoFile]
                                              ELSE view[p]]
  /\ graph' = [graph EXCEPT !.dup = [p \in Paths |-> IF p \in ToRate THEN NoPath ELSE @[p]]]
  /\ committed' = view' /\ graphDisk' = graph'
  /\ pass' = [pass EXCEPT !.pc = "rate"]
  /\ UNCHANGED <<files, unseen, edits, faults, edited, disturbed>>

\* A watcher's pass rates a doc by a file that was edited since it was indexed.
Misrated == pass.kind = "paths" /\ \E p \in ToRate : files[p].content # view[p].hash

\* ... then reads the head of each file (pass 1), and commits.  The docs that are
\* not stale are the drivers of pass 2.
Rate ==
  /\ pass.pc = "rate"
  /\ view' = [p \in Paths |-> IF p \in ToRate THEN [view[p] EXCEPT !.rated = files[p].content]
                                              ELSE view[p]]
  /\ committed' = view' /\ graphDisk' = graph
  /\ pass' = [pass EXCEPT !.pc = "pair",
                          !.drivers = {p \in ToRate : files[p].content \notin Withdrawn}]
  /\ disturbed' = IF Misrated THEN disturbed \cup {"rating"} ELSE disturbed
  /\ UNCHANGED <<files, graph, unseen, edits, faults, edited>>

\* A canonical or plan doc.
Live(p) == Known(view, p) /\ view[p].rated \notin Withdrawn /\ graph.dup[p] = NoPath

Alike(p, q) == <<view[p].vec, view[q].vec>> \in Near

\* Whom a driver may be a duplicate of, or may make one.
Neighbours(p) == {q \in Paths \ {p} : Live(q) /\ Alike(p, q)}

\* Of a driver and its neighbour: the older becomes a duplicate of the newer.
Older(p, q) == IF view[p].mtime >= view[q].mtime THEN q ELSE p
Newer(p, q) == IF view[p].mtime >= view[q].mtime THEN p ELSE q


\* _detect_duplicates(), for one driver: it marks once, itself or its nearest
\* neighbour.  Marks are committed in batches.
Pair(p) ==
  /\ pass.pc = "pair"
  /\ p \in pass.drivers
  /\ \/ /\ p \in pass.marked \/ Neighbours(p) = {} \/ Crowded
        /\ pass' = [pass EXCEPT !.drivers = @ \ {p}]
        /\ UNCHANGED graph
     \/ /\ p \notin pass.marked
        /\ \E q \in Neighbours(p) :
             /\ graph' = [graph EXCEPT !.dup[Older(p, q)] = Newer(p, q)]
             /\ pass' = [pass EXCEPT !.drivers = @ \ {p}, !.marked = @ \cup {Older(p, q)}]
  /\ graphDisk' \in {graphDisk, graph'}
  /\ UNCHANGED <<files, committed, view, unseen, edits, faults, edited, disturbed>>

\* The run's row and the last commit.
EndPass ==
  /\ \/ pass.pc = "pair" /\ pass.drivers = {}
     \/ pass.pc = "graph" /\ pass.touched = {} /\ ~pass.removed
  /\ committed' = view /\ graphDisk' = graph
  /\ pass' = Resting
  /\ UNCHANGED <<files, view, graph, unseen, edits, faults, edited, disturbed>>

Crash == pass.pc # "idle" /\ Abort

PassStep ==
  \/ \E p \in Paths : Miss(p) \/ Stat(p) \/ Prune(p) \/ ReadFirst(p) \/ Pair(p)
  \/ Read \/ RemoveVanished \/ StatAfter \/ FlushBegin \/ Flush
  \/ SyncCodeGraph \/ ResetStatus \/ Rate \/ EndPass

Next == EditFile \/ Begin \/ BeginPaths \/ PassStep \/ CommitProgress \/ EmbedFails \/ Crash

Spec == Init /\ [][Next]_vars

\* A pass that began runs on, in the Applier's thread.  Nothing in the program
\* schedules a scan, so that one is begun is no fairness (see Converges).
FairSpec == Spec /\ WF_vars(PassStep)
-----------------------------------------------------------------------------
RowsTypeOK ==
  /\ files \in [Paths -> File]
  /\ committed \in [Paths -> Doc]
  /\ view \in [Paths -> Doc]
  /\ pass \in [pc : {"idle", "scan", "read", "embed", "graph", "rate", "pair"},
               kind : {"none", "source", "paths"},
               full : BOOLEAN, existing : [Paths -> Doc], todo : SUBSET Paths,
               seen : SUBSET Paths, cur : Paths \cup {NoPath},
               content : Texts \cup {NoFile}, mtime : 0..MaxFileEdits,
               batch : SUBSET (Paths \X Texts \X BOOLEAN), touched : SUBSET Paths,
               removed : BOOLEAN, drivers : SUBSET Paths, marked : SUBSET Paths]
  /\ edits \in 0..MaxFileEdits
  /\ faults \in 0..MaxFaults
  /\ edited \subseteq Paths
  /\ disturbed \subseteq {"source", "paths", "rating"}

LinksTypeOK ==
  /\ graph \in Graph
  /\ graphDisk \in Graph
  /\ unseen \subseteq Paths \X Paths

TypeOK == RowsTypeOK /\ LinksTypeOK

\* A pass over the source completes in this step.
Completes == pass.pc # "idle" /\ pass.kind = "source" /\ pass'.pc = "idle" /\ faults' = faults

\* The paths it has to answer for.
Settled == Paths \ edited

\* What a completed pass over the source is to leave behind.
SaysFile(p) == committed[p].hash = files[p].content
DocEmbedded(p) == committed[p].vec = committed[p].hash
ChunksEmbedded(p) == committed[p].cvec = committed[p].hash
Embedded(p) == DocEmbedded(p) /\ ChunksEmbedded(p)
Rated(p) == committed[p].rated = committed[p].hash

\* The docs p's text cites, and those its citations are of.
CitedDocs(p) == {q \in Paths : Known(committed, q) /\ <<committed[p].hash, q>> \in Cites}
Citations(p) == {q \in Paths : <<p, q>> \in graphDisk.cites}
PassedOver(p) == {q \in Paths : <<p, q>> \in unseen}

Cited(p) == Citations(p) = CitedDocs(p)
CitedInTime(p) == Citations(p) \subseteq CitedDocs(p) /\ CitedDocs(p) \subseteq Citations(p) \cup PassedOver(p)

(***************************************************************************)
(* After a pass over the source, the docs of the files nobody edited       *)
(* meanwhile are exactly those files, whatever failed before: none is      *)
(* missing and no ghost of a deleted one is left.  Until a file is edited  *)
(* in the middle of a watcher's pass, each says what its file says:        *)
(* trusting the mtime to prove that nothing changed loses no edit that     *)
(* moves it (indexer.py:340-346).                                          *)
(***************************************************************************)
CompletedPassIndexes ==
  [][Completes => \A p \in Settled :
       /\ Known(committed', p) <=> Exists(p)
       /\ "paths" \notin disturbed' => SaysFile(p)']_vars

(***************************************************************************)
(* Until a pass fails, each has the vectors of what it says and, when no   *)
(* file is edited in the middle of a pass, the citations of what it says   *)
(* and the status its own text gives it, although a pass extracts and      *)
(* rates only what it touched.  A citation is of a doc the text cites, and *)
(* is there unless its target was no doc when the text was extracted and   *)
(* became one in a later pass; one whose target was deleted comes back     *)
(* with it.  The status is so until a watcher's pass that removed a file   *)
(* rates all docs, and with them one whose file has an edit it does not    *)
(* index: when that edit is taken back, the next pass finds the text       *)
(* unchanged.                                                              *)
(***************************************************************************)
CompletedPassDerives ==
  [][Completes /\ faults = 0 => \A p \in Settled :
       /\ Embedded(p)'
       /\ disturbed' \subseteq {"rating"} => CitedInTime(p)'
       /\ disturbed' = {} => Rated(p)']_vars

\* p is marked as a duplicate, rightly: of a doc near it that is not older.
MarkedRightly(p) ==
  LET n == graph.dup[p]
  IN n \in Paths \ {p} => Alike(p, n) /\ view[n].mtime >= view[p].mtime

\* p kept its place: no other live doc is near, or it took a duplicate.
Unrivalled(p) ==
  Neighbours(p) = {} \/ \E q \in pass.marked : graph.dup[q] = p

(***************************************************************************)
(* Of the docs a pass of either kind rated, it leaves none with the mark   *)
(* an earlier one gave it: each is marked because of a doc that is near    *)
(* and not older, or it is live and alone among the docs near it, or it    *)
(* was the reason one of them is marked (status.py:276-337).  A doc it did *)
(* not rate is marked for such a reason too.                               *)
(***************************************************************************)
DuplicatesAreMarked ==
  [][pass.pc = "pair" /\ pass'.pc = "idle" /\ faults' = faults =>
       /\ \A p \in ToRate \cup pass.marked : MarkedRightly(p)'
       /\ ~Crowded => \A p \in ToRate : Live(p) => Unrivalled(p)]_vars

\* Without these conditions, as the code's comments have it:
\* the mtime fast path misses only edits that preserve it (indexer.py:325-327);
CompletedPassReads == [][Completes => \A p \in Settled : SaysFile(p)']_vars

\* "a doc row committed here is never left un-embedded" (indexer.py:847-849);
CompletedPassEmbeds == [][Completes => \A p \in Settled : Embedded(p)']_vars

\* "An untouched doc's status is left exactly as-is: correct" (status.py:51-56),
\* the one its text gives it -
CompletedPassRates ==
  [][Completes /\ disturbed' = {} => \A p \in Settled : Rated(p)']_vars

\* - and its mark as a duplicate, although the doc it is one of was rewritten;
CompletedPassPairs ==
  [][Completes /\ faults = 0 /\ disturbed' = {} => \A p \in Settled : MarkedRightly(p)']_vars

\* "a doc that cites a source file ... gets a typed edge" (code_refs.py:3-5).
CompletedPassCites ==
  [][Completes /\ faults = 0 /\ disturbed' = {} => \A p \in Settled : Cited(p)']_vars

\* A pass ends without having rewritten p, whose status was right as it began.
LeavesAlone(p) ==
  /\ pass.kind = "source" /\ pass'.pc = "idle"
  /\ p \notin pass.touched
  /\ p \in Settled
  /\ Known(committed', p)
  /\ pass.existing[p].rated = pass.existing[p].hash

(***************************************************************************)
(* When no file is edited in the middle of a pass, a pass over the source  *)
(* takes from no doc it did not rewrite the status its text gave it,       *)
(* whatever becomes of the pass: "committing now never leaves a doc        *)
(* half-updated" (status.py:151-155).  It is so until a pass fails, and    *)
(* until then only an edit in the middle of a watcher's pass can break it. *)
(***************************************************************************)
StatusKept ==
  [][disturbed' = {} => \A p \in Paths : LeavesAlone(p) => Rated(p)']_vars

StatusKeptUnfailed ==
  [][faults' = 0 /\ "paths" \notin disturbed' =>
       \A p \in Paths : LeavesAlone(p) => Rated(p)']_vars

(***************************************************************************)
(* A full pass puts right what earlier passes, failures and crashes left   *)
(* behind (indexer.py:256-259): text, doc vectors, the status of the text  *)
(* and the citations, also those whose target appeared since -             *)
(***************************************************************************)
FullPassRepairs ==
  [][Completes /\ pass.full =>
       \A p \in Settled : (SaysFile(p) /\ DocEmbedded(p) /\ Rated(p) /\ Cited(p))']_vars

\* - and not the chunks' vectors, although it "re-embeds every doc
\* unconditionally".
FullPassEmbeds == [][Completes /\ pass.full => \A p \in Settled : Embedded(p)']_vars

(***************************************************************************)
(* When edits end and scans go on being asked for (POST /api/reindex,      *)
(* trovex index), the index comes to agree with the files, in text and in  *)
(* vectors, and stays so - unless a pass failed, or a file was edited in   *)
(* the middle of a watcher's pass.                                         *)
(***************************************************************************)
Converges ==
  /\ []<>(pass.kind = "source")
  /\ [](faults = 0 /\ "paths" \notin disturbed)
  => <>[](\A p \in Paths : SaysFile(p) /\ Embedded(p))

(***************************************************************************)
(* What a pass owes at its end and on its way: rows for exactly the files  *)
(* there are; what is derived from them, until a pass fails; duplicate     *)
(* marks that are right and none missed among the docs it rated; and no    *)
(* status lost by a doc it did not rewrite.                                *)
(***************************************************************************)
PassKeepsTheIndex ==
  /\ []TypeOK
  /\ CompletedPassIndexes
  /\ CompletedPassDerives
  /\ DuplicatesAreMarked
  /\ StatusKeptUnfailed
=============================================================================
