----------------------------- MODULE SyncSource -----------------------------
(***************************************************************************)
(* The connector jobs of one source of files (sync.py, connectors/fs.py).  *)
(* sync_source resumes from the cursor of the last good run, the newest    *)
(* mtime it yielded, replays what that run failed on and applies records   *)
(* through Indexer.reindex_paths(), which reads each file again.           *)
(* gc_source hides the docs whose files are gone and deletes them when     *)
(* their grace window has ended, by the ids it read first.  The Applier    *)
(* runs one job at a time.                                                 *)
(*                                                                         *)
(* Files are edited at any time and another process (`trovex watch',       *)
(* `trovex index') indexes files of the same source.  A file's `ver' is    *)
(* its content, 0 when there is no file; so is a doc's.                    *)
(***************************************************************************)
EXTENDS Naturals, FiniteSets

CONSTANTS
  Paths,
  SyncBatch,      \* SYNC_BATCH, the records per call of the sink
  SafetyPercent,  \* the source's deletion_safety_ratio
  OtherProcess,   \* does another process index the source?
  MaxEdits,       \* bound on the edits of files
  MaxFaults       \* bound on failed reads, failed batches and crashes

ASSUME ConstantsAssumption ==
  /\ Paths # {} /\ IsFiniteSet(Paths)
  /\ SyncBatch \in Nat \ {0}
  /\ SafetyPercent \in 0..100
  /\ OtherProcess \in BOOLEAN
  /\ MaxEdits \in Nat
  /\ MaxFaults \in Nat

VARIABLES
  files, edits,
  clock,      \* the file system's clock; it need not move between two edits
  docs,       \* the source's docs: what they hold, hidden or not, grace over?
  journal,    \* of the last good sync run: its cursor, the ids it failed on
  job,        \* the job under way
  faults,
  edited,     \* history: the paths edited since the job began
  missing,    \* history: the docs without a file at some time since then
  disturbed   \* history: what may have hidden an edit from the cursor

vars == <<files, edits, clock, docs, journal, job, faults,
          edited, missing, disturbed>>

Mtimes == 0..(MaxEdits + 1)
Vers == 0..(MaxEdits + 1)

NoDoc == [ver |-> 0, life |-> "absent", due |-> FALSE]
Doc == [ver : Vers \ {0}, life : {"active", "pending_delete"}, due : BOOLEAN]

Exists(p) == files[p].ver # 0
Stored(p) == docs[p].ver # 0

Idle == [pc |-> "idle", newest |-> 0, todo |-> {}, fresh |-> {},
         batch |-> {}, full |-> {}, failed |-> {}, known |-> {}, hidden |-> {}, due |-> {},
         replaced |-> {}, heir |-> {}, listing |-> {}]

Init ==
  /\ \E S \in SUBSET Paths :   \* the files there are when the source is added
       files = [p \in Paths |-> [ver |-> IF p \in S THEN 1 ELSE 0, mtime |-> 1]]
  /\ edits = 0
  /\ clock = 1
  /\ docs = [p \in Paths |-> NoDoc]
  /\ journal = [cursor |-> 0, retry |-> {}]
  /\ job = Idle
  /\ faults = 0
  /\ edited = {}
  /\ missing = {}
  /\ disturbed = {}

(***************************************************************************)
(* The environment                                                         *)
(***************************************************************************)

\* What the cursor of the running job, or of the last one, may come to be.
CursorReach == {journal.cursor, job.newest} \cup {f[2] : f \in job.fresh}

\* A file is written or removed.  One written in the middle of a walk, or with
\* an mtime that is not above what the cursor reaches, may escape the cursor.
Edit ==
  /\ edits < MaxEdits
  /\ edits' = edits + 1
  /\ clock' \in {clock, clock + 1}
  /\ \E p \in Paths, v \in {0, edits + 2} :
       /\ v # files[p].ver
       /\ files' = [files EXCEPT ![p] = [ver |-> v, mtime |-> clock']]
       /\ edited' = IF job.pc = "idle" THEN {} ELSE edited \cup {p}
       /\ missing' = IF job.pc \in {"list", "apply"} /\ v = 0 /\ Stored(p)
                     THEN missing \cup {p} ELSE missing
       /\ disturbed' = disturbed \cup
            (IF v # 0 /\ (job.pc = "walk" \/ \E m \in CursorReach : clock' <= m)
             THEN {"cursor"} ELSE {})
  /\ UNCHANGED <<docs, journal, job, faults>>

\* What reindex_paths() makes of a path: the file as it is when it is read
\* there, or no doc.  It leaves the lifecycle of a doc alone.
Indexed(p) ==
  IF ~Exists(p) THEN NoDoc
  ELSE IF Stored(p) THEN [docs[p] EXCEPT !.ver = files[p].ver]
  ELSE [ver |-> files[p].ver, life |-> "active", due |-> FALSE]

\* The ids of docs that a collection under way knows and nothing has any more.
FreeIds == {k \in job.replaced : \A e \in job.heir : e[1] # k}

\* What becomes of the ids it knows when p is indexed.  The id of a deleted row is
\* free, and SQLite gives a new row the one after the greatest in use (docs.id is no
\* AUTOINCREMENT): a new doc may be the heir of one the collection knows, or not.
IdsKnown(p) ==
  IF ~Exists(p)
  THEN {[job EXCEPT !.replaced = @ \cup (job.known \cap {p}),
                    !.heir = {e \in @ : e[2] # p}]}
  ELSE IF Stored(p) THEN {job}
  ELSE {job} \cup {[job EXCEPT !.heir = @ \cup {<<k, p>>}] : k \in FreeIds}

\* Another process indexes a path.
OtherIndexes ==
  /\ OtherProcess
  /\ \E p \in Paths :
       /\ Indexed(p) # docs[p]
       /\ docs' = [docs EXCEPT ![p] = Indexed(p)]
       /\ job' \in IdsKnown(p)
  /\ UNCHANGED <<files, edits, clock, journal, faults, edited, missing, disturbed>>

\* hard_delete_grace_days have gone by since the doc was marked.
GraceEnds ==
  /\ \E p \in Paths :
       /\ docs[p].life = "pending_delete" /\ ~docs[p].due
       /\ docs' = [docs EXCEPT ![p].due = TRUE]
  /\ UNCHANGED <<files, edits, clock, journal, job, faults, edited, missing, disturbed>>

(***************************************************************************)
(* run_sync_source()                                                       *)
(***************************************************************************)

BeginJob(j) ==
  /\ job.pc = "idle"
  /\ job' = j
  /\ missing' = {p \in j.known : ~Exists(p)}
  /\ UNCHANGED <<files, edits, clock, docs, journal, faults, edited, disturbed>>

\* It is over, and so are its histories.
EndJob == job' = Idle /\ edited' = {} /\ missing' = {}

SyncBegin ==
  BeginJob([Idle EXCEPT !.pc = "retry", !.newest = journal.cursor,
                        !.todo = journal.retry])

\* The record of p is read, or take() is given a failure; j is the job without p
\* among what it still has to read.  `full' names the record, if any, whose
\* take() has found the batch full and is to flush it.
Taken(p, j) ==
  \/ /\ Exists(p)
     /\ job' = [j EXCEPT !.batch = @ \cup {p},
                         !.full = IF Cardinality(j.batch \cup {p}) >= SyncBatch
                                  THEN {p} ELSE {}]
     /\ UNCHANGED faults
  \/ /\ Exists(p) => faults < MaxFaults
     /\ faults' = IF Exists(p) THEN faults + 1 ELSE faults
     /\ job' = [j EXCEPT !.failed = @ \cup {p}]

\* fetch() of an id the last good run failed on.
Replay(p) ==
  /\ job.pc = "retry" /\ p \in job.todo /\ job.full = {}
  /\ Taken(p, [job EXCEPT !.todo = @ \ {p}])
  /\ UNCHANGED <<files, edits, clock, docs, journal, edited, missing, disturbed>>

\* poll() first walks the tree, file by file.
WalkBegin ==
  /\ job.pc = "retry" /\ job.todo = {} /\ job.full = {}
  /\ job' = [job EXCEPT !.pc = "walk", !.todo = Paths]
  /\ UNCHANGED <<files, edits, clock, docs, journal, faults, edited, missing, disturbed>>

Fresh(p) == IF Exists(p) /\ files[p].mtime > journal.cursor THEN {<<p, files[p].mtime>>} ELSE {}

Walk(p) ==
  /\ job.pc = "walk" /\ p \in job.todo
  /\ job' = [job EXCEPT !.todo = @ \ {p}, !.fresh = @ \cup Fresh(p),
                        !.pc = IF job.todo = {p} THEN "poll" ELSE "walk"]
  /\ UNCHANGED <<files, edits, clock, docs, journal, faults, edited, missing, disturbed>>

\* Then it yields the fresh ones, oldest first.
Poll(f) ==
  /\ job.pc = "poll" /\ f \in job.fresh /\ job.full = {}
  /\ \A g \in job.fresh : f[2] <= g[2]
  /\ Taken(f[1], [job EXCEPT !.fresh = @ \ {f}, !.newest = f[2]])
  /\ UNCHANGED <<files, edits, clock, docs, journal, edited, missing, disturbed>>

FlushDue == job.full # {} \/ (job.pc = "poll" /\ job.fresh = {} /\ job.batch # {})

Applied(S) == [p \in Paths |-> IF p \in S THEN Indexed(p) ELSE docs[p]]

\* The sink.  A file it cannot read after all it passes over in silence.
Flush ==
  /\ FlushDue
  /\ \E S \in SUBSET {p \in job.batch : Exists(p)} :
       /\ faults + Cardinality(S) <= MaxFaults
       /\ faults' = faults + Cardinality(S)
       /\ docs' = Applied(job.batch \ S)
       /\ disturbed' = disturbed \cup (IF S # {} THEN {"sink"} ELSE {})
  /\ job' = [job EXCEPT !.batch = {}, !.full = {}]
  /\ UNCHANGED <<files, edits, clock, journal, edited, missing>>

\* The sink raises: its rows are rolled back, unless the embedder raised, before
\* which they were committed.
SinkRaises ==
  /\ FlushDue
  /\ faults < MaxFaults
  /\ faults' = faults + 1
  /\ docs' \in {docs, Applied(job.batch)}

\* The run is journaled as failed, and is no good run ...
SyncFails ==
  /\ job.pc = "poll"
  /\ SinkRaises
  /\ EndJob
  /\ UNCHANGED <<files, edits, clock, journal, disturbed>>

\* ... except when it is the take() of a replayed record that flushes: then that
\* record failed again, and the batch is kept for the next flush.
ReplayFails ==
  /\ job.pc = "retry"
  /\ SinkRaises
  /\ job' = [job EXCEPT !.full = {}, !.failed = @ \cup job.full]
  /\ UNCHANGED <<files, edits, clock, journal, edited, missing, disturbed>>

\* Mutant: what was ever to be replayed stays to be.
JournaledKeepsRetry == [cursor |-> job.newest, retry |-> journal.retry \cup job.failed]

Journaled == [cursor |-> job.newest, retry |-> job.failed]

SyncDone ==
  /\ job.pc = "poll" /\ job.fresh = {} /\ job.batch = {} /\ job.full = {}
  /\ journal' = Journaled
  /\ EndJob
  /\ UNCHANGED <<files, edits, clock, docs, faults, disturbed>>

(***************************************************************************)
(* run_gc_source()                                                         *)
(***************************************************************************)

\* The docs of the source are read first: their ids, which are hidden, since when ...
GcBegin == BeginJob([Idle EXCEPT !.pc = "list", !.todo = Paths,
                                 !.known = {p \in Paths : Stored(p)},
                                 !.hidden = {p \in Paths : docs[p].life = "pending_delete"},
                                 !.due = {p \in Paths : docs[p].due}])

\* ... then the tree is listed, file by file.
List(p) ==
  /\ job.pc = "list" /\ p \in job.todo
  /\ job' = [job EXCEPT !.todo = @ \ {p},
                        !.listing = IF Exists(p) THEN @ \cup {p} ELSE @]
  /\ UNCHANGED <<files, edits, clock, docs, journal, faults, edited, missing, disturbed>>

TooFew ==
  100 * Cardinality(job.listing \cap job.known) < SafetyPercent * Cardinality(job.known)

GcAbort ==
  /\ job.pc = "list" /\ job.todo = {} /\ TooFew
  /\ EndJob
  /\ UNCHANGED <<files, edits, clock, docs, journal, faults, disturbed>>

\* Mutant: the docs are read after the listing.
KnownNow == {p \in Paths : Stored(p)}

KnownBefore == job.known

\* The grace window is over if it is by now.
GcDecide ==
  /\ job.pc = "list" /\ job.todo = {} /\ ~TooFew
  /\ job' = [job EXCEPT !.pc = "apply", !.todo = KnownBefore,
                        !.due = @ \cup {p \in job.hidden : docs[p].due}]
  /\ UNCHANGED <<files, edits, clock, docs, journal, faults, edited, missing, disturbed>>

Shown(q) == [docs[q] EXCEPT !.life = "active", !.due = FALSE]

Marked(q) == [docs[q] EXCEPT !.life = "pending_delete", !.due = FALSE]

\* What is done to the doc q for what was read of p.
Collected(p, q) ==
  IF p \in job.listing THEN (IF p \in job.hidden THEN Shown(q) ELSE docs[q])
  ELSE IF p \notin job.hidden THEN Marked(q)
  ELSE IF p \in job.due THEN NoDoc ELSE docs[q]

\* The docs, one at most, with the id the collection knows p by.
WithId(p) == IF p \in job.replaced THEN {q \in Paths : <<p, q>> \in job.heir} ELSE {p}

\* One doc, by its id; each is committed on its own (GC_COMMIT_EVERY = 1).
GcItem(p) ==
  /\ job.pc = "apply" /\ p \in job.todo
  /\ job' = [job EXCEPT !.todo = @ \ {p}]
  /\ docs' = [q \in Paths |-> IF q \in WithId(p) THEN Collected(p, q) ELSE docs[q]]
  /\ UNCHANGED <<files, edits, clock, journal, faults, edited, missing, disturbed>>

GcDone ==
  /\ job.pc = "apply" /\ job.todo = {}
  /\ EndJob
  /\ UNCHANGED <<files, edits, clock, docs, journal, faults, disturbed>>

-----------------------------------------------------------------------------
\* The process ends in the middle of a job.
Crash ==
  /\ job.pc # "idle"
  /\ faults < MaxFaults
  /\ faults' = faults + 1
  /\ EndJob
  /\ UNCHANGED <<files, edits, clock, docs, journal, disturbed>>

SyncStep ==
  \/ \E p \in Paths : Replay(p) \/ Walk(p)
  \/ \E f \in job.fresh : Poll(f)
  \/ WalkBegin \/ Flush \/ SyncDone

GcStep == (\E p \in Paths : List(p) \/ GcItem(p)) \/ GcAbort \/ GcDecide \/ GcDone

Next ==
  \/ Edit \/ OtherIndexes \/ GraceEnds
  \/ SyncBegin \/ SyncStep \/ SyncFails \/ ReplayFails
  \/ GcBegin \/ GcStep
  \/ Crash

Spec == Init /\ [][Next]_vars

\* A job that began runs on and the grace window ends; nothing in the program
\* schedules a job (it is POST /api/sources/.. that asks for one).
FairSpec == Spec /\ WF_vars(SyncStep \/ GcStep) /\ WF_vars(GraceEnds)
-----------------------------------------------------------------------------
TypeOK ==
  /\ files \in [Paths -> [ver : Vers, mtime : Mtimes]]
  /\ edits \in 0..MaxEdits
  /\ clock \in Mtimes
  /\ docs \in [Paths -> Doc \cup {NoDoc}]
  /\ journal \in [cursor : Mtimes, retry : SUBSET Paths]
  /\ job \in [pc : {"idle", "retry", "walk", "poll", "list", "apply"},
              newest : Mtimes, todo : SUBSET Paths,
              fresh : SUBSET (Paths \X Mtimes), batch : SUBSET Paths,
              full : SUBSET Paths, failed : SUBSET Paths, known : SUBSET Paths,
              hidden : SUBSET Paths, due : SUBSET Paths, replaced : SUBSET Paths,
              heir : SUBSET (Paths \X Paths), listing : SUBSET Paths]
  /\ faults \in 0..MaxFaults
  /\ edited \in SUBSET Paths
  /\ missing \in SUBSET Paths
  /\ disturbed \in SUBSET {"cursor", "sink"}

InSync(p) == docs[p].ver = files[p].ver

(***************************************************************************)
(* When a sync run is journaled as good, every file that was not edited    *)
(* since it began is indexed as it is, or is among those the next run will *)
(* replay: failures and crashes make it repeat, not skip (sync.py:4-6,     *)
(* 114-115).  Not so once a file was written behind the cursor's back or   *)
(* the sink passed over one.                                               *)
(***************************************************************************)
SyncCovers ==
  [][SyncDone => \A p \in Paths \ edited :
                   Exists(p) => InSync(p) \/ p \in journal'.retry]_vars

SyncCoversUndisturbed ==
  [][SyncDone /\ disturbed = {} =>
       \A p \in Paths \ edited : Exists(p) => InSync(p) \/ p \in journal'.retry]_vars

(***************************************************************************)
(* A doc is deleted by a connector job only after it was hidden for the    *)
(* whole grace window (sync.py:6-8) ...                                    *)
(***************************************************************************)
Deleted(p) == Stored(p) /\ docs'[p].ver = 0

OverdueWhenDeleted(p) == Deleted(p) => docs[p].life = "pending_delete" /\ docs[p].due

ByJob == SyncStep \/ GcStep

DeletedAfterGrace == [][ByJob => \A p \in Paths : OverdueWhenDeleted(p)]_vars

\* The docs that have the id of one that a collection read and that is gone since.
Heirs == {p \in Paths : \E e \in job.heir : e[2] = p}

\* ... if no file vanishes between the reading of its record and the sink's, and
\* the doc has not the id of one the collection knows.
DeletedAfterGraceSettled ==
  [][ByJob => \A p \in Paths :
                (IF job.pc = "apply" THEN p \notin Heirs ELSE p \notin edited)
                  => OverdueWhenDeleted(p)]_vars

(***************************************************************************)
(* A collection takes only docs whose file was missing while they were     *)
(* indexed: "a doc indexed mid-listing can never be classified as gone"    *)
(* (sync.py:167-168) ...                                                   *)
(***************************************************************************)
Worse(p) == Deleted(p) \/ (docs[p].life = "active" /\ docs'[p].life = "pending_delete")

GcSparesIndexed == [][GcStep => \A p \in Paths : Worse(p) => p \in missing]_vars

\* ... or that have, by then, the id of one it read.
GcSparesOthers == [][GcStep => \A p \in Paths : Worse(p) => p \in missing \cup Heirs]_vars

(***************************************************************************)
(* After a collection that was not refused, what it knew is hidden exactly *)
(* if its file is gone, whatever other jobs and crashes left (sync.py:194).*)
(***************************************************************************)
GcSettles ==
  [][GcDone => \A p \in job.known \ edited :
       Stored(p) => (docs[p].life = "active" <=> Exists(p))]_vars

(***************************************************************************)
(* Hidden docs are deleted or come back, if collections go on being asked  *)
(* for (sync.py:8) ...                                                     *)
(***************************************************************************)
Resolves(p) == docs[p].life = "pending_delete" ~> docs[p].life # "pending_delete"

PendingResolves == []<>(job.pc = "list") => \A p \in Paths : Resolves(p)

\* ... unless the safety ratio refuses them for ever.
PendingResolvesUnrefused ==
  []<>(job.pc = "apply") => \A p \in Paths : Resolves(p)

(***************************************************************************)
(* If sync runs go on being asked for, the index comes to agree with every *)
(* file there is and nothing stays to be replayed but what is gone.        *)
(***************************************************************************)
SyncConverges ==
  []<>(job.pc = "walk") /\ [](disturbed = {})
    => <>[](\A p \in Paths : Exists(p) => InSync(p) /\ p \notin journal.retry)

(***************************************************************************)
(* What each job leaves: a sync run skips no record, nothing indexed is    *)
(* collected or deleted before its time but for another's id, and a        *)
(* collection hides exactly what is gone.                                  *)
(***************************************************************************)
JobsKeepTheDocs ==
  /\ []TypeOK
  /\ SyncCoversUndisturbed
  /\ DeletedAfterGraceSettled
  /\ GcSparesOthers
  /\ GcSettles

(***************************************************************************)
(* What repeated jobs come to: nothing stays hidden for ever, and docs and *)
(* files agree.                                                            *)
(***************************************************************************)
SyncSettles == PendingResolvesUnrefused /\ SyncConverges
=============================================================================
