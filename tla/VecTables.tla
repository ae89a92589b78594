----------------------------- MODULE VecTables -----------------------------
(***************************************************************************)
(* vec_docs and vec_chunks, the vector tables a search runs on (db.py).    *)
(* Each row is a copy: of the text of a doc or chunk, under some embedding *)
(* model, and of the doc's status and lifecycle, which filter the search.  *)
(* Nothing ties it to its original but the writers: the store's writes,    *)
(* which bring it along in their transaction; the bulk status updates of   *)
(* compute_status() and the sweeps, which reconcile it afterwards; and     *)
(* rebuild_vec_shadow(), which replaces both tables after a change of the  *)
(* embedding model, by rows it has read long before.                       *)
(*                                                                         *)
(* The docs are owned ones, each with one chunk.  The server has started   *)
(* with a new model, so writers embed with it; `meta' is what the filters  *)
(* see of a doc's status, lifecycle and kind.                              *)
(***************************************************************************)
EXTENDS Naturals

CONSTANTS
  MaxDocs,    \* the greatest id of a doc
  SameDim,    \* does the new model have the dimension of the old one?
  MaxWrites,  \* bound on writes of docs
  MaxFaults   \* bound on rebuilds and reconciliations that end early

ASSUME ConstantsAssumption ==
  /\ MaxDocs \in Nat \ {0}
  /\ SameDim \in BOOLEAN
  /\ MaxWrites \in Nat
  /\ MaxFaults \in Nat

VARIABLES
  docs,        \* by id
  vecDocs,     \* by doc id
  vecChunks,   \* by chunk id
  stamp,       \* store_meta['embed_model']
  rebuild,     \* the rebuild_vec job
  recon,       \* a status pass or sweep
  writes, faults,
  written,     \* history: docs written since the rebuild read the doc rows
  relabelled,  \* history: docs with another meta since then
  moved,       \* history: docs another writer touched since recon's SELECT
  disturbed    \* history: what may have left a doc without its vectors

vars == <<docs, vecDocs, vecChunks, stamp, rebuild, recon, writes, faults,
          written, relabelled, moved, disturbed>>

Ids == 1..MaxDocs
ChunkIds == 1..(MaxDocs + MaxWrites)
Bodies == 1..(MaxDocs + MaxWrites)
Metas == {"shown", "hidden"}
Models == {"old", "new"}

\* `only': its kind is store-only, found by words and not by vectors.  Its
\* content_hash is empty then.
Doc == [body : Bodies, meta : Metas, only : BOOLEAN, chunk : ChunkIds]
NoDoc == [body |-> 0, meta |-> "none", only |-> FALSE, chunk |-> 0]

Vec == [body : Bodies, meta : Metas, model : Models]
NoVec == [body |-> 0, meta |-> "none", model |-> "none"]

Present(d) == docs[d] # NoDoc
Chunks == {docs[d].chunk : d \in {e \in Ids : Present(e)}}

\* SQLite gives the next greater rowid; a doc's new chunk rows are inserted
\* before its old ones are deleted.
NextId == CHOOSE d \in 1..(MaxDocs + 1) :
            /\ \A e \in Ids : Present(e) => e < d
            /\ d = 1 \/ Present(d - 1)
NextChunk == CHOOSE c \in 1..(MaxDocs + MaxWrites + 1) :
               /\ \A b \in Chunks : b < c
               /\ c = 1 \/ c - 1 \in Chunks

NotRebuilding(pc) ==
  [pc |-> pc, rows |-> [d \in Ids |-> NoDoc], chunks |-> [c \in ChunkIds |-> NoVec]]

Resting == [pc |-> "idle", todo |-> {}, cur |-> 0, held |-> "none"]

\* A store indexed under the old model, and the job the start-up check enqueued.
Init ==
  /\ \E n \in Ids, only \in [Ids -> BOOLEAN] :
       /\ docs = [d \in Ids |-> IF d > n THEN NoDoc
                  ELSE [body |-> d, meta |-> "shown", only |-> only[d], chunk |-> d]]
       /\ vecDocs = [d \in Ids |-> IF d > n \/ only[d] THEN NoVec
                     ELSE [body |-> d, meta |-> "shown", model |-> "old"]]
  /\ vecChunks = [c \in ChunkIds |-> IF c \in Ids THEN vecDocs[c] ELSE NoVec]
  /\ stamp = "old"
  /\ rebuild = NotRebuilding("queued")
  /\ recon = Resting
  /\ writes = 0
  /\ faults = 0
  /\ written = {} /\ relabelled = {} /\ moved = {} /\ disturbed = {}

Write == writes < MaxWrites /\ writes' = writes + 1

\* vec_sync_meta(): the rows a doc has in the vector tables get its meta.
Labelled(v, m) == IF v = NoVec THEN NoVec ELSE [v EXCEPT !.meta = m]
-----------------------------------------------------------------------------
(***************************************************************************)
(* The store's writes: each is one transaction.                            *)
(***************************************************************************)

\* A vector of another dimension cannot be inserted: the put raises.
CanEmbed == SameDim \/ stamp = "new"

Embedding(b, m) == [body |-> b, meta |-> m, model |-> "new"]

PutNew ==
  /\ Write
  /\ NextId \in Ids
  /\ \E only \in BOOLEAN :
       LET b == MaxDocs + writes + 1
           v == IF only THEN NoVec ELSE Embedding(b, "shown")
       IN /\ only \/ CanEmbed
          /\ docs' = [docs EXCEPT ![NextId] =
                        [body |-> b, meta |-> "shown", only |-> only, chunk |-> NextChunk]]
          /\ vecDocs' = [vecDocs EXCEPT ![NextId] = v]
          /\ vecChunks' = [vecChunks EXCEPT ![NextChunk] = v]
  /\ written' = written \cup {NextId}
  /\ relabelled' = relabelled \cup {NextId}
  /\ moved' = moved \cup {NextId}
  /\ UNCHANGED <<stamp, rebuild, recon, faults, disturbed>>

\* Mutant: the vectors of a doc that becomes store-only stay.
RewrittenKeepsVectors(d, only, m) ==
  /\ docs' = [docs EXCEPT ![d].meta = m, ![d].only = only]
  /\ vecDocs' = [vecDocs EXCEPT ![d] = Labelled(@, m)]
  /\ vecChunks' = [vecChunks EXCEPT ![docs[d].chunk] = Labelled(@, m)]

\* The content_unchanged path: nothing is embedded.
Rewritten(d, only, m) ==
  /\ docs' = [docs EXCEPT ![d].meta = m, ![d].only = only]
  /\ vecDocs' = [vecDocs EXCEPT ![d] = IF only THEN NoVec ELSE Labelled(@, m)]
  /\ vecChunks' = [vecChunks EXCEPT ![docs[d].chunk] =
                     IF only THEN NoVec ELSE Labelled(@, m)]

\* The other one: sync_doc_chunks() keeps a chunk row whose text is there
\* already, and then has nothing to embed for it.
Replaced(d, b, only, m) ==
  LET kept == docs[d].body = b
      v == IF only THEN NoVec ELSE Embedding(b, m)
      c == IF kept THEN docs[d].chunk ELSE NextChunk
  IN /\ only \/ CanEmbed
     /\ docs' = [docs EXCEPT ![d] = [body |-> b, meta |-> m, only |-> only, chunk |-> c]]
     /\ vecDocs' = [vecDocs EXCEPT ![d] = v]
     /\ vecChunks' =
          IF kept
          THEN [vecChunks EXCEPT ![c] = IF only THEN NoVec ELSE Labelled(@, m)]
          ELSE [vecChunks EXCEPT ![docs[d].chunk] = NoVec, ![c] = v]

\* put() on a doc there is, with a new text or the one it has.  It makes the doc
\* active and leaves its status alone.
Put(d) ==
  /\ Write
  /\ Present(d)
  /\ \E b \in {MaxDocs + writes + 1, docs[d].body}, only \in BOOLEAN,
        m \in {"shown", docs[d].meta} :
       /\ IF b = docs[d].body /\ ~docs[d].only
          THEN Rewritten(d, only, m)
          ELSE Replaced(d, b, only, m)
       /\ disturbed' = disturbed \cup
            (IF b = docs[d].body /\ docs[d].only /\ ~only THEN {"flip"} ELSE {})
  /\ written' = written \cup {d}
  /\ relabelled' = relabelled \cup {d}
  /\ moved' = moved \cup {d}
  /\ UNCHANGED <<stamp, rebuild, recon, faults>>

\* set_lifecycle(), set_tags(), a supersession.
SetMeta(d) ==
  /\ Write
  /\ Present(d)
  /\ \E m \in Metas \ {docs[d].meta} :
       /\ docs' = [docs EXCEPT ![d].meta = m]
       /\ vecDocs' = [vecDocs EXCEPT ![d] = Labelled(@, m)]
       /\ vecChunks' = [vecChunks EXCEPT ![docs[d].chunk] = Labelled(@, m)]
  /\ relabelled' = relabelled \cup {d}
  /\ moved' = moved \cup {d}
  /\ UNCHANGED <<stamp, rebuild, recon, faults, written, disturbed>>

\* delete_doc_cascade()
Delete(d) ==
  /\ Write
  /\ Present(d)
  /\ docs' = [docs EXCEPT ![d] = NoDoc]
  /\ vecDocs' = [vecDocs EXCEPT ![d] = NoVec]
  /\ vecChunks' = [vecChunks EXCEPT ![docs[d].chunk] = NoVec]
  /\ written' = written \cup {d}
  /\ moved' = moved \cup {d}
  /\ UNCHANGED <<stamp, rebuild, recon, faults, relabelled, disturbed>>
-----------------------------------------------------------------------------
(***************************************************************************)
(* compute_status(), sweep_bloat(), sweep_retention(): a bulk update of    *)
(* the docs, committed, and reconcile_vec_meta().  On a connection, or in  *)
(* a process, other than the store's (`trovex status', `trovex sweep').    *)
(***************************************************************************)

Mark(d) ==
  /\ recon.pc \in {"idle", "mark"}
  /\ Write
  /\ Present(d)
  /\ \E m \in Metas \ {docs[d].meta} : docs' = [docs EXCEPT ![d].meta = m]
  /\ recon' = [recon EXCEPT !.pc = "mark"]
  /\ relabelled' = relabelled \cup {d}
  /\ UNCHANGED <<vecDocs, vecChunks, stamp, rebuild, faults, written, moved, disturbed>>

\* Mutant: rows whose filters let them through are taken to be right.
MismatchedHidden ==
  {d \in Ids : Present(d) /\ vecDocs[d].meta = "hidden" /\ docs[d].meta = "shown"}

\* The docs that differ from their row in vec_docs.
Mismatched ==
  {d \in Ids : Present(d) /\ vecDocs[d] # NoVec /\ vecDocs[d].meta # docs[d].meta}

ReconSelect ==
  /\ recon.pc \in {"idle", "mark"}
  /\ recon' = [recon EXCEPT !.pc = "sync", !.todo = Mismatched]
  /\ moved' = {}
  /\ UNCHANGED <<docs, vecDocs, vecChunks, stamp, rebuild, writes, faults,
                 written, relabelled, disturbed>>

\* After a commit, vec_sync_meta() reads the doc in autocommit ...
ReconRead(d) ==
  /\ recon.pc = "sync" /\ recon.cur = 0
  /\ d \in recon.todo
  /\ recon' = IF Present(d) THEN [recon EXCEPT !.cur = d, !.held = docs[d].meta]
              ELSE [recon EXCEPT !.todo = @ \ {d}]
  /\ UNCHANGED <<docs, vecDocs, vecChunks, stamp, rebuild, writes, faults,
                 written, relabelled, moved, disturbed>>

\* ... and its UPDATE opens the transaction, which further docs may be part of.
ReconWrite ==
  LET c == recon.cur
      Meta(d) == IF d = c THEN recon.held ELSE docs[d].meta
  IN /\ recon.pc = "sync" /\ c # 0
     /\ \E B \in SUBSET (recon.todo \ {c}) :
          LET S == {d \in B \cup {c} : Present(d)} IN
          /\ vecDocs' = [d \in Ids |->
               IF d \in S \cup {c} THEN Labelled(vecDocs[d], Meta(d)) ELSE vecDocs[d]]
          /\ vecChunks' = [k \in ChunkIds |->
               IF \E d \in S : docs[d].chunk = k
               THEN Labelled(vecChunks[k], Meta(CHOOSE d \in S : docs[d].chunk = k))
               ELSE vecChunks[k]]
          /\ recon' = [recon EXCEPT !.cur = 0, !.held = "none",
                                    !.todo = @ \ (B \cup {c})]
     /\ UNCHANGED <<docs, stamp, rebuild, writes, faults,
                    written, relabelled, moved, disturbed>>

ReconDone ==
  /\ recon.pc = "sync" /\ recon.todo = {}
  /\ recon' = Resting
  /\ UNCHANGED <<docs, vecDocs, vecChunks, stamp, rebuild, writes, faults,
                 written, relabelled, moved, disturbed>>

ReconCrash ==
  /\ recon.pc # "idle"
  /\ faults < MaxFaults
  /\ faults' = faults + 1
  /\ recon' = Resting
  /\ UNCHANGED <<docs, vecDocs, vecChunks, stamp, rebuild, writes,
                 written, relabelled, moved, disturbed>>
-----------------------------------------------------------------------------
(***************************************************************************)
(* rebuild_vec_shadow(), a job of the Applier.                             *)
(***************************************************************************)

\* The doc rows are read once, and staged batch by batch ...
RebuildDocs ==
  /\ rebuild.pc = "queued"
  /\ rebuild' = [rebuild EXCEPT !.pc = "docs", !.rows = docs]
  /\ written' = {}
  /\ relabelled' = {}
  /\ UNCHANGED <<docs, vecDocs, vecChunks, stamp, recon, writes, faults, moved, disturbed>>

\* Mutant: the stamp is set when staging begins.
RebuildChunksStamps ==
  /\ rebuild.pc = "docs"
  /\ rebuild' = [rebuild EXCEPT !.pc = "chunks", !.chunks =
       [c \in ChunkIds |->
          IF c \in Chunks
          THEN LET d == CHOOSE e \in Ids : docs[e].chunk = c
               IN Embedding(docs[d].body, docs[d].meta)
          ELSE NoVec]]
  /\ stamp' = "new"
  /\ UNCHANGED <<docs, vecDocs, vecChunks, recon, writes, faults,
                 written, relabelled, moved, disturbed>>

\* ... then the chunk rows, with their docs' meta.
RebuildChunks ==
  /\ rebuild.pc = "docs"
  /\ rebuild' = [rebuild EXCEPT !.pc = "chunks", !.chunks =
       [c \in ChunkIds |->
          IF c \in Chunks
          THEN LET d == CHOOSE e \in Ids : docs[e].chunk = c
               IN Embedding(docs[d].body, docs[d].meta)
          ELSE NoVec]]
  /\ UNCHANGED <<docs, vecDocs, vecChunks, stamp, recon, writes, faults,
                 written, relabelled, moved, disturbed>>

StagedDoc(d) ==
  IF rebuild.rows[d] = NoDoc THEN NoVec
  ELSE Embedding(rebuild.rows[d].body, rebuild.rows[d].meta)

\* Mutant: the chunks' new table is left empty.
StagedNoChunk(c) == NoVec

StagedChunk(c) == rebuild.chunks[c]

\* The swap, in one transaction.
Swap ==
  /\ rebuild.pc = "chunks"
  /\ vecDocs' = [d \in Ids |-> StagedDoc(d)]
  /\ vecChunks' = [c \in ChunkIds |-> StagedChunk(c)]
  /\ stamp' = "new"
  /\ rebuild' = NotRebuilding("swapped")
  /\ moved' = Ids
  /\ disturbed' = disturbed \cup
       (IF written # {} \/ \E d \in Ids : docs[d].only THEN {"swap"} ELSE {})
  /\ UNCHANGED <<docs, recon, writes, faults, written, relabelled>>

RebuildDone ==
  /\ rebuild.pc = "swapped"
  /\ rebuild' = NotRebuilding("none")
  /\ UNCHANGED <<docs, vecDocs, vecChunks, stamp, recon, writes, faults,
                 written, relabelled, moved, disturbed>>

\* The job raises: its row ends in error.
RebuildRaises ==
  /\ rebuild.pc \in {"docs", "chunks"}
  /\ faults < MaxFaults
  /\ faults' = faults + 1
  /\ rebuild' = NotRebuilding("none")
  /\ UNCHANGED <<docs, vecDocs, vecChunks, stamp, recon, writes,
                 written, relabelled, moved, disturbed>>

\* rebuild_vec_needed()
Needed == stamp # "new" /\ \E d \in Ids : Present(d)

\* The server is started again, after a crash perhaps: a job that had begun is
\* recovered, else the start-up check may enqueue one.
Restart ==
  /\ faults < MaxFaults
  /\ faults' = faults + 1
  /\ rebuild' = NotRebuilding(
       IF rebuild.pc # "none" \/ Needed THEN "queued" ELSE "none")
  /\ UNCHANGED <<docs, vecDocs, vecChunks, stamp, recon, writes,
                 written, relabelled, moved, disturbed>>

Next ==
  \/ PutNew \/ \E d \in Ids : Put(d) \/ SetMeta(d) \/ Delete(d)
  \/ \E d \in Ids : Mark(d) \/ ReconRead(d)
  \/ ReconSelect \/ ReconWrite \/ ReconDone \/ ReconCrash
  \/ RebuildDocs \/ RebuildChunks \/ Swap \/ RebuildDone \/ RebuildRaises
  \/ Restart

Spec == Init /\ [][Next]_vars
-----------------------------------------------------------------------------
TypeOK ==
  /\ docs \in [Ids -> Doc \cup {NoDoc}]
  /\ vecDocs \in [Ids -> Vec \cup {NoVec}]
  /\ vecChunks \in [ChunkIds -> Vec \cup {NoVec}]
  /\ stamp \in Models
  /\ rebuild \in [pc : {"none", "queued", "docs", "chunks", "swapped"},
                  rows : [Ids -> Doc \cup {NoDoc}],
                  chunks : [ChunkIds -> Vec \cup {NoVec}]]
  /\ recon \in [pc : {"idle", "mark", "sync"}, todo : SUBSET Ids,
                cur : Ids \cup {0}, held : Metas \cup {"none"}]
  /\ writes \in 0..MaxWrites
  /\ faults \in 0..MaxFaults
  /\ written \subseteq Ids /\ relabelled \subseteq Ids /\ moved \subseteq Ids
  /\ disturbed \subseteq {"flip", "swap"}

(***************************************************************************)
(* When the store says that its vectors are of the new model, they are:    *)
(* store_meta never claims a model the tables do not hold, whatever fails  *)
(* or is restarted (db.py:150-152), so a rebuild is not forgotten.         *)
(***************************************************************************)
StampTruthful ==
  stamp = "new" =>
    /\ \A d \in Ids : vecDocs[d].model # "old"
    /\ \A c \in ChunkIds : vecChunks[c].model # "old"

(***************************************************************************)
(* A doc has vectors of the text it has, and a store-only one has none:    *)
(* "a store-only write guarantees NO vectors for this doc, even if it      *)
(* previously embedded", and one "flipped BACK" is embedded again          *)
(* (store.py:398-402, 318-322).                                            *)
(***************************************************************************)
HasVectors(d) ==
  vecDocs[d].body = docs[d].body /\ vecChunks[docs[d].chunk].body = docs[d].body

HasNone(d) == vecDocs[d] = NoVec /\ vecChunks[docs[d].chunk] = NoVec

VectorsFollow ==
  \A d \in Ids : Present(d) => IF docs[d].only THEN HasNone(d) ELSE HasVectors(d)

\* It is so until one comes back from store-only with the text it had, or a
\* swap meets a store-only doc or one written since it read the rows.
VectorsFollowUndisturbed == disturbed = {} => VectorsFollow

\* Each by itself: the first is violated by the swap, the second by sync_doc_chunks().
StoreOnlyHasNone == \A d \in Ids : Present(d) /\ docs[d].only => HasNone(d)

FlippedBackEmbeds ==
  [][\A d \in Ids : docs[d].only /\ Present(d)' /\ ~docs'[d].only => HasVectors(d)']_vars

(***************************************************************************)
(* After the swap every doc has its vectors, with its own status and       *)
(* lifecycle on them ...                                                   *)
(***************************************************************************)
Follows(d) ==
  /\ HasVectors(d)
  /\ vecDocs[d].meta = docs[d].meta /\ vecChunks[docs[d].chunk].meta = docs[d].meta

Searchable(d) == Present(d) /\ ~docs[d].only

SwapCovers == [][Swap => \A d \in Ids : Searchable(d) => HasVectors(d)']_vars

\* ... if nobody changed the doc since the rebuild read it.
SwapCoversUnchanged ==
  [][Swap => \A d \in Ids : Searchable(d) =>
               /\ d \notin written => HasVectors(d)'
               /\ d \notin written \cup relabelled => Follows(d)']_vars

(***************************************************************************)
(* When a status pass or sweep is done, what it and passes that crashed    *)
(* before it changed has arrived in vec_docs (db.py:981-985), for docs no  *)
(* other writer touched meanwhile - and in vec_chunks, of which only the   *)
(* drift in vec_docs tells it.                                             *)
(***************************************************************************)
Settles(d) == vecDocs[d] # NoVec => vecDocs[d].meta = docs[d].meta
SettlesChunks(d) ==
  vecChunks[docs[d].chunk] # NoVec => vecChunks[docs[d].chunk].meta = docs[d].meta

ReconcileSettles ==
  [][ReconDone => \A d \in Ids \ moved : Present(d) => Settles(d)]_vars

ReconcileSettlesChunks ==
  [][ReconDone => \A d \in Ids \ moved : Present(d) => SettlesChunks(d)]_vars

(***************************************************************************)
(* Between passes the copy is in step: the writers "can't drift the        *)
(* metadata out of sync" (db.py:413-416).                                  *)
(***************************************************************************)
MetaInStep == recon.pc = "idle" => \A d \in Ids : Present(d) => Settles(d)
=============================================================================
