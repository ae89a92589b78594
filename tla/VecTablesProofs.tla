-------------------------- MODULE VecTablesProofs --------------------------
(***************************************************************************)
(* Proofs about VecTables, for any number of docs, writes and failures,    *)
(* whether or not the new model has the dimension of the old one.          *)
(***************************************************************************)
EXTENDS VecTables, WellFoundedInduction, TLAPS

(***************************************************************************)
(* The inductive invariant.                                                *)
(***************************************************************************)

\* Chunk rows are numbered upwards, and no two docs share one.
ChunkRows ==
  /\ \A d \in Ids : Present(d) => docs[d].chunk <= MaxDocs + writes
  /\ \A d, e \in Ids : Present(d) /\ Present(e) /\ docs[d].chunk = docs[e].chunk => d = e

\* What is staged for the swap is of the new model.
StagedNew == \A c \in ChunkIds : rebuild.chunks[c].model # "old"

\* What is staged for a doc nobody wrote is still the doc's: its text, and its
\* meta if nobody changed that either.
RowsCurrent ==
  rebuild.pc \in {"docs", "chunks"} =>
    \A d \in Ids \ written :
      /\ rebuild.rows[d] = NoDoc <=> ~Present(d)
      /\ rebuild.rows[d].body = docs[d].body
      /\ d \notin relabelled => rebuild.rows[d].meta = docs[d].meta

ChunksCurrent ==
  rebuild.pc = "chunks" =>
    \A d \in Ids \ written : Present(d) =>
      LET v == rebuild.chunks[docs[d].chunk]
      IN v.body = docs[d].body /\ (d \notin relabelled => v.meta = docs[d].meta)

\* A doc that no other writer touches is in step, or is still to be synced.
ReconCurrent ==
  /\ recon.cur # 0 => recon.pc = "sync" /\ recon.held \in Metas
  /\ recon.pc = "sync" => \A d \in Ids \ moved : Present(d) =>
       /\ Settles(d) \/ d \in recon.todo
       /\ d = recon.cur => recon.held = docs[d].meta

IndInv ==
  /\ TypeOK
  /\ ChunkRows
  /\ StampTruthful /\ StagedNew
  /\ VectorsFollowUndisturbed
  /\ RowsCurrent /\ ChunksCurrent
  /\ ReconCurrent
-----------------------------------------------------------------------------
(***************************************************************************)
(* Rows.                                                                   *)
(***************************************************************************)

LEMMA RowFacts ==
  /\ \A v \in Vec \cup {NoVec} : (v = NoVec <=> v.body = 0) /\ v.model \in Models \cup {"none"}
  /\ \A r \in Doc \cup {NoDoc} : r = NoDoc <=> r.body = 0
BY ConstantsAssumption DEF Vec, NoVec, Doc, NoDoc, Bodies, Models

LEMMA EmbeddingType ==
  ASSUME NEW b \in Bodies, NEW m \in Metas
  PROVE  /\ Embedding(b, m) \in Vec
         /\ Embedding(b, m).body = b
         /\ Embedding(b, m).meta = m
         /\ Embedding(b, m).model = "new"
BY DEF Embedding, Vec, Models

LEMMA LabelledType ==
  ASSUME NEW v \in Vec \cup {NoVec}, NEW m \in Metas
  PROVE  /\ Labelled(v, m) \in Vec \cup {NoVec}
         /\ Labelled(v, m) = NoVec <=> v = NoVec
         /\ Labelled(v, m).body = v.body
         /\ Labelled(v, m).model = v.model
         /\ v # NoVec => Labelled(v, m).meta = m
<1>1. CASE v = NoVec
  BY <1>1 DEF Labelled
<1>2. CASE v # NoVec
  <2>1. v \in Vec /\ Labelled(v, m) = [v EXCEPT !.meta = m]
    BY <1>2 DEF Labelled
  <2>2. [v EXCEPT !.meta = m] \in Vec
    BY <2>1 DEF Vec
  <2>3. /\ [v EXCEPT !.meta = m].body = v.body
        /\ [v EXCEPT !.meta = m].model = v.model
        /\ [v EXCEPT !.meta = m].meta = m
    BY <2>1 DEF Vec
  <2> QED BY <1>2, <2>1, <2>2, <2>3, RowFacts
<1> QED BY <1>1, <1>2

LEMMA LeastOf ==
  ASSUME NEW T \in SUBSET Nat, T # {}
  PROVE  \E m \in T : \A k \in T : m <= k
<1>1. PICK m \in T : \A k \in T : <<k, m>> \notin OpToRel(<, Nat)
  BY NatLessThanWellFounded, WFMin, Zenon
<1>2. \A k \in T : ~(k < m)
  BY <1>1, Zenon DEF OpToRel
<1> QED BY <1>2

\* A new chunk row has a number that no chunk has, and the next greater one.
LEMMA NextChunkFresh ==
  ASSUME TypeOK, ChunkRows
  PROVE  NextChunk \in 1..(MaxDocs + writes + 1) /\ NextChunk \notin Chunks
<1> DEFINE N == MaxDocs + writes
           T == {c \in 1..(N + 1) : \A b \in Chunks : b < c}
<1>1. writes \in Nat /\ writes <= MaxWrites /\ MaxDocs \in Nat /\ MaxWrites \in Nat
  BY ConstantsAssumption DEF TypeOK
<1>2. \A b \in Chunks : b \in 1..N
  BY <1>1, ConstantsAssumption DEF Chunks, ChunkRows, TypeOK, Present, Doc, ChunkIds
<1>3. N + 1 \in T
  BY <1>1, <1>2
<1>4. PICK c \in T : \A y \in T : c <= y
  <2>1. T \in SUBSET Nat
    BY <1>1
  <2> HIDE DEF T
  <2> QED BY <1>3, <2>1, LeastOf
<1>5. c = 1 \/ c - 1 \in Chunks
  <2> SUFFICES ASSUME c # 1 PROVE c - 1 \in Chunks
    OBVIOUS
  <2>1. c - 1 \in 1..(N + 1)
    BY <1>1, <1>4
  <2>2. c - 1 \notin T
    BY <1>1, <1>4, <2>1
  <2>3. PICK b \in Chunks : ~(b < c - 1)
    BY <2>1, <2>2
  <2>4. b = c - 1
    BY <1>1, <1>2, <1>4, <2>3
  <2> QED BY <2>4
<1>6. /\ \A b \in Chunks : b < c
      /\ c = 1 \/ c - 1 \in Chunks
      /\ c \in 1..(MaxDocs + MaxWrites + 1)
  BY <1>1, <1>4, <1>5
<1>7. /\ NextChunk \in 1..(MaxDocs + MaxWrites + 1)
      /\ \A b \in Chunks : b < NextChunk
      /\ NextChunk = 1 \/ NextChunk - 1 \in Chunks
  BY <1>6 DEF NextChunk
<1> QED BY <1>1, <1>2, <1>7
-----------------------------------------------------------------------------
LEMMA InitInv == Init => IndInv
<1> SUFFICES ASSUME Init PROVE IndInv
  OBVIOUS
<1>1. PICK n \in Ids, only \in [Ids -> BOOLEAN] :
        /\ docs = [d \in Ids |-> IF d > n THEN NoDoc
                   ELSE [body |-> d, meta |-> "shown", only |-> only[d], chunk |-> d]]
        /\ vecDocs = [d \in Ids |-> IF d > n \/ only[d] THEN NoVec
                      ELSE [body |-> d, meta |-> "shown", model |-> "old"]]
  BY DEF Init
<1>2. Ids \subseteq Bodies /\ Ids \subseteq ChunkIds /\ Ids \subseteq Nat \ {0}
  BY ConstantsAssumption DEF Ids, Bodies, ChunkIds
<1>3. \A d \in Ids : docs[d] \in Doc \cup {NoDoc} /\ vecDocs[d] \in Vec \cup {NoVec}
  BY <1>1, <1>2 DEF Doc, Vec, Metas, Models
<1>4. TypeOK
  <2>1. docs \in [Ids -> Doc \cup {NoDoc}] /\ vecDocs \in [Ids -> Vec \cup {NoVec}]
    BY <1>1, <1>3
  <2>2. vecChunks \in [ChunkIds -> Vec \cup {NoVec}]
    BY <1>3 DEF Init
  <2> QED
    BY <2>1, <2>2, ConstantsAssumption
    DEF Init, TypeOK, NotRebuilding, Resting, Models, Metas
<1>5. \A d \in Ids : Present(d) => docs[d].chunk = d /\ docs[d].body = d
  BY <1>1, <1>2 DEF Present, NoDoc
<1>6. ChunkRows
  BY <1>2, <1>5, ConstantsAssumption DEF ChunkRows, Init, Ids
<1>7. StampTruthful /\ StagedNew
  BY DEF Init, StampTruthful, StagedNew, NotRebuilding, NoVec
<1>8. VectorsFollowUndisturbed
  <2> SUFFICES ASSUME NEW d \in Ids, Present(d)
               PROVE  IF docs[d].only THEN HasNone(d) ELSE HasVectors(d)
    BY DEF VectorsFollowUndisturbed, VectorsFollow
  <2>1. ~(d > n) /\ docs[d].only = only[d]
    BY <1>1 DEF Present, NoDoc
  <2>2. vecChunks[docs[d].chunk] = vecDocs[d]
    BY <1>2, <1>5 DEF Init
  <2>3. IF only[d] THEN vecDocs[d] = NoVec ELSE vecDocs[d].body = d
    BY <1>1, <2>1
  <2> QED BY <1>5, <2>1, <2>2, <2>3 DEF HasNone, HasVectors
<1>9. RowsCurrent /\ ChunksCurrent /\ ReconCurrent
  BY DEF Init, RowsCurrent, ChunksCurrent, ReconCurrent, NotRebuilding, Resting
<1> QED BY <1>4, <1>6, <1>7, <1>8, <1>9 DEF IndInv
-----------------------------------------------------------------------------
(***************************************************************************)
(* The rebuild.                                                            *)
(***************************************************************************)

LEMMA RebuildDocsInv == ASSUME IndInv, RebuildDocs PROVE IndInv'
<1> USE DEF RebuildDocs
<1>1. TypeOK'
  BY DEF IndInv, TypeOK
<1>2. rebuild'.pc = "docs" /\ rebuild'.rows = docs /\ rebuild'.chunks = rebuild.chunks
  BY DEF IndInv, TypeOK
<1>3. ChunkRows'
  BY DEF IndInv, ChunkRows, Present
<1>4. StampTruthful' /\ StagedNew'
  BY <1>2 DEF IndInv, StampTruthful, StagedNew
<1>5. VectorsFollowUndisturbed'
  BY DEF IndInv, VectorsFollowUndisturbed, VectorsFollow, HasNone, HasVectors, Present
<1>6. RowsCurrent' /\ ChunksCurrent'
  BY <1>2 DEF RowsCurrent, ChunksCurrent, Present
<1>7. ReconCurrent'
  BY DEF IndInv, ReconCurrent, Settles, Present
<1> QED BY <1>1, <1>3, <1>4, <1>5, <1>6, <1>7 DEF IndInv

LEMMA RebuildChunksInv == ASSUME IndInv, RebuildChunks PROVE IndInv'
<1> USE DEF RebuildChunks
<1> DEFINE D(c) == CHOOSE e \in Ids : docs[e].chunk = c
           Staged == [c \in ChunkIds |->
             IF c \in Chunks THEN Embedding(docs[D(c)].body, docs[D(c)].meta) ELSE NoVec]
<1>1. rebuild'.pc = "chunks" /\ rebuild'.rows = rebuild.rows /\ rebuild'.chunks = Staged
  BY DEF IndInv, TypeOK
<1>2. \A d \in Ids : Present(d) =>
        docs[d] \in Doc /\ docs[d].chunk \in ChunkIds /\ docs[d].chunk \in Chunks
  BY DEF IndInv, TypeOK, Present, Doc, Chunks
<1>3. \A c \in ChunkIds : c \in Chunks =>
        D(c) \in Ids /\ docs[D(c)].chunk = c /\ Present(D(c))
  <2> SUFFICES ASSUME NEW c \in ChunkIds, c \in Chunks
               PROVE  D(c) \in Ids /\ docs[D(c)].chunk = c /\ Present(D(c))
    OBVIOUS
  <2>1. \E e \in Ids : docs[e].chunk = c
    BY DEF Chunks
  <2>2. c # 0
    BY ConstantsAssumption DEF ChunkIds
  <2> QED BY <2>1, <2>2 DEF Present, NoDoc
<1>4. \A c \in ChunkIds : Staged[c] \in Vec \cup {NoVec} /\ Staged[c].model # "old"
  <2> SUFFICES ASSUME NEW c \in ChunkIds
               PROVE  Staged[c] \in Vec \cup {NoVec} /\ Staged[c].model # "old"
    OBVIOUS
  <2>1. CASE c \in Chunks
    <3>1. docs[D(c)].body \in Bodies /\ docs[D(c)].meta \in Metas
      BY <1>2, <1>3, <2>1 DEF Doc
    <3> HIDE DEF D
    <3> QED BY <2>1, <3>1, EmbeddingType
  <2>2. CASE c \notin Chunks
    BY <2>2 DEF NoVec
  <2> QED BY <2>1, <2>2
<1>5. TypeOK'
  <2>1. Staged \in [ChunkIds -> Vec \cup {NoVec}]
    BY <1>4
  <2> HIDE DEF Staged
  <2>2. rebuild' = [rebuild EXCEPT !.pc = "chunks", !.chunks = Staged]
    BY DEF Staged
  <2>3. rebuild' \in [pc : {"none", "queued", "docs", "chunks", "swapped"},
                      rows : [Ids -> Doc \cup {NoDoc}],
                      chunks : [ChunkIds -> Vec \cup {NoVec}]]
    BY <2>1, <2>2 DEF IndInv, TypeOK
  <2> QED BY <2>3 DEF IndInv, TypeOK
<1>6. ChunkRows'
  BY DEF IndInv, ChunkRows, Present
<1>7. StampTruthful' /\ StagedNew'
  <2> HIDE DEF Staged
  <2> QED BY <1>1, <1>4 DEF IndInv, StampTruthful, StagedNew
<1>8. VectorsFollowUndisturbed'
  BY DEF IndInv, VectorsFollowUndisturbed, VectorsFollow, HasNone, HasVectors, Present
<1>9. RowsCurrent'
  BY <1>1 DEF IndInv, RowsCurrent, Present
<1>10. ChunksCurrent'
  <2> SUFFICES ASSUME NEW d \in Ids, Present(d)
               PROVE  /\ Staged[docs[d].chunk].body = docs[d].body
                      /\ Staged[docs[d].chunk].meta = docs[d].meta
    BY <1>1 DEF ChunksCurrent, Present
  <2>1. D(docs[d].chunk) = d
    BY <1>2, <1>3 DEF IndInv, ChunkRows
  <2> HIDE DEF D
  <2>2. Staged[docs[d].chunk] = Embedding(docs[d].body, docs[d].meta)
    BY <1>2, <2>1
  <2> HIDE DEF Staged
  <2>3. docs[d].body \in Bodies /\ docs[d].meta \in Metas
    BY <1>2 DEF Doc
  <2> QED BY <2>2, <2>3, EmbeddingType
<1>11. ReconCurrent'
  BY DEF IndInv, ReconCurrent, Settles, Present
<1> QED BY <1>5, <1>6, <1>7, <1>8, <1>9, <1>10, <1>11 DEF IndInv
\* What a swap puts into the tables.
LEMMA StagedType ==
  ASSUME TypeOK
  PROVE  /\ \A d \in Ids :
              /\ StagedDoc(d) \in Vec \cup {NoVec}
              /\ StagedDoc(d).model # "old"
              /\ rebuild.rows[d] # NoDoc =>
                   /\ StagedDoc(d).body = rebuild.rows[d].body
                   /\ StagedDoc(d).meta = rebuild.rows[d].meta
         /\ \A c \in ChunkIds : StagedChunk(c) \in Vec \cup {NoVec}
<1>1. ASSUME NEW d \in Ids
      PROVE  /\ StagedDoc(d) \in Vec \cup {NoVec}
             /\ StagedDoc(d).model # "old"
             /\ rebuild.rows[d] # NoDoc =>
                  /\ StagedDoc(d).body = rebuild.rows[d].body
                  /\ StagedDoc(d).meta = rebuild.rows[d].meta
  <2>1. CASE rebuild.rows[d] = NoDoc
    BY <2>1 DEF StagedDoc, NoVec
  <2>2. CASE rebuild.rows[d] # NoDoc
    <3>1. rebuild.rows[d].body \in Bodies /\ rebuild.rows[d].meta \in Metas
      BY <2>2 DEF TypeOK, Doc
    <3>2. StagedDoc(d) = Embedding(rebuild.rows[d].body, rebuild.rows[d].meta)
      BY <2>2 DEF StagedDoc
    <3> QED BY <3>1, <3>2, EmbeddingType
  <2> QED BY <2>1, <2>2
<1>2. \A c \in ChunkIds : StagedChunk(c) \in Vec \cup {NoVec}
  BY DEF TypeOK, StagedChunk
<1> QED BY <1>1, <1>2

\* Nobody wrote the doc since the rebuild read its row: the swap brings its text
\* and, if nobody changed that either, its meta.
LEMMA SwapBrings ==
  ASSUME IndInv, Swap, NEW d \in Ids \ written, Present(d)
  PROVE  /\ HasVectors(d)'
         /\ d \notin relabelled => Follows(d)'
<1> DEFINE c == docs[d].chunk
<1>1. c \in ChunkIds
  BY DEF IndInv, TypeOK, Present, Doc
<1>2. /\ rebuild.rows[d] # NoDoc
      /\ rebuild.rows[d].body = docs[d].body
      /\ d \notin relabelled => rebuild.rows[d].meta = docs[d].meta
  BY DEF IndInv, RowsCurrent, Swap
<1>3. /\ rebuild.chunks[c].body = docs[d].body
      /\ d \notin relabelled => rebuild.chunks[c].meta = docs[d].meta
  BY DEF IndInv, ChunksCurrent, Swap
<1>4. docs' = docs /\ vecDocs'[d] = StagedDoc(d) /\ vecChunks'[c] = rebuild.chunks[c]
  BY <1>1 DEF Swap, StagedChunk
<1>5. /\ vecDocs'[d].body = docs[d].body
      /\ d \notin relabelled => vecDocs'[d].meta = docs[d].meta
  BY <1>2, <1>4, StagedType DEF IndInv
<1> QED BY <1>3, <1>4, <1>5 DEF HasVectors, Follows

LEMMA NotRebuildingType ==
  ASSUME NEW pc \in {"none", "queued", "docs", "chunks", "swapped"}
  PROVE  /\ NotRebuilding(pc) \in [pc : {"none", "queued", "docs", "chunks", "swapped"},
                                   rows : [Ids -> Doc \cup {NoDoc}],
                                   chunks : [ChunkIds -> Vec \cup {NoVec}]]
         /\ NotRebuilding(pc).pc = pc
         /\ \A c \in ChunkIds : NotRebuilding(pc).chunks[c].model # "old"
BY DEF NotRebuilding, NoVec

LEMMA SwapInv == ASSUME IndInv, Swap PROVE IndInv'
<1> USE DEF Swap
<1>1. vecDocs' \in [Ids -> Vec \cup {NoVec}] /\ vecChunks' \in [ChunkIds -> Vec \cup {NoVec}]
  BY StagedType DEF IndInv
<1>2. TypeOK'
  BY <1>1, NotRebuildingType DEF IndInv, TypeOK, Models
<1>3. ChunkRows'
  BY DEF IndInv, ChunkRows, Present
<1>4. StampTruthful' /\ StagedNew'
  <2>1. \A d \in Ids : vecDocs'[d].model # "old"
    BY StagedType DEF IndInv
  <2>2. \A c \in ChunkIds : vecChunks'[c].model # "old"
    BY DEF IndInv, StagedNew, StagedChunk
  <2> QED BY <2>1, <2>2, NotRebuildingType DEF StampTruthful, StagedNew
<1>5. VectorsFollowUndisturbed'
  <2> SUFFICES ASSUME disturbed' = {}, NEW d \in Ids, Present(d)
               PROVE  ~docs[d].only /\ HasVectors(d)'
    BY DEF VectorsFollowUndisturbed, VectorsFollow, Present
  <2>1. written = {} /\ ~docs[d].only
    OBVIOUS
  <2> QED BY <2>1, SwapBrings
<1>6. RowsCurrent' /\ ChunksCurrent'
  BY NotRebuildingType DEF RowsCurrent, ChunksCurrent
<1>7. ReconCurrent'
  BY DEF IndInv, ReconCurrent
<1> QED BY <1>2, <1>3, <1>4, <1>5, <1>6, <1>7 DEF IndInv

\* The rebuild ends, well or not, or is queued again.
LEMMA RebuildEndsInv ==
  ASSUME IndInv, NEW pc \in {"none", "queued"}, rebuild' = NotRebuilding(pc),
         faults' \in 0..MaxFaults,
         UNCHANGED <<docs, vecDocs, vecChunks, stamp, recon, writes,
                     written, relabelled, moved, disturbed>>
  PROVE  IndInv'
<1>1. TypeOK'
  BY NotRebuildingType DEF IndInv, TypeOK
<1>2. ChunkRows'
  BY DEF IndInv, ChunkRows, Present
<1>3. StampTruthful' /\ StagedNew'
  BY NotRebuildingType DEF IndInv, StampTruthful, StagedNew
<1>4. VectorsFollowUndisturbed'
  BY DEF IndInv, VectorsFollowUndisturbed, VectorsFollow, HasNone, HasVectors, Present
<1>5. RowsCurrent' /\ ChunksCurrent'
  BY NotRebuildingType DEF RowsCurrent, ChunksCurrent
<1>6. ReconCurrent'
  BY DEF IndInv, ReconCurrent, Settles, Present
<1> QED BY <1>1, <1>2, <1>3, <1>4, <1>5, <1>6 DEF IndInv

LEMMA RebuildJobInv ==
  ASSUME IndInv, RebuildDone \/ RebuildRaises \/ Restart
  PROVE  IndInv'
<1>1. faults \in 0..MaxFaults /\ MaxFaults \in Nat
  BY ConstantsAssumption DEF IndInv, TypeOK
<1>2. CASE RebuildDone
  BY <1>1, <1>2, RebuildEndsInv DEF RebuildDone
<1>3. CASE RebuildRaises
  BY <1>1, <1>3, RebuildEndsInv DEF RebuildRaises
<1>4. CASE Restart
  BY <1>1, <1>4, RebuildEndsInv DEF Restart
<1> QED BY <1>2, <1>3, <1>4
-----------------------------------------------------------------------------
(***************************************************************************)
(* Steps that change nothing but meta, of docs and of their vectors.       *)
(***************************************************************************)

SameVec(v, w) == w \in Vec \cup {NoVec} /\ w.body = v.body /\ w.model = v.model

SameRow(r, q) ==
  /\ q \in Doc \cup {NoDoc}
  /\ q.body = r.body /\ q.only = r.only /\ q.chunk = r.chunk

LEMMA RelabelInv ==
  ASSUME IndInv,
         \A d \in Ids : SameVec(vecDocs[d], vecDocs'[d]) /\ SameRow(docs[d], docs'[d]),
         \A c \in ChunkIds : SameVec(vecChunks[c], vecChunks'[c]),
         \A d \in Ids : docs'[d].meta # docs[d].meta => d \in relabelled',
         relabelled \subseteq relabelled', writes' \in Nat, writes <= writes',
         UNCHANGED <<stamp, rebuild, written, disturbed>>
  PROVE  /\ ChunkRows' /\ StampTruthful' /\ StagedNew' /\ VectorsFollowUndisturbed'
         /\ RowsCurrent' /\ ChunksCurrent'
<1>1. \A d \in Ids : (Present(d)' <=> Present(d)) /\ docs[d] \in Doc \cup {NoDoc}
  BY RowFacts DEF IndInv, TypeOK, SameRow, Present
<1>2. \A d \in Ids : Present(d) => docs[d].chunk \in ChunkIds
  BY <1>1 DEF Present, Doc
<1>3. ChunkRows'
  <2>1. writes \in Nat /\ MaxDocs \in Nat /\ \A c \in ChunkIds : c \in Nat
    BY ConstantsAssumption DEF IndInv, TypeOK, ChunkIds
  <2>2. \A d \in Ids : docs'[d].chunk = docs[d].chunk
    BY DEF SameRow
  <2>3. \A d \in Ids : Present(d)' => docs'[d].chunk <= MaxDocs + writes'
    BY <1>1, <1>2, <2>1, <2>2 DEF IndInv, ChunkRows
  <2> QED BY <1>1, <2>2, <2>3 DEF IndInv, ChunkRows
<1>4. StampTruthful' /\ StagedNew'
  BY DEF IndInv, StampTruthful, StagedNew, SameVec
<1>5. VectorsFollowUndisturbed'
  <2> SUFFICES ASSUME disturbed = {}, NEW d \in Ids, Present(d)
               PROVE  IF docs'[d].only THEN HasNone(d)' ELSE HasVectors(d)'
    BY <1>1 DEF VectorsFollowUndisturbed, VectorsFollow
  <2>1. IF docs[d].only THEN HasNone(d) ELSE HasVectors(d)
    BY DEF IndInv, VectorsFollowUndisturbed, VectorsFollow
  <2>2. HasNone(d) => HasNone(d)'
    BY <1>2, RowFacts DEF IndInv, TypeOK, HasNone, SameVec, SameRow
  <2>3. HasVectors(d) => HasVectors(d)'
    BY <1>2 DEF HasVectors, SameVec, SameRow
  <2> QED BY <2>1, <2>2, <2>3 DEF SameRow
<1>6. RowsCurrent'
  BY <1>1 DEF IndInv, RowsCurrent, SameRow
<1>7. ChunksCurrent'
  BY <1>1 DEF IndInv, ChunksCurrent, SameRow
<1> QED BY <1>3, <1>4, <1>5, <1>6, <1>7

LEMMA SameFacts ==
  ASSUME TypeOK
  PROVE  /\ \A d \in Ids : SameVec(vecDocs[d], vecDocs[d]) /\ SameRow(docs[d], docs[d])
         /\ \A c \in ChunkIds : SameVec(vecChunks[c], vecChunks[c])
         /\ \A d \in Ids, m \in Metas : SameVec(vecDocs[d], Labelled(vecDocs[d], m))
         /\ \A c \in ChunkIds, m \in Metas : SameVec(vecChunks[c], Labelled(vecChunks[c], m))
         /\ \A d \in Ids, m \in Metas : Present(d) => SameRow(docs[d], [docs[d] EXCEPT !.meta = m])
         /\ writes \in Nat
<1>1. \A d \in Ids : vecDocs[d] \in Vec \cup {NoVec} /\ docs[d] \in Doc \cup {NoDoc}
  BY DEF TypeOK
<1>2. \A c \in ChunkIds : vecChunks[c] \in Vec \cup {NoVec}
  BY DEF TypeOK
<1>3. \A d \in Ids, m \in Metas : Present(d) => SameRow(docs[d], [docs[d] EXCEPT !.meta = m])
  BY <1>1 DEF SameRow, Present, Doc
<1>4. writes \in Nat
  BY DEF TypeOK
<1> QED BY <1>1, <1>2, <1>3, <1>4, LabelledType DEF SameVec, SameRow

\* The steps of a reconciliation that touch no table.
LEMMA ReconOnlyInv ==
  ASSUME IndInv, ReconSelect \/ (\E d \in Ids : ReconRead(d)) \/ ReconDone \/ ReconCrash
  PROVE  IndInv'
<1>0. 0 \notin Ids
  BY ConstantsAssumption DEF Ids
<1>1. UNCHANGED <<docs, vecDocs, vecChunks, stamp, rebuild, writes, written, relabelled, disturbed>>
  BY DEF ReconSelect, ReconRead, ReconDone, ReconCrash
<1>2. /\ ChunkRows' /\ StampTruthful' /\ StagedNew' /\ VectorsFollowUndisturbed'
      /\ RowsCurrent' /\ ChunksCurrent'
  BY <1>1, SameFacts, RelabelInv DEF IndInv
<1>3. CASE ReconSelect
  <2>1. recon' = [recon EXCEPT !.pc = "sync", !.todo = Mismatched] /\ moved' = {}
    BY <1>3 DEF ReconSelect
  <2>2. recon.cur = 0
    BY <1>3 DEF ReconSelect, IndInv, ReconCurrent
  <2>3. TypeOK'
    BY <1>1, <1>3, <2>1 DEF ReconSelect, IndInv, TypeOK, Mismatched
  <2>4. recon'.pc = "sync" /\ recon'.todo = Mismatched /\ recon'.cur = 0
    BY <2>1, <2>2 DEF IndInv, TypeOK
  <2>5. \A d \in Ids : Present(d) => Settles(d) \/ d \in Mismatched
    BY DEF Settles, Mismatched
  <2>6. ReconCurrent'
    BY <1>0, <1>1, <2>4, <2>5 DEF ReconCurrent, Settles, Present
  <2> QED BY <1>2, <2>3, <2>6 DEF IndInv
<1>4. ASSUME NEW d \in Ids, ReconRead(d)
      PROVE  IndInv'
  <2>1. CASE Present(d)
    <3>1. recon' = [recon EXCEPT !.cur = d, !.held = docs[d].meta]
      BY <1>4, <2>1 DEF ReconRead
    <3>2. docs[d].meta \in Metas
      BY <2>1 DEF IndInv, TypeOK, Present, Doc
    <3>3. TypeOK'
      BY <1>1, <1>4, <3>1, <3>2 DEF ReconRead, IndInv, TypeOK
    <3>4. /\ recon'.pc = "sync" /\ recon.pc = "sync" /\ recon'.cur = d
          /\ recon'.held = docs[d].meta /\ recon'.todo = recon.todo
      BY <1>4, <3>1 DEF ReconRead, IndInv, TypeOK
    <3>5. ReconCurrent'
      BY <1>1, <1>4, <3>2, <3>4 DEF ReconRead, IndInv, ReconCurrent, Settles, Present
    <3> QED BY <1>2, <3>3, <3>5 DEF IndInv
  <2>2. CASE ~Present(d)
    <3>1. recon' = [recon EXCEPT !.todo = @ \ {d}]
      BY <1>4, <2>2 DEF ReconRead
    <3>2. TypeOK'
      BY <1>1, <1>4, <3>1 DEF ReconRead, IndInv, TypeOK
    <3>3. recon'.pc = "sync" /\ recon.pc = "sync" /\ recon'.cur = 0
          /\ recon'.todo = recon.todo \ {d}
      BY <1>4, <3>1 DEF ReconRead, IndInv, TypeOK
    <3>4. ReconCurrent'
      BY <1>0, <1>1, <1>4, <2>2, <3>3 DEF ReconRead, IndInv, ReconCurrent, Settles, Present
    <3> QED BY <1>2, <3>2, <3>4 DEF IndInv
  <2> QED BY <2>1, <2>2
<1>5. CASE ReconDone \/ ReconCrash
  <2>1. recon' = Resting /\ moved' = moved
    BY <1>5 DEF ReconDone, ReconCrash
  <2>2. TypeOK'
    BY <1>1, <1>5, <2>1, ConstantsAssumption
    DEF ReconDone, ReconCrash, IndInv, TypeOK, Resting
  <2>3. ReconCurrent'
    BY <2>1 DEF ReconCurrent, Resting
  <2> QED BY <1>2, <2>2, <2>3 DEF IndInv
<1> QED BY <1>3, <1>4, <1>5
LEMMA ReconWriteInv == ASSUME IndInv, ReconWrite PROVE IndInv'
<1>0. 0 \notin Ids
  BY ConstantsAssumption DEF Ids
<1> DEFINE c == recon.cur
           Meta(d) == IF d = c THEN recon.held ELSE docs[d].meta
<1>1. /\ recon.pc = "sync" /\ c \in Ids /\ recon.held \in Metas
      /\ UNCHANGED <<docs, stamp, rebuild, writes, faults,
                     written, relabelled, moved, disturbed>>
  BY DEF ReconWrite, IndInv, TypeOK, ReconCurrent
<1>2. PICK B \in SUBSET (recon.todo \ {c}) :
        LET S == {d \in B \cup {c} : Present(d)} IN
        /\ vecDocs' = [d \in Ids |->
             IF d \in S \cup {c} THEN Labelled(vecDocs[d], Meta(d)) ELSE vecDocs[d]]
        /\ vecChunks' = [k \in ChunkIds |->
             IF \E d \in S : docs[d].chunk = k
             THEN Labelled(vecChunks[k], Meta(CHOOSE d \in S : docs[d].chunk = k))
             ELSE vecChunks[k]]
        /\ recon' = [recon EXCEPT !.cur = 0, !.held = "none", !.todo = @ \ (B \cup {c})]
  BY DEF ReconWrite
<1> DEFINE S == {d \in B \cup {c} : Present(d)}
           E(k) == CHOOSE d \in S : docs[d].chunk = k
<1>3. S \subseteq Ids
  BY <1>1, <1>2 DEF IndInv, TypeOK
<1>4. \A d \in Ids : Present(d) => Meta(d) \in Metas
  BY <1>1 DEF IndInv, TypeOK, Present, Doc
<1>5. \A d \in Ids : SameVec(vecDocs[d], vecDocs'[d])
  <2> SUFFICES ASSUME NEW d \in Ids PROVE SameVec(vecDocs[d], vecDocs'[d])
    OBVIOUS
  <2>1. CASE d \in S \cup {c}
    <3>1. Meta(d) \in Metas
      BY <1>1, <1>4, <2>1
    <3>2. vecDocs'[d] = Labelled(vecDocs[d], Meta(d))
      BY <1>2, <2>1
    <3> HIDE DEF Meta
    <3> QED BY <3>1, <3>2, SameFacts DEF IndInv
  <2>2. CASE d \notin S \cup {c}
    <3>1. vecDocs'[d] = vecDocs[d]
      BY <1>2, <2>2
    <3> QED BY <3>1, SameFacts DEF IndInv
  <2> QED BY <2>1, <2>2
<1>6. \A k \in ChunkIds : SameVec(vecChunks[k], vecChunks'[k])
  <2> SUFFICES ASSUME NEW k \in ChunkIds PROVE SameVec(vecChunks[k], vecChunks'[k])
    OBVIOUS
  <2>1. CASE \E d \in S : docs[d].chunk = k
    <3>1. E(k) \in S
      BY <2>1
    <3>2. Meta(E(k)) \in Metas
      BY <1>3, <1>4, <3>1
    <3>3. vecChunks'[k] = Labelled(vecChunks[k], Meta(E(k)))
      BY <1>2, <2>1
    <3> HIDE DEF Meta, E
    <3> QED BY <3>2, <3>3, SameFacts DEF IndInv
  <2>2. CASE ~ \E d \in S : docs[d].chunk = k
    <3>1. vecChunks'[k] = vecChunks[k]
      BY <1>2, <2>2
    <3> QED BY <3>1, SameFacts DEF IndInv
  <2> QED BY <2>1, <2>2
<1>7. /\ ChunkRows' /\ StampTruthful' /\ StagedNew' /\ VectorsFollowUndisturbed'
      /\ RowsCurrent' /\ ChunksCurrent'
  BY <1>1, <1>5, <1>6, SameFacts, RelabelInv DEF IndInv
<1>8. recon' = [recon EXCEPT !.cur = 0, !.held = "none", !.todo = @ \ (B \cup {c})]
  BY <1>2
<1>9. TypeOK'
  <2>1. vecDocs' \in [Ids -> Vec \cup {NoVec}]
    <3>1. vecDocs' = [d \in Ids |-> vecDocs'[d]]
      BY <1>2
    <3> QED BY <1>5, <3>1 DEF SameVec
  <2>2. vecChunks' \in [ChunkIds -> Vec \cup {NoVec}]
    <3>1. vecChunks' = [k \in ChunkIds |-> vecChunks'[k]]
      BY <1>2
    <3> QED BY <1>6, <3>1 DEF SameVec
  <2>3. recon' \in [pc : {"idle", "mark", "sync"}, todo : SUBSET Ids,
                    cur : Ids \cup {0}, held : Metas \cup {"none"}]
    BY <1>8 DEF IndInv, TypeOK
  <2> QED BY <1>1, <2>1, <2>2, <2>3 DEF IndInv, TypeOK
<1>10. ReconCurrent'
  <2>1. recon'.cur = 0 /\ recon'.pc = "sync" /\ recon'.todo = recon.todo \ (B \cup {c})
    BY <1>1, <1>8 DEF IndInv, TypeOK
  <2> SUFFICES ASSUME NEW d \in Ids \ moved, Present(d)
               PROVE  Settles(d)' \/ d \in recon'.todo
    BY <1>0, <1>1, <2>1 DEF ReconCurrent, Present
  <2>2. CASE d \in B \cup {c}
    <3>1. Meta(d) = docs[d].meta
      BY <1>1 DEF IndInv, ReconCurrent
    <3>2. vecDocs'[d] = Labelled(vecDocs[d], docs[d].meta)
      BY <1>2, <2>2, <3>1
    <3>3. vecDocs[d] \in Vec \cup {NoVec} /\ docs[d].meta \in Metas
      BY DEF IndInv, TypeOK, Present, Doc
    <3> QED BY <1>1, <3>2, <3>3, LabelledType DEF Settles
  <2>3. CASE d \notin B \cup {c}
    <3>1. vecDocs'[d] = vecDocs[d]
      BY <1>2, <2>3
    <3> QED BY <1>1, <2>1, <2>3, <3>1 DEF IndInv, ReconCurrent, Settles
  <2> QED BY <2>2, <2>3
<1> QED BY <1>7, <1>9, <1>10 DEF IndInv

LEMMA MarkInv == ASSUME IndInv, NEW d \in Ids, Mark(d) PROVE IndInv'
<1>1. PICK m \in Metas : docs' = [docs EXCEPT ![d].meta = m]
  BY DEF Mark
<1>2. /\ Present(d) /\ writes < MaxWrites /\ writes' = writes + 1
      /\ recon.pc # "sync"
      /\ recon' = [recon EXCEPT !.pc = "mark"]
      /\ relabelled' = relabelled \cup {d}
      /\ UNCHANGED <<vecDocs, vecChunks, stamp, rebuild, faults, written, moved, disturbed>>
  BY DEF Mark, Write
<1>3. docs' = [docs EXCEPT ![d] = [docs[d] EXCEPT !.meta = m]]
  BY <1>1
<1>4. \A e \in Ids : SameRow(docs[e], docs'[e]) /\ (docs'[e].meta # docs[e].meta => e = d)
  BY <1>2, <1>3, SameFacts DEF IndInv, TypeOK
<1>5. writes \in Nat /\ MaxWrites \in Nat
  BY ConstantsAssumption DEF IndInv, TypeOK
<1>6. /\ ChunkRows' /\ StampTruthful' /\ StagedNew' /\ VectorsFollowUndisturbed'
      /\ RowsCurrent' /\ ChunksCurrent'
  BY <1>2, <1>4, <1>5, SameFacts, RelabelInv DEF IndInv
<1>7. TypeOK'
  <2>1. docs' \in [Ids -> Doc \cup {NoDoc}]
    BY <1>3, <1>4 DEF IndInv, TypeOK, SameRow
  <2>2. writes' \in 0..MaxWrites
    BY <1>2, <1>5
  <2> QED BY <1>2, <2>1, <2>2 DEF IndInv, TypeOK
<1>8. ReconCurrent'
  BY <1>2 DEF IndInv, TypeOK, ReconCurrent
<1> QED BY <1>6, <1>7, <1>8 DEF IndInv
LEMMA SetMetaInv == ASSUME IndInv, NEW d \in Ids, SetMeta(d) PROVE IndInv'
<1>1. PICK m \in Metas :
        /\ docs' = [docs EXCEPT ![d].meta = m]
        /\ vecDocs' = [vecDocs EXCEPT ![d] = Labelled(@, m)]
        /\ vecChunks' = [vecChunks EXCEPT ![docs[d].chunk] = Labelled(@, m)]
  BY DEF SetMeta
<1>2. /\ Present(d) /\ writes < MaxWrites /\ writes' = writes + 1
      /\ relabelled' = relabelled \cup {d} /\ moved' = moved \cup {d}
      /\ UNCHANGED <<stamp, rebuild, recon, faults, written, disturbed>>
  BY DEF SetMeta, Write
<1>3. docs' = [docs EXCEPT ![d] = [docs[d] EXCEPT !.meta = m]]
  BY <1>1
<1>4. \A e \in Ids : SameRow(docs[e], docs'[e]) /\ (docs'[e].meta # docs[e].meta => e = d)
  BY <1>2, <1>3, SameFacts DEF IndInv, TypeOK
<1>5. writes \in Nat /\ MaxWrites \in Nat
  BY ConstantsAssumption DEF IndInv, TypeOK
<1>6. \A e \in Ids : SameVec(vecDocs[e], vecDocs'[e])
  BY <1>1, SameFacts DEF IndInv, TypeOK
<1>7. \A c \in ChunkIds : SameVec(vecChunks[c], vecChunks'[c])
  BY <1>1, SameFacts DEF IndInv, TypeOK
<1>8. /\ ChunkRows' /\ StampTruthful' /\ StagedNew' /\ VectorsFollowUndisturbed'
      /\ RowsCurrent' /\ ChunksCurrent'
  BY <1>2, <1>4, <1>5, <1>6, <1>7, RelabelInv
<1>9. TypeOK'
  <2>1. docs' \in [Ids -> Doc \cup {NoDoc}]
    BY <1>3, <1>4 DEF IndInv, TypeOK, SameRow
  <2>2. vecDocs' \in [Ids -> Vec \cup {NoVec}]
    BY <1>1, <1>6 DEF IndInv, TypeOK, SameVec
  <2>3. vecChunks' \in [ChunkIds -> Vec \cup {NoVec}]
    BY <1>1, <1>7 DEF IndInv, TypeOK, SameVec
  <2>4. writes' \in 0..MaxWrites
    BY <1>2, <1>5
  <2> QED BY <1>2, <2>1, <2>2, <2>3, <2>4 DEF IndInv, TypeOK
<1>10. ReconCurrent'
  <2>1. \A e \in Ids \ {d} : docs'[e] = docs[e] /\ vecDocs'[e] = vecDocs[e]
    BY <1>1, <1>3 DEF IndInv, TypeOK
  <2> QED BY <1>2, <2>1 DEF IndInv, ReconCurrent, Settles, Present
<1> QED BY <1>8, <1>9, <1>10 DEF IndInv
-----------------------------------------------------------------------------
(***************************************************************************)
(* Writes of one doc, whose chunk row is k afterwards: the one it had or a *)
(* new one.                                                                *)
(***************************************************************************)

LEMMA OneDocInv ==
  ASSUME IndInv, NEW d \in Ids, NEW k \in ChunkIds,
         k <= MaxDocs + writes + 1,
         k \notin Chunks \/ (Present(d) /\ k = docs[d].chunk),
         writes < MaxWrites, writes' = writes + 1,
         docs' \in [Ids -> Doc \cup {NoDoc}],
         vecDocs' \in [Ids -> Vec \cup {NoVec}],
         vecChunks' \in [ChunkIds -> Vec \cup {NoVec}],
         \A e \in Ids \ {d} : docs'[e] = docs[e] /\ vecDocs'[e] = vecDocs[e],
         \A c \in ChunkIds \ {k} :
           ~(Present(d) /\ c = docs[d].chunk) => vecChunks'[c] = vecChunks[c],
         Present(d)' => docs'[d].chunk = k,
         stamp = "new" => /\ vecDocs'[d].model # "old"
                          /\ \A c \in ChunkIds : vecChunks'[c].model # "old",
         disturbed' \in {disturbed, disturbed \cup {"flip"}},
         disturbed' = {} /\ Present(d)' =>
           IF docs'[d].only THEN HasNone(d)' ELSE HasVectors(d)',
         written' = written \cup {d}, moved' = moved \cup {d},
         relabelled' \in {relabelled, relabelled \cup {d}},
         UNCHANGED <<stamp, rebuild, recon, faults>>
  PROVE  IndInv'
<1>1. writes \in Nat /\ MaxWrites \in Nat /\ MaxDocs \in Nat
  BY ConstantsAssumption DEF IndInv, TypeOK
<1>2. \A e \in Ids : Present(e) =>
        docs[e].chunk \in ChunkIds /\ docs[e].chunk \in Chunks /\ docs[e].chunk \in Nat
  BY ConstantsAssumption DEF IndInv, TypeOK, Present, Doc, Chunks, ChunkIds
<1>3. \A e \in Ids \ {d} : Present(e) => docs[e].chunk # k /\ (Present(d) => docs[e].chunk # docs[d].chunk)
  BY <1>2 DEF IndInv, ChunkRows
<1>4. \A e \in Ids \ {d} : Present(e) =>
        vecChunks'[docs[e].chunk] = vecChunks[docs[e].chunk]
  BY <1>2, <1>3
<1>5. \A e \in Ids \ {d} : Present(e)' <=> Present(e)
  BY DEF Present
<1>6. TypeOK'
  <2>1. writes' \in 0..MaxWrites
    BY <1>1
  <2>2. disturbed' \subseteq {"flip", "swap"}
    BY DEF IndInv, TypeOK
  <2>3. written' \subseteq Ids /\ moved' \subseteq Ids /\ relabelled' \subseteq Ids
    BY DEF IndInv, TypeOK
  <2> QED BY <2>1, <2>2, <2>3 DEF IndInv, TypeOK
<1>7. ChunkRows'
  <2>1. \A e \in Ids : Present(e)' => docs'[e].chunk <= MaxDocs + writes'
    BY <1>1, <1>2, <1>5 DEF IndInv, ChunkRows
  <2>2. \A e, f \in Ids : Present(e)' /\ Present(f)' /\ docs'[e].chunk = docs'[f].chunk => e = f
    BY <1>3, <1>5 DEF IndInv, ChunkRows
  <2> QED BY <2>1, <2>2 DEF ChunkRows
<1>8. StampTruthful' /\ StagedNew'
  BY DEF IndInv, StampTruthful, StagedNew
<1>9. VectorsFollowUndisturbed'
  <2> SUFFICES ASSUME disturbed' = {}, NEW e \in Ids, Present(e)'
               PROVE  IF docs'[e].only THEN HasNone(e)' ELSE HasVectors(e)'
    BY DEF VectorsFollowUndisturbed, VectorsFollow
  <2>1. CASE e = d
    BY <2>1
  <2>2. CASE e # d
    <3>1. disturbed = {} /\ Present(e)
      BY <1>5, <2>2
    <3>2. IF docs[e].only THEN HasNone(e) ELSE HasVectors(e)
      BY <3>1 DEF IndInv, VectorsFollowUndisturbed, VectorsFollow
    <3> QED BY <1>4, <2>2, <3>1, <3>2 DEF HasNone, HasVectors
  <2> QED BY <2>1, <2>2
<1>10. RowsCurrent' /\ ChunksCurrent'
  BY <1>5 DEF IndInv, RowsCurrent, ChunksCurrent
<1>11. ReconCurrent'
  BY <1>5 DEF IndInv, ReconCurrent, Settles
<1> QED BY <1>6, <1>7, <1>8, <1>9, <1>10, <1>11 DEF IndInv

LEMMA DeleteInv == ASSUME IndInv, NEW d \in Ids, Delete(d) PROVE IndInv'
<1>1. docs[d].chunk \in ChunkIds
  BY DEF Delete, IndInv, TypeOK, Present, Doc
<1>2. docs[d].chunk <= MaxDocs + writes + 1
  BY <1>1, ConstantsAssumption DEF Delete, IndInv, ChunkRows, TypeOK, ChunkIds
<1>3. /\ vecDocs' \in [Ids -> Vec \cup {NoVec}]
      /\ vecChunks' \in [ChunkIds -> Vec \cup {NoVec}]
      /\ docs' \in [Ids -> Doc \cup {NoDoc}]
  BY DEF Delete, IndInv, TypeOK
<1>4. /\ \A e \in Ids \ {d} : docs'[e] = docs[e] /\ vecDocs'[e] = vecDocs[e]
      /\ \A c \in ChunkIds \ {docs[d].chunk} : vecChunks'[c] = vecChunks[c]
      /\ ~Present(d)'
  BY DEF Delete, IndInv, TypeOK, Present
<1>5. stamp = "new" => /\ vecDocs'[d].model # "old"
                       /\ \A c \in ChunkIds : vecChunks'[c].model # "old"
  BY DEF Delete, IndInv, TypeOK, StampTruthful, NoVec
<1>6. /\ Present(d) /\ writes < MaxWrites /\ writes' = writes + 1
      /\ written' = written \cup {d} /\ moved' = moved \cup {d} /\ relabelled' = relabelled
      /\ disturbed' = disturbed
      /\ UNCHANGED <<stamp, rebuild, recon, faults>>
  BY DEF Delete, Write
<1> QED BY <1>1, <1>2, <1>3, <1>4, <1>5, <1>6, OneDocInv
LEMMA NewRowFacts ==
  ASSUME IndInv, Write
  PROVE  /\ MaxDocs + writes + 1 \in Bodies
         /\ NextChunk \in ChunkIds /\ NextChunk <= MaxDocs + writes + 1
         /\ NextChunk \notin Chunks
         /\ "shown" \in Metas
<1>1. writes \in Nat /\ MaxWrites \in Nat /\ MaxDocs \in Nat /\ writes < MaxWrites
  BY ConstantsAssumption DEF IndInv, TypeOK, Write
<1> QED BY <1>1, NextChunkFresh DEF IndInv, Bodies, ChunkIds, Metas

LEMMA PutNewInv == ASSUME IndInv, PutNew PROVE IndInv'
<1>1. PICK d \in Ids : d = NextId
  BY DEF PutNew
<1>2. PICK k \in ChunkIds : k = NextChunk
  BY NewRowFacts DEF PutNew
<1>3. PICK only \in BOOLEAN :
        /\ docs' = [docs EXCEPT ![d] =
                     [body |-> MaxDocs + writes + 1, meta |-> "shown", only |-> only, chunk |-> k]]
        /\ vecDocs' = [vecDocs EXCEPT ![d] =
                         IF only THEN NoVec ELSE Embedding(MaxDocs + writes + 1, "shown")]
        /\ vecChunks' = [vecChunks EXCEPT ![k] =
                           IF only THEN NoVec ELSE Embedding(MaxDocs + writes + 1, "shown")]
  BY <1>1, <1>2 DEF PutNew
<1>4. /\ writes < MaxWrites /\ writes' = writes + 1
      /\ written' = written \cup {d} /\ moved' = moved \cup {d}
      /\ relabelled' = relabelled \cup {d} /\ disturbed' = disturbed
      /\ UNCHANGED <<stamp, rebuild, recon, faults>>
  BY <1>1 DEF PutNew, Write
<1>5. /\ MaxDocs + writes + 1 \in Bodies /\ k <= MaxDocs + writes + 1
      /\ k \notin Chunks /\ "shown" \in Metas
  BY <1>2, NewRowFacts DEF PutNew
<1> DEFINE b == MaxDocs + writes + 1
           u == IF only THEN NoVec ELSE Embedding(b, "shown")
           q == [body |-> b, meta |-> "shown", only |-> only, chunk |-> k]
<1>6. /\ u \in Vec \cup {NoVec} /\ u.model # "old"
      /\ IF only THEN u = NoVec ELSE u.body = b
  <2>1. CASE only
    BY <2>1 DEF NoVec
  <2>2. CASE ~only
    BY <1>5, <2>2, EmbeddingType
  <2> QED BY <2>1, <2>2
<1>7. q \in Doc /\ q.chunk = k /\ q.only = only /\ q.body = b
  BY <1>5 DEF Doc
<1>8. /\ docs' = [docs EXCEPT ![d] = q]
      /\ vecDocs' = [vecDocs EXCEPT ![d] = u]
      /\ vecChunks' = [vecChunks EXCEPT ![k] = u]
  BY <1>3
<1> HIDE DEF u, q, b
<1>9. /\ docs'[d] = q /\ vecDocs'[d] = u /\ vecChunks'[k] = u
      /\ docs' \in [Ids -> Doc \cup {NoDoc}]
      /\ vecDocs' \in [Ids -> Vec \cup {NoVec}]
      /\ vecChunks' \in [ChunkIds -> Vec \cup {NoVec}]
      /\ \A e \in Ids \ {d} : docs'[e] = docs[e] /\ vecDocs'[e] = vecDocs[e]
      /\ \A c \in ChunkIds \ {k} : vecChunks'[c] = vecChunks[c]
  BY <1>6, <1>7, <1>8 DEF IndInv, TypeOK
<1>10. stamp = "new" => /\ vecDocs'[d].model # "old"
                        /\ \A c \in ChunkIds : vecChunks'[c].model # "old"
  BY <1>6, <1>9 DEF IndInv, StampTruthful
<1>11. IF docs'[d].only THEN HasNone(d)' ELSE HasVectors(d)'
  BY <1>6, <1>7, <1>9 DEF HasNone, HasVectors
<1>12. docs'[d].chunk = k
  BY <1>7, <1>9
<1> QED BY <1>4, <1>5, <1>9, <1>10, <1>11, <1>12, OneDocInv
-----------------------------------------------------------------------------
LEMMA RewrittenInv ==
  ASSUME IndInv, NEW d \in Ids, Present(d), NEW only \in BOOLEAN, NEW m \in Metas,
         ~docs[d].only, Rewritten(d, only, m), disturbed' = disturbed,
         writes < MaxWrites, writes' = writes + 1,
         written' = written \cup {d}, relabelled' = relabelled \cup {d},
         moved' = moved \cup {d},
         UNCHANGED <<stamp, rebuild, recon, faults>>
  PROVE  IndInv'
<1>1. PICK k \in ChunkIds : k = docs[d].chunk
  BY DEF IndInv, TypeOK, Present, Doc
<1>2. k <= MaxDocs + writes + 1
  BY <1>1, ConstantsAssumption DEF IndInv, ChunkRows, TypeOK, ChunkIds
<1> DEFINE u == IF only THEN NoVec ELSE Labelled(vecDocs[d], m)
           w == IF only THEN NoVec ELSE Labelled(vecChunks[k], m)
           q == [docs[d] EXCEPT !.meta = m, !.only = only]
<1>3. vecDocs[d] \in Vec \cup {NoVec} /\ vecChunks[k] \in Vec \cup {NoVec} /\ docs[d] \in Doc
  BY DEF IndInv, TypeOK, Present
<1>4. /\ u \in Vec \cup {NoVec} /\ w \in Vec \cup {NoVec}
      /\ vecDocs[d].model # "old" => u.model # "old"
      /\ vecChunks[k].model # "old" => w.model # "old"
      /\ IF only THEN u = NoVec /\ w = NoVec
         ELSE u.body = vecDocs[d].body /\ w.body = vecChunks[k].body
  <2>1. CASE only
    BY <2>1 DEF NoVec
  <2>2. CASE ~only
    BY <1>3, <2>2, LabelledType
  <2> QED BY <2>1, <2>2
<1>5. q \in Doc /\ q.chunk = k /\ q.only = only /\ q.body = docs[d].body
  BY <1>1, <1>3 DEF Doc
<1>6. /\ docs' = [docs EXCEPT ![d] = q]
      /\ vecDocs' = [vecDocs EXCEPT ![d] = u]
      /\ vecChunks' = [vecChunks EXCEPT ![k] = w]
  BY <1>1 DEF Rewritten
<1> HIDE DEF u, w, q
<1>7. /\ docs'[d] = q /\ vecDocs'[d] = u /\ vecChunks'[k] = w
      /\ docs' \in [Ids -> Doc \cup {NoDoc}]
      /\ vecDocs' \in [Ids -> Vec \cup {NoVec}]
      /\ vecChunks' \in [ChunkIds -> Vec \cup {NoVec}]
      /\ \A e \in Ids \ {d} : docs'[e] = docs[e] /\ vecDocs'[e] = vecDocs[e]
      /\ \A c \in ChunkIds \ {k} : vecChunks'[c] = vecChunks[c]
  BY <1>4, <1>5, <1>6 DEF IndInv, TypeOK
<1>8. stamp = "new" => /\ vecDocs'[d].model # "old"
                       /\ \A c \in ChunkIds : vecChunks'[c].model # "old"
  BY <1>4, <1>7 DEF IndInv, StampTruthful
<1>9. disturbed = {} => IF docs'[d].only THEN HasNone(d)' ELSE HasVectors(d)'
  <2> SUFFICES ASSUME disturbed = {}
               PROVE  IF docs'[d].only THEN HasNone(d)' ELSE HasVectors(d)'
    OBVIOUS
  <2>1. vecDocs[d].body = docs[d].body /\ vecChunks[k].body = docs[d].body
    BY <1>1 DEF IndInv, VectorsFollowUndisturbed, VectorsFollow, HasVectors
  <2> QED BY <1>4, <1>5, <1>7, <2>1 DEF HasNone, HasVectors
<1>10. docs'[d].chunk = k
  BY <1>5, <1>7
<1> QED BY <1>1, <1>2, <1>7, <1>8, <1>9, <1>10, OneDocInv
\* The text is there already, so the doc was store-only (else Rewritten).
LEMMA ReplacedKeptInv ==
  ASSUME IndInv, NEW d \in Ids, Present(d), NEW only \in BOOLEAN, NEW m \in Metas,
         NEW b, b = docs[d].body,
         Replaced(d, b, only, m),
         disturbed' = disturbed \cup (IF ~only THEN {"flip"} ELSE {}),
         writes < MaxWrites, writes' = writes + 1,
         written' = written \cup {d}, relabelled' = relabelled \cup {d},
         moved' = moved \cup {d},
         UNCHANGED <<stamp, rebuild, recon, faults>>
  PROVE  IndInv'
<1>1. PICK k \in ChunkIds : k = docs[d].chunk
  BY DEF IndInv, TypeOK, Present, Doc
<1>2. k <= MaxDocs + writes + 1
  BY <1>1, ConstantsAssumption DEF IndInv, ChunkRows, TypeOK, ChunkIds
<1> DEFINE u == IF only THEN NoVec ELSE Embedding(b, m)
           w == IF only THEN NoVec ELSE Labelled(vecChunks[k], m)
           q == [body |-> b, meta |-> m, only |-> only, chunk |-> k]
<1>3. vecChunks[k] \in Vec \cup {NoVec} /\ docs[d] \in Doc /\ b \in Bodies
  BY DEF IndInv, TypeOK, Present, Doc
<1>4. /\ u \in Vec \cup {NoVec} /\ w \in Vec \cup {NoVec}
      /\ u.model # "old"
      /\ vecChunks[k].model # "old" => w.model # "old"
      /\ only => u = NoVec /\ w = NoVec
  <2>1. CASE only
    BY <2>1 DEF NoVec
  <2>2. CASE ~only
    BY <1>3, <2>2, LabelledType, EmbeddingType
  <2> QED BY <2>1, <2>2
<1>5. q \in Doc /\ q.chunk = k /\ q.only = only
  BY <1>3 DEF Doc
<1>6. /\ docs' = [docs EXCEPT ![d] = q]
      /\ vecDocs' = [vecDocs EXCEPT ![d] = u]
      /\ vecChunks' = [vecChunks EXCEPT ![k] = w]
  BY <1>1 DEF Replaced
<1> HIDE DEF u, w, q
<1>7. /\ docs'[d] = q /\ vecDocs'[d] = u /\ vecChunks'[k] = w
      /\ docs' \in [Ids -> Doc \cup {NoDoc}]
      /\ vecDocs' \in [Ids -> Vec \cup {NoVec}]
      /\ vecChunks' \in [ChunkIds -> Vec \cup {NoVec}]
      /\ \A e \in Ids \ {d} : docs'[e] = docs[e] /\ vecDocs'[e] = vecDocs[e]
      /\ \A c \in ChunkIds \ {k} : vecChunks'[c] = vecChunks[c]
  BY <1>4, <1>5, <1>6 DEF IndInv, TypeOK
<1>8. stamp = "new" => /\ vecDocs'[d].model # "old"
                       /\ \A c \in ChunkIds : vecChunks'[c].model # "old"
  BY <1>4, <1>7 DEF IndInv, StampTruthful
<1>9. disturbed' = {} => docs'[d].only /\ HasNone(d)'
  BY <1>4, <1>5, <1>7 DEF HasNone
<1>10. docs'[d].chunk = k
  BY <1>5, <1>7
<1>11. disturbed' \in {disturbed, disturbed \cup {"flip"}}
  OBVIOUS
<1> QED BY <1>1, <1>2, <1>7, <1>8, <1>9, <1>10, <1>11, OneDocInv

\* The text is another one: the doc gets a new chunk row.
LEMMA ReplacedNewInv ==
  ASSUME IndInv, NEW d \in Ids, Present(d), NEW only \in BOOLEAN, NEW m \in Metas,
         NEW b \in Bodies, b # docs[d].body,
         Replaced(d, b, only, m), disturbed' = disturbed, Write,
         written' = written \cup {d}, relabelled' = relabelled \cup {d},
         moved' = moved \cup {d},
         UNCHANGED <<stamp, rebuild, recon, faults>>
  PROVE  IndInv'
<1>1. PICK k \in ChunkIds : k = NextChunk
  BY NewRowFacts
<1>2. PICK c \in ChunkIds : c = docs[d].chunk
  BY DEF IndInv, TypeOK, Present, Doc
<1>3. k <= MaxDocs + writes + 1 /\ k \notin Chunks /\ k # c
  BY <1>1, <1>2, NewRowFacts DEF Chunks
<1> DEFINE u == IF only THEN NoVec ELSE Embedding(b, m)
           q == [body |-> b, meta |-> m, only |-> only, chunk |-> k]
<1>4. /\ u \in Vec \cup {NoVec} /\ u.model # "old"
      /\ IF only THEN u = NoVec ELSE u.body = b
  <2>1. CASE only
    BY <2>1 DEF NoVec
  <2>2. CASE ~only
    BY <2>2, EmbeddingType
  <2> QED BY <2>1, <2>2
<1>5. q \in Doc /\ q.chunk = k /\ q.only = only /\ q.body = b
  BY DEF Doc
<1>6. /\ docs' = [docs EXCEPT ![d] = q]
      /\ vecDocs' = [vecDocs EXCEPT ![d] = u]
      /\ vecChunks' = [vecChunks EXCEPT ![c] = NoVec, ![k] = u]
  BY <1>1, <1>2 DEF Replaced
<1> HIDE DEF u, q
<1>7. /\ docs'[d] = q /\ vecDocs'[d] = u
      /\ vecChunks'[k] = u /\ vecChunks'[c] = NoVec
      /\ docs' \in [Ids -> Doc \cup {NoDoc}]
      /\ vecDocs' \in [Ids -> Vec \cup {NoVec}]
      /\ vecChunks' \in [ChunkIds -> Vec \cup {NoVec}]
      /\ \A e \in Ids \ {d} : docs'[e] = docs[e] /\ vecDocs'[e] = vecDocs[e]
      /\ \A j \in ChunkIds \ {k, c} : vecChunks'[j] = vecChunks[j]
  BY <1>3, <1>4, <1>5, <1>6 DEF IndInv, TypeOK
<1>8. stamp = "new" => /\ vecDocs'[d].model # "old"
                       /\ \A j \in ChunkIds : vecChunks'[j].model # "old"
  BY <1>4, <1>7 DEF IndInv, StampTruthful, NoVec
<1>9. IF docs'[d].only THEN HasNone(d)' ELSE HasVectors(d)'
  BY <1>4, <1>5, <1>7 DEF HasNone, HasVectors
<1>10. docs'[d].chunk = k
  BY <1>5, <1>7
<1> QED BY <1>2, <1>3, <1>7, <1>8, <1>9, <1>10, OneDocInv DEF Write

LEMMA PutInv == ASSUME IndInv, NEW d \in Ids, Put(d) PROVE IndInv'
<1>1. PICK b \in {MaxDocs + writes + 1, docs[d].body}, only \in BOOLEAN,
           m \in {"shown", docs[d].meta} :
        /\ IF b = docs[d].body /\ ~docs[d].only
           THEN Rewritten(d, only, m)
           ELSE Replaced(d, b, only, m)
        /\ disturbed' = disturbed \cup
             (IF b = docs[d].body /\ docs[d].only /\ ~only THEN {"flip"} ELSE {})
  BY DEF Put
<1>2. /\ Present(d) /\ Write /\ writes < MaxWrites /\ writes' = writes + 1
      /\ written' = written \cup {d} /\ relabelled' = relabelled \cup {d}
      /\ moved' = moved \cup {d}
      /\ UNCHANGED <<stamp, rebuild, recon, faults>>
  BY DEF Put, Write
<1>3. b \in Bodies /\ m \in Metas /\ docs[d].only \in BOOLEAN
  BY <1>2, NewRowFacts DEF IndInv, TypeOK, Present, Doc
<1>4. CASE b = docs[d].body /\ ~docs[d].only
  <2>1. Rewritten(d, only, m) /\ disturbed' = disturbed
    BY <1>1, <1>4
  <2> QED BY <1>2, <1>3, <1>4, <2>1, RewrittenInv
<1>5. CASE b = docs[d].body /\ docs[d].only
  <2>1. /\ Replaced(d, b, only, m)
        /\ disturbed' = disturbed \cup (IF ~only THEN {"flip"} ELSE {})
    BY <1>1, <1>5
  <2> QED BY <1>2, <1>3, <1>5, <2>1, ReplacedKeptInv
<1>6. CASE b # docs[d].body
  <2>1. Replaced(d, b, only, m) /\ disturbed' = disturbed
    BY <1>1, <1>6
  <2> QED BY <1>2, <1>3, <1>6, <2>1, ReplacedNewInv
<1> QED BY <1>3, <1>4, <1>5, <1>6
-----------------------------------------------------------------------------
LEMMA NextInv == ASSUME IndInv, [Next]_vars PROVE IndInv'
<1>1. CASE UNCHANGED vars
  BY <1>1 DEF vars, IndInv, TypeOK, ChunkRows, StampTruthful, StagedNew,
     VectorsFollowUndisturbed, VectorsFollow, HasNone, HasVectors,
     RowsCurrent, ChunksCurrent, ReconCurrent, Settles, Present
<1>2. CASE PutNew
  BY <1>2, PutNewInv
<1>3. CASE \E d \in Ids : Put(d) \/ SetMeta(d) \/ Delete(d)
  BY <1>3, PutInv, SetMetaInv, DeleteInv
<1>4. CASE \E d \in Ids : Mark(d)
  BY <1>4, MarkInv
<1>5. CASE ReconSelect \/ (\E d \in Ids : ReconRead(d)) \/ ReconDone \/ ReconCrash
  BY <1>5, ReconOnlyInv
<1>6. CASE ReconWrite
  BY <1>6, ReconWriteInv
<1>7. CASE RebuildDocs
  BY <1>7, RebuildDocsInv
<1>8. CASE RebuildChunks
  BY <1>8, RebuildChunksInv
<1>9. CASE Swap
  BY <1>9, SwapInv
<1>10. CASE RebuildDone \/ RebuildRaises \/ Restart
  BY <1>10, RebuildJobInv
<1> QED
  BY <1>1, <1>2, <1>3, <1>4, <1>5, <1>6, <1>7, <1>8, <1>9, <1>10 DEF Next

LEMMA Invariance == Spec => []IndInv
<1>1. Init => IndInv
  BY InitInv
<1>2. IndInv /\ [Next]_vars => IndInv'
  BY NextInv
<1> QED BY <1>1, <1>2, PTL DEF Spec
-----------------------------------------------------------------------------
(***************************************************************************)
(* The results.                                                            *)
(***************************************************************************)

\* Every reachable state has the types VecTables declares.
THEOREM TypeCorrect == Spec => []TypeOK
<1>1. IndInv => TypeOK
  BY DEF IndInv
<1> QED BY <1>1, Invariance, PTL

\* When store_meta says that the tables hold the new model's vectors, they hold
\* no other, whatever fails, is restarted or is written meanwhile (db.py:818-860).
THEOREM StampNeverLies == Spec => []StampTruthful
<1>1. IndInv => StampTruthful
  BY DEF IndInv
<1> QED BY <1>1, Invariance, PTL

\* Docs have vectors of the text they have, and store-only ones none, until the
\* two steps that are known to break it (store.py:311-410, db.py:744-860).
THEOREM VectorsFollowTheText == Spec => []VectorsFollowUndisturbed
<1>1. IndInv => VectorsFollowUndisturbed
  BY DEF IndInv
<1> QED BY <1>1, Invariance, PTL

\* A swap gives each doc that nobody wrote since the rebuild read its row the
\* vectors of its text, with its meta if that was not changed (db.py:744-860).
THEOREM SwapCoversTheUnchanged == Spec => SwapCoversUnchanged
<1>1. ASSUME IndInv, Swap, NEW d \in Ids, Searchable(d)
      PROVE  /\ d \notin written => HasVectors(d)'
             /\ d \notin written \cup relabelled => Follows(d)'
  BY <1>1, SwapBrings DEF Searchable
<1>2. IndInv /\ [Next]_vars =>
        [Swap => \A d \in Ids : Searchable(d) =>
                   /\ d \notin written => HasVectors(d)'
                   /\ d \notin written \cup relabelled => Follows(d)']_vars
  BY <1>1
<1> QED BY <1>2, Invariance, PTL DEF Spec, SwapCoversUnchanged

\* When a reconciliation is done, the filters in vec_docs are those of every doc
\* that no other writer touched since its SELECT (db.py:975-1008).
THEOREM ReconcileCatchesUp == Spec => ReconcileSettles
<1>1. ASSUME IndInv, ReconDone, NEW d \in Ids \ moved, Present(d)
      PROVE  Settles(d)
  BY <1>1 DEF IndInv, ReconCurrent, ReconDone
<1>2. IndInv /\ [Next]_vars =>
        [ReconDone => \A d \in Ids \ moved : Present(d) => Settles(d)]_vars
  BY <1>1
<1> QED BY <1>2, Invariance, PTL DEF Spec, ReconcileSettles
=============================================================================
