---------------------------- MODULE ToolsProofs ----------------------------
(***************************************************************************)
(* Proofs about Tools, for any number of threads, ids, headings and texts, *)
(* any set of drafts, any row cap of the cache and any bound on the calls. *)
(***************************************************************************)
EXTENDS Tools, FiniteSetTheorems, TLAPS

-----------------------------------------------------------------------------
(***************************************************************************)
(* Docs and calls.                                                         *)
(***************************************************************************)
Ids == Uuids \cup Refs
Bodies == [Heads -> Texts \cup {Absent}]

Doc == [body : Bodies, tag : BOOLEAN, old : Bodies \cup {None},
        lifecycle : {"active", "archived"}, status : {"canonical", "duplicate", "superseded"},
        mtime : Nat]

Intent == [body : Bodies, tag : BOOLEAN]

WriteState ==
  [op : {"write"}, at : {"read", "probe", "put"}, ref : Refs \cup {None},
   section : Heads \cup {None}, force : BOOLEAN, body : Bodies, text : Texts,
   tag : BOOLEAN, target : Ids \cup {None}, readAt : Nat]

RestoreState ==
  [op : {"restore"}, at : {"put"}, section : {None}, force : BOOLEAN, body : Bodies,
   tag : BOOLEAN, target : Ids, readAt : Nat]

MarkState == [op : {"mark"}, at : {"mark"}, target : Ids]

\* A query with the answer out, under version v.
QueryState(out, v) ==
  [op : {"query"}, at : {"lookup", "search", "store"}, scope : Scopes,
   out : {out}, version : {v}]

HitState == [op : {"hit"}, at : {"done"}, scope : Scopes, fresh : BOOLEAN]

IsCall(c) ==
  \/ c = Idle
  \/ c \in WriteState /\ (c.at = "probe" => c.section = None)
  \/ c \in RestoreState
  \/ c \in MarkState
  \/ c \in HitState
  \/ c \in QueryState(c.out, c.version)

-----------------------------------------------------------------------------
(***************************************************************************)
(* The inductive invariant.                                                *)
(***************************************************************************)
DocsInv ==
  /\ clock \in Nat
  /\ DOMAIN docs \subseteq Ids
  /\ \A i \in DOMAIN docs : docs[i] \in Doc /\ docs[i].mtime <= clock
  /\ DOMAIN meant = DOMAIN docs
  /\ \A i \in DOMAIN docs : meant[i] \in Intent

CallsInv == DOMAIN call = Threads /\ \A t \in Threads : IsCall(call[t])

\* What a section write is about to put is the doc it read with its section
\* replaced, and the doc is still that one if its mtime is.
PatchInv ==
  \A t \in Threads :
    call[t].at = "put" /\ call[t].section # None =>
      /\ call[t].op = "write"
      /\ call[t].readAt <= clock
      /\ call[t].target \in DOMAIN docs /\ docs[call[t].target].mtime = call[t].readAt =>
           call[t].body = [docs[call[t].target].body EXCEPT ![call[t].section] = call[t].text]

\* A check under way is of a doc that is there.
MarkInv == \A t \in Threads : call[t].at = "mark" => call[t].target \in DOMAIN docs

Version(s) == CorpusVersion(docs, file, s)
Found(s) == Shown(docs, file, s)
Muted(s) == \E how \in {"stayed", "back"} : <<s, how>> \in quiet

\* The scope has not been at a former version unless that is in the history.
VersionInv ==
  /\ DOMAIN versions = Scopes
  /\ \A s \in Scopes :
       /\ Version(s) \in versions[s].now
       /\ Version(s) \in versions[s].past => Muted(s)

\* An answer out kept under version v is of the past, or of now.
Holds(v, out, s) ==
  \/ v \in versions[s].past
  \/ v \in versions[s].now /\ out = Found(s)

RowInv ==
  /\ DOMAIN cache = Scopes
  /\ \A s \in Scopes : cache[s] # None => Holds(cache[s].version, cache[s].out, s)

\* A query has seen every result of its scope since it began; what it is about
\* to store is of the version it read, or of no version to come.
QueryInv ==
  /\ DOMAIN since = Threads
  /\ \A t \in Threads :
       /\ since[t] # {} => call[t].op = "query"
       /\ call[t].op = "query" =>
            /\ call[t].version \in versions[call[t].scope].past \cup versions[call[t].scope].now
            /\ Found(call[t].scope) \in since[t]
            /\ call[t].at = "store" => Holds(call[t].version, call[t].out, call[t].scope)

\* Whatever a query may find in the cache under its own version, now or once
\* another query has stored its answer, is a result it has seen.
LookupInv ==
  \A t \in Threads :
    LET c == call[t] IN
    c.op = "query" /\ c.at = "lookup" /\ ~Muted(c.scope) =>
      /\ cache[c.scope] # None /\ cache[c.scope].version = c.version =>
           cache[c.scope].out \in since[t]
      /\ \A u \in Threads :
           call[u].op = "query" /\ call[u].at = "store" /\ call[u].scope = c.scope
             /\ call[u].version = c.version
             => call[u].out \in since[t]

CacheInv == VersionInv /\ RowInv /\ QueryInv /\ LookupInv /\ HitIsFreshUnlessQuiet

IndInv ==
  /\ DocsInv
  /\ OneCanonicalPerGistChecked
  /\ CallsInv
  /\ PatchSparesTheRestUncrossed
  /\ PatchInv
  /\ MarkInv
  /\ CacheInv

-----------------------------------------------------------------------------
(***************************************************************************)
(* Operators.                                                              *)
(***************************************************************************)
LEMMA ResolveIs ==
  ASSUME NEW ref
  PROVE  Resolve(ref) \in DOMAIN docs \cup {None}
<1>1. Cardinality(Matching(ref)) = 1 => Matching(ref) # {}
  BY FS_EmptySet
<1> QED BY <1>1 DEF Resolve, Matching

\* The docs ds are docs with the row of id written, and newer than any other.
Written(ds, id, body) ==
  /\ DOMAIN ds = DOMAIN docs \cup {id}
  /\ \A i \in DOMAIN ds : ds[i] \in Doc /\ ds[i].mtime <= clock + 1
  /\ ds[id].body = body /\ ds[id].mtime = clock + 1
  /\ \A i \in DOMAIN docs \ {id} : ds[i].body = docs[i].body /\ ds[i].mtime = docs[i].mtime

\* The tags are as before but for the written one, and no doc becomes canonical.
Keeping(ds, id, tag) ==
  /\ ds[id].tag = tag
  /\ \A i \in DOMAIN docs \ {id} : ds[i].tag = docs[i].tag
  /\ \A i \in DOMAIN docs : ds[i].status = "canonical" => docs[i].status = "canonical"

LEMMA NearBothWays ==
  ASSUME NEW b, NEW c, Near(b, c)
  PROVE  Near(c, b)
<1>1. <<b, c>> \in Alike => <<(<<b, c>>)[2], (<<b, c>>)[1]>> \in Alike
  BY ToolsAssumption
<1> QED BY <1>1 DEF Near

LEMMA StoredIs ==
  ASSUME DocsInv, NEW id \in Ids, NEW body \in Bodies, NEW tag \in BOOLEAN
  PROVE  /\ Written(Stored(id, body, tag), id, body)
         /\ Stored(id, body, tag)[id].tag = tag
         /\ \A i \in DOMAIN docs \ {id} : Stored(id, body, tag)[i] = docs[i]
         /\ id \in DOMAIN docs => Stored(id, body, tag)[id].status = docs[id].status
<1> SUFFICES ASSUME NEW ds, ds = Stored(id, body, tag)
             PROVE  /\ Written(ds, id, body)
                    /\ ds[id].tag = tag
                    /\ \A i \in DOMAIN docs \ {id} : ds[i] = docs[i]
                    /\ id \in DOMAIN docs => ds[id].status = docs[id].status
  OBVIOUS
<1>1. CASE id \in DOMAIN docs
  <2>1. ds = Updated(id, body, tag)
    BY <1>1 DEF Stored
  <2>2. DOMAIN ds = DOMAIN docs /\ \A i \in DOMAIN docs \ {id} : ds[i] = docs[i]
    BY <2>1 DEF Updated
  <2>3. docs[id] \in Doc /\ clock + 1 \in Nat
    BY <1>1 DEF DocsInv
  <2>4. ds[id] = [docs[id] EXCEPT !.body = body, !.tag = tag, !.lifecycle = "active",
                                  !.mtime = clock + 1,
                                  !.old = IF Unchanged(id, body) THEN docs[id].old
                                             ELSE docs[id].body]
    BY <1>1, <2>1 DEF Updated
  <2>5. ds[id] \in Doc /\ ds[id].body = body /\ ds[id].mtime = clock + 1
        /\ ds[id].status = docs[id].status
    BY <2>3, <2>4 DEF Doc
  <2>6. \A i \in DOMAIN docs : docs[i] \in Doc /\ docs[i].mtime <= clock + 1
    BY DEF DocsInv, Doc
  <2>7. DOMAIN ds = DOMAIN docs \cup {id}
    BY <1>1, <2>2
  <2>8. \A i \in DOMAIN ds : ds[i] \in Doc /\ ds[i].mtime <= clock + 1
    <3> TAKE i \in DOMAIN ds
    <3>1. CASE i = id
      BY <2>3, <2>5, <3>1
    <3>2. CASE i # id
      BY <2>2, <2>6, <3>2
    <3> QED BY <3>1, <3>2
  <2>9. ds[id].tag = tag
    BY <2>3, <2>4 DEF Doc
  <2> QED BY <1>1, <2>2, <2>5, <2>7, <2>8, <2>9 DEF Written
<1>2. CASE id \notin DOMAIN docs
  <2>1. ds = With(docs, id, Row(body, tag))
    BY <1>2 DEF Stored
  <2>2. /\ DOMAIN ds = DOMAIN docs \cup {id}
        /\ \A i \in DOMAIN docs : ds[i] = docs[i]
        /\ ds[id] = Row(body, tag)
    BY <1>2, <2>1 DEF With
  <2>3. Row(body, tag) \in Doc /\ Row(body, tag).body = body
        /\ Row(body, tag).mtime = clock + 1 /\ Row(body, tag).status = "canonical"
    BY DEF Row, Doc, DocsInv
  <2>4. \A i \in DOMAIN docs : docs[i] \in Doc /\ docs[i].mtime <= clock + 1
    BY DEF DocsInv, Doc
  <2>5. ds[id].tag = tag
    BY <2>2 DEF Row
  <2> QED BY <1>2, <2>2, <2>3, <2>4, <2>5 DEF DocsInv, Written
<1> QED BY <1>1, <1>2

\* The docs put() commits.
LEMMA AfterIs ==
  ASSUME DocsInv, NEW id \in Ids, NEW body \in Bodies, NEW tag \in BOOLEAN
  PROVE  Written(After(id, body, tag), id, body) /\ Keeping(After(id, body, tag), id, tag)
<1> DEFINE os == Stored(id, body, tag)
<1>1. /\ Written(os, id, body)
      /\ \A i \in DOMAIN docs \ {id} : os[i] = docs[i]
      /\ id \in DOMAIN docs => os[id].status = docs[id].status
  BY StoredIs
<1>2. os[id].tag = tag
  BY StoredIs
<1> SUFFICES ASSUME NEW ds, ds = After(id, body, tag)
             PROVE  Written(ds, id, body) /\ Keeping(ds, id, tag)
  OBVIOUS
<1>3. Rivals(id, body) \subseteq DOMAIN docs \ {id}
  BY DEF Rivals
<1>4. ds = [j \in DOMAIN os |->
              IF j \in Rivals(id, body)
              THEN [docs[j] EXCEPT !.status = "superseded", !.lifecycle = "archived"]
              ELSE os[j]]
  BY DEF After
<1> HIDE DEF os
<1>5. DOMAIN ds = DOMAIN docs \cup {id} /\ ds[id] = os[id]
  BY <1>1, <1>3, <1>4 DEF Written
<1>6. ASSUME NEW i \in DOMAIN docs \ {id}
      PROVE  /\ ds[i] \in Doc /\ ds[i].mtime = docs[i].mtime /\ ds[i].body = docs[i].body
             /\ ds[i].status = "canonical" => docs[i].status = "canonical"
  <2>1. docs[i] \in Doc
    BY DEF DocsInv
  <2>2. CASE i \in Rivals(id, body)
    <3>1. ds[i] = [docs[i] EXCEPT !.status = "superseded", !.lifecycle = "archived"]
      BY <1>1, <1>4, <2>2 DEF Written
    <3> QED BY <2>1, <3>1 DEF Doc
  <2>3. CASE i \notin Rivals(id, body)
    <3>1. ds[i] = docs[i]
      BY <1>1, <1>4, <2>3 DEF Written
    <3> QED BY <2>1, <3>1
  <2> QED BY <2>2, <2>3
<1>7. ASSUME NEW i \in DOMAIN docs \ {id} PROVE ds[i].tag = docs[i].tag
  <2>1. docs[i] \in Doc
    BY DEF DocsInv
  <2>2. CASE i \in Rivals(id, body)
    <3>1. ds[i] = [docs[i] EXCEPT !.status = "superseded", !.lifecycle = "archived"]
      BY <1>1, <1>4, <2>2 DEF Written
    <3> QED BY <2>1, <3>1 DEF Doc
  <2>3. CASE i \notin Rivals(id, body)
    BY <1>1, <1>4, <2>3 DEF Written
  <2> QED BY <2>2, <2>3
<1>8. \A i \in DOMAIN docs : docs[i].mtime <= clock + 1
  BY DEF DocsInv, Doc
<1>9. Written(ds, id, body)
  BY <1>1, <1>5, <1>6, <1>8 DEF Written
<1>10. \A i \in DOMAIN docs : ds[i].status = "canonical" => docs[i].status = "canonical"
  BY <1>1, <1>5, <1>6
<1>11. ds[id].tag = tag
  BY <1>2, <1>5
<1> QED BY <1>7, <1>9, <1>10, <1>11 DEF Keeping

\* Flagging moves no body, tag or mtime and makes no doc canonical; what it
\* flags is the only near-copy, if there is one only.
LEMMA FlaggedIs ==
  ASSUME DocsInv, NEW id \in DOMAIN docs, NEW ds \in Flagged(docs, id)
  PROVE  /\ DOMAIN ds = DOMAIN docs
         /\ \A i \in DOMAIN docs :
              /\ ds[i] \in Doc /\ ds[i].body = docs[i].body /\ ds[i].mtime = docs[i].mtime
              /\ ds[i].status = "canonical" => docs[i].status = "canonical"
         /\ \A i \in DOMAIN docs : ds[i].tag = docs[i].tag
         /\ (\A j, k \in Copies(docs, id) : j = k) /\ ds[id].status = "canonical" =>
              \A k \in Copies(docs, id) : ds[k].status # "canonical"
<1>0. \A i \in DOMAIN docs : docs[i] \in Doc
  BY DEF DocsInv
<1>1. CASE ds = docs /\ (docs[id].status # "canonical" \/ Copies(docs, id) = {})
  BY <1>0, <1>1
<1>2. CASE \E j \in Copies(docs, id) :
             ds = [docs EXCEPT ![IF docs[id].mtime >= docs[j].mtime THEN j ELSE id].status
                                   = "duplicate"]
  <2>1. PICK k \in Copies(docs, id) : \E f \in {k, id} :
          ds = [docs EXCEPT ![f] = [docs[f] EXCEPT !.status = "duplicate"]]
    BY <1>2
  <2>2. PICK f \in {k, id} : ds = [docs EXCEPT ![f] = [docs[f] EXCEPT !.status = "duplicate"]]
    BY <2>1
  <2>3. f \in DOMAIN docs
    BY <2>2 DEF Copies
  <2>4. /\ DOMAIN ds = DOMAIN docs
        /\ \A i \in DOMAIN docs \ {f} : ds[i] = docs[i]
        /\ ds[f] = [docs[f] EXCEPT !.status = "duplicate"]
    BY <2>2, <2>3
  <2>5. ds[f] \in Doc /\ ds[f].body = docs[f].body /\ ds[f].mtime = docs[f].mtime
        /\ ds[f].status = "duplicate"
    BY <1>0, <2>3, <2>4 DEF Doc
  <2>6. ds[f].tag = docs[f].tag
    BY <1>0, <2>3, <2>4 DEF Doc
  <2>7. \A i \in DOMAIN docs : ds[i].tag = docs[i].tag
    BY <2>4, <2>6
  <2>8. (\A j, m \in Copies(docs, id) : j = m) /\ ds[id].status = "canonical" =>
          \A m \in Copies(docs, id) : ds[m].status # "canonical"
    BY <2>2, <2>5
  <2> QED BY <1>0, <2>4, <2>5, <2>7, <2>8
<1> QED BY <1>1, <1>2 DEF Flagged

\* A call about to put.
LEMMA PutState ==
  ASSUME CallsInv, NEW t \in Threads, call[t].at = "put"
  PROVE  /\ call[t].op \in {"write", "restore"}
         /\ call[t].body \in Bodies /\ call[t].tag \in BOOLEAN
         /\ call[t].target \in Ids \cup {None} /\ call[t].readAt \in Nat
         /\ call[t].section # None =>
              call[t].op = "write" /\ call[t].section \in Heads /\ call[t].text \in Texts
<1>1. IsCall(call[t])
  BY DEF CallsInv
<1>2. call[t] \in WriteState \/ call[t] \in RestoreState
  BY <1>1 DEF IsCall, Idle, MarkState, QueryState, HitState
<1> QED BY <1>2 DEF WriteState, MarkState, RestoreState

-----------------------------------------------------------------------------
(***************************************************************************)
(* The docs.                                                               *)
(***************************************************************************)
LEMMA SameKeepsDocs ==
  ASSUME IndInv, UNCHANGED <<docs, meant, crossed, unchecked>>, clock' \in Nat, clock <= clock'
  PROVE  DocsInv' /\ OneCanonicalPerGistChecked' /\ PatchSparesTheRestUncrossed'
<1>1. DocsInv'
  BY DEF IndInv, DocsInv, Doc
<1>2. OneCanonicalPerGistChecked'
  BY DEF IndInv, OneCanonicalPerGistChecked
<1>3. PatchSparesTheRestUncrossed'
  BY DEF IndInv, PatchSparesTheRestUncrossed
<1> QED BY <1>1, <1>2, <1>3

\* A put that is refused changes nothing; another is a commit.
PutWrites(t, id) ==
  LET c == call[t] IN
  /\ docs' = After(id, c.body, c.tag)
  /\ meant' = With(meant, id, PutMeant(c, id))
  /\ crossed' = IF Stale(c, id) \/ (KeepsRead(c) /\ id \in crossed)
                THEN crossed \cup {id} ELSE crossed \ {id}
  /\ IF id \in DOMAIN docs /\ Unchanged(id, c.body)
     THEN Reply(t) /\ UNCHANGED unchecked
     ELSE /\ call' = [call EXCEPT ![t] = [op |-> "mark", at |-> "mark", target |-> id]]
          /\ unchecked' = unchecked \cup {id}
  /\ clock' = clock + 1

\* The doc a put is to write.
Placed(t, id) ==
  IF call[t].target = None THEN id \notin DOMAIN docs ELSE id = call[t].target

LEMMA PutIs ==
  ASSUME IndInv, NEW t \in Threads, Put(t)
  PROVE  \/ Reply(t) /\ UNCHANGED <<docs, clock, meant, crossed, unchecked>>
         \/ \E id \in Ids : Placed(t, id) /\ PutWrites(t, id)
<1>1. call[t].target \in Ids \cup {None}
  BY PutState DEF Put, IndInv
<1>2. PICK id \in IF call[t].target = None THEN Uuids \ DOMAIN docs ELSE {call[t].target} :
        \/ Reply(t) /\ UNCHANGED <<docs, clock, meant, crossed, unchecked>>
        \/ PutWrites(t, id)
  BY DEF Put, PutWrites
<1>3. id \in Ids /\ Placed(t, id)
  BY <1>1, <1>2 DEF Ids, Placed
<1> QED BY <1>2, <1>3

\* What an answered write is meant to leave.
LEMMA MeantIs ==
  ASSUME IndInv, NEW t \in Threads, call[t].at = "put", NEW id
  PROVE  PutMeant(call[t], id) \in Intent
<1> DEFINE c == call[t]
<1>1. /\ c.body \in Bodies /\ c.tag \in BOOLEAN
      /\ c.section # None => c.section \in Heads /\ c.text \in Texts
  BY PutState DEF IndInv
<1>2. id \in DOMAIN meant => meant[id] \in Intent
  BY DEF IndInv, DocsInv
<1> HIDE DEF c
<1>3. CASE id \notin DOMAIN meant
  BY <1>1, <1>3 DEF PutMeant, Intent, c
<1>4. CASE id \in DOMAIN meant /\ c.section # None
  <2>1. PutMeant(c, id) = [meant[id] EXCEPT !.body[c.section] = c.text]
    BY <1>4 DEF PutMeant
  <2> QED BY <1>1, <1>2, <1>4, <2>1 DEF Intent, Bodies, c
<1>5. CASE id \in DOMAIN meant /\ c.section = None
  <2>1. PutMeant(c, id)
          = [body |-> c.body, tag |-> IF c.op = "restore" THEN meant[id].tag ELSE c.tag]
    BY <1>5 DEF PutMeant
  <2>2. (IF c.op = "restore" THEN meant[id].tag ELSE c.tag) \in BOOLEAN
    BY <1>1, <1>2, <1>5 DEF Intent
  <2> QED BY <1>1, <2>1, <2>2 DEF Intent, c
<1> QED BY <1>3, <1>4, <1>5

\* What a call that keeps what it read of a doc is about to put, unless the doc
\* has changed since.
LEMMA UnstaleIs ==
  ASSUME IndInv, NEW t \in Threads, call[t].at = "put",
         NEW id, Placed(t, id),
         KeepsRead(call[t]) => ~Stale(call[t], id) /\ id \notin crossed
  PROVE  call[t].body = PutMeant(call[t], id).body /\ call[t].tag = PutMeant(call[t], id).tag
<1> DEFINE c == call[t]
<1>1. c.section # None => c.section \in Heads /\ c.text \in Texts
  BY PutState DEF IndInv
<1>2. id \in DOMAIN meant => meant[id] \in Intent
  BY DEF IndInv, DocsInv
<1>3. KeepsRead(c) => /\ id \in DOMAIN docs /\ docs[id].mtime = c.readAt /\ docs[id].tag = c.tag
                      /\ docs[id].body = meant[id].body /\ docs[id].tag = meant[id].tag
  BY DEF Stale, IndInv, PatchSparesTheRestUncrossed
<1>4. CASE id \notin DOMAIN meant
  BY <1>4 DEF PutMeant
<1>5. CASE id \in DOMAIN meant /\ c.section # None
  <2>1. PutMeant(c, id) = [meant[id] EXCEPT !.body[c.section] = c.text]
    BY <1>5 DEF PutMeant
  <2>2. /\ PutMeant(c, id).body = [meant[id].body EXCEPT ![c.section] = c.text]
        /\ PutMeant(c, id).tag = meant[id].tag
    BY <1>2, <1>5, <2>1 DEF Intent
  <2>3. KeepsRead(c)
    BY <1>5 DEF KeepsRead
  <2>4. c.target = id
    BY <1>5 DEF IndInv, DocsInv, Placed
  <2>5. c.body = [docs[id].body EXCEPT ![c.section] = c.text]
    BY <1>3, <1>5, <2>3, <2>4 DEF IndInv, PatchInv
  <2> QED BY <1>3, <2>2, <2>3, <2>5
<1>6. CASE id \in DOMAIN meant /\ c.section = None
  <2>1. PutMeant(c, id)
          = [body |-> c.body, tag |-> IF c.op = "restore" THEN meant[id].tag ELSE c.tag]
    BY <1>6 DEF PutMeant
  <2>2. c.op = "restore" => c.tag = meant[id].tag
    BY <1>3 DEF KeepsRead
  <2> QED BY <2>1, <2>2
<1> QED BY <1>4, <1>5, <1>6

LEMMA WriteKeepsDocs ==
  ASSUME IndInv, NEW t \in Threads, call[t].at = "put", NEW id \in Ids,
         Placed(t, id), PutWrites(t, id)
  PROVE  /\ DocsInv' /\ OneCanonicalPerGistChecked' /\ PatchSparesTheRestUncrossed'
         /\ Written(docs', id, call[t].body)
<1> DEFINE c == call[t]
<1>1. c.body \in Bodies /\ c.tag \in BOOLEAN
  BY PutState DEF IndInv
<1>2. /\ docs' = After(id, c.body, c.tag)
      /\ meant' = With(meant, id, PutMeant(c, id))
      /\ crossed' = IF Stale(c, id) \/ (KeepsRead(c) /\ id \in crossed)
                    THEN crossed \cup {id} ELSE crossed \ {id}
      /\ clock' = clock + 1
  BY DEF PutWrites
<1>3. Written(docs', id, c.body) /\ Keeping(docs', id, c.tag)
  <2>1. DocsInv
    BY DEF IndInv
  <2> HIDE DEF c
  <2> QED BY <1>1, <1>2, <2>1, AfterIs
<1>4. PutMeant(c, id) \in Intent
  BY MeantIs
<1>5. /\ DOMAIN meant' = DOMAIN docs'
      /\ meant'[id] = PutMeant(c, id)
      /\ \A i \in DOMAIN docs \ {id} : meant'[i] = meant[i]
  BY <1>2, <1>3 DEF With, IndInv, DocsInv, Written
<1>6. DocsInv'
  <2>1. clock' \in Nat /\ DOMAIN docs' \subseteq Ids
    BY <1>2, <1>3 DEF IndInv, DocsInv, Written
  <2>2. \A i \in DOMAIN docs' : meant'[i] \in Intent
    BY <1>3, <1>4, <1>5 DEF IndInv, DocsInv, Written
  <2> QED BY <1>2, <1>3, <1>5, <2>1, <2>2 DEF DocsInv, Written
<1>7. OneCanonicalPerGistChecked'
  <2> SUFFICES ASSUME NEW i \in DOMAIN docs', NEW j \in DOMAIN docs', i # j,
                      docs'[i].status = "canonical", docs'[j].status = "canonical",
                      Near(docs'[i].body, docs'[j].body)
               PROVE  i \in unchecked' \/ j \in unchecked'
    BY DEF OneCanonicalPerGistChecked
  <2>1. CASE id \in DOMAIN docs /\ Unchanged(id, c.body)
    <3>1. unchecked' = unchecked /\ docs[id].body = c.body
      BY <2>1 DEF PutWrites, Unchanged
    <3>2. \A k \in {i, j} : /\ k \in DOMAIN docs /\ docs'[k].body = docs[k].body
                            /\ docs[k].status = "canonical"
      BY <1>3, <2>1, <3>1 DEF Written, Keeping
    <3> QED BY <3>1, <3>2 DEF IndInv, OneCanonicalPerGistChecked
  <2>2. CASE ~(id \in DOMAIN docs /\ Unchanged(id, c.body))
    <3>1. unchecked' = unchecked \cup {id}
      BY <2>2 DEF PutWrites
    <3>2. CASE id \in {i, j}
      BY <3>1, <3>2
    <3>3. CASE id \notin {i, j}
      <4>1. \A k \in {i, j} : /\ k \in DOMAIN docs /\ docs'[k].body = docs[k].body
                              /\ docs[k].status = "canonical"
        BY <1>3, <3>3 DEF Written, Keeping
      <4> QED BY <3>1, <4>1 DEF IndInv, OneCanonicalPerGistChecked
    <3> QED BY <3>2, <3>3
  <2> QED BY <2>1, <2>2
<1>8. ASSUME NEW i \in DOMAIN docs \ {id}
      PROVE  (docs'[i].body = meant'[i].body /\ docs'[i].tag = meant'[i].tag) \/ i \in crossed'
  <2>1. docs'[i].tag = docs[i].tag /\ docs'[i].body = docs[i].body
    BY <1>3 DEF Written, Keeping
  <2>2. (docs[i].body = meant[i].body /\ docs[i].tag = meant[i].tag) \/ i \in crossed
    BY DEF IndInv, PatchSparesTheRestUncrossed
  <2> QED BY <1>2, <1>5, <2>1, <2>2
<1>9. (docs'[id].body = meant'[id].body /\ docs'[id].tag = meant'[id].tag) \/ id \in crossed'
  <2>1. docs'[id].body = c.body /\ docs'[id].tag = c.tag
    BY <1>3 DEF Written, Keeping
  <2>2. CASE KeepsRead(c) => ~Stale(c, id) /\ id \notin crossed
    BY <1>5, <2>1, <2>2, UnstaleIs
  <2>3. CASE ~(KeepsRead(c) => ~Stale(c, id) /\ id \notin crossed)
    BY <1>2, <2>3
  <2> QED BY <2>2, <2>3
<1>10. PatchSparesTheRestUncrossed'
  BY <1>3, <1>8, <1>9 DEF PatchSparesTheRestUncrossed, Written
<1> QED BY <1>3, <1>6, <1>7, <1>10

LEMMA MarkKeepsDocs ==
  ASSUME IndInv, NEW t \in Threads, Mark(t)
  PROVE  /\ DocsInv' /\ OneCanonicalPerGistChecked' /\ PatchSparesTheRestUncrossed'
         /\ DOMAIN docs' = DOMAIN docs
         /\ \A i \in DOMAIN docs : docs'[i].body = docs[i].body /\ docs'[i].mtime = docs[i].mtime
<1> DEFINE id == call[t].target
<1>1. id \in DOMAIN docs /\ UNCHANGED <<clock, meant, crossed>>
  BY DEF Mark, IndInv, MarkInv
<1>2. CASE UNCHANGED <<docs, unchecked>>
  BY <1>1, <1>2, SameKeepsDocs DEF IndInv, DocsInv
<1>3. CASE docs' \in Flagged(docs, id)
           /\ unchecked' = IF \A j, k \in Copies(docs, id) : j = k THEN unchecked \ {id}
                           ELSE unchecked
  <2> HIDE DEF id
  <2>1. /\ DOMAIN docs' = DOMAIN docs
        /\ \A i \in DOMAIN docs :
             /\ docs'[i] \in Doc /\ docs'[i].body = docs[i].body /\ docs'[i].mtime = docs[i].mtime
             /\ docs'[i].status = "canonical" => docs[i].status = "canonical"
        /\ (\A j, k \in Copies(docs, id) : j = k) /\ docs'[id].status = "canonical" =>
             \A k \in Copies(docs, id) : docs'[k].status # "canonical"
    BY <1>1, <1>3, FlaggedIs DEF IndInv
  <2>2. \A i \in DOMAIN docs : docs'[i].tag = docs[i].tag
    BY <1>1, <1>3, FlaggedIs DEF IndInv
  <2>3. DocsInv'
    BY <1>1, <2>1 DEF IndInv, DocsInv
  <2>4. PatchSparesTheRestUncrossed'
    BY <1>1, <2>1, <2>2 DEF IndInv, PatchSparesTheRestUncrossed
  <2>5. OneCanonicalPerGistChecked'
    <3> SUFFICES ASSUME NEW i \in DOMAIN docs, NEW j \in DOMAIN docs, i # j,
                        docs'[i].status = "canonical", docs'[j].status = "canonical",
                        Near(docs'[i].body, docs'[j].body)
                 PROVE  i \in unchecked' \/ j \in unchecked'
      BY <2>1 DEF OneCanonicalPerGistChecked
    <3>1. /\ Near(docs[i].body, docs[j].body) /\ Near(docs[j].body, docs[i].body)
          /\ docs[i].status = "canonical" /\ docs[j].status = "canonical"
      BY <2>1, NearBothWays
    <3>2. i \in unchecked \/ j \in unchecked
      BY <3>1 DEF IndInv, OneCanonicalPerGistChecked
    <3>3. CASE ~\A k, m \in Copies(docs, id) : k = m
      BY <1>3, <3>2, <3>3
    <3>4. CASE (\A k, m \in Copies(docs, id) : k = m) /\ id \in {i, j}
      <4>1. \A k \in Copies(docs, id) : docs'[k].status # "canonical"
        BY <2>1, <3>4
      <4>2. (i = id => j \in Copies(docs, id)) /\ (j = id => i \in Copies(docs, id))
        BY <3>1 DEF Copies
      <4> QED BY <3>4, <4>1, <4>2
    <3>5. CASE id \notin {i, j}
      BY <1>3, <3>2, <3>5
    <3> QED BY <3>3, <3>4, <3>5
  <2> QED BY <2>1, <2>3, <2>4, <2>5
<1> QED BY <1>2, <1>3 DEF Mark

LEMMA TagKeepsDocs ==
  ASSUME IndInv, NEW t \in Threads, Tag(t)
  PROVE  /\ DocsInv' /\ OneCanonicalPerGistChecked' /\ PatchSparesTheRestUncrossed'
         /\ DOMAIN docs' = DOMAIN docs
         /\ \A i \in DOMAIN docs : docs'[i].body = docs[i].body /\ docs'[i].mtime = docs[i].mtime
<1>1. PICK id \in DOMAIN docs, tag \in BOOLEAN :
        /\ docs' = [docs EXCEPT ![id].tag = tag]
        /\ meant' = [meant EXCEPT ![id].tag = tag]
  BY DEF Tag
<1>2. clock' = clock /\ crossed' = crossed /\ unchecked' = unchecked
  BY DEF Tag
<1>3. docs[id] \in Doc /\ meant[id] \in Intent /\ DOMAIN meant = DOMAIN docs
  BY DEF IndInv, DocsInv
<1>4. /\ DOMAIN docs' = DOMAIN docs /\ \A i \in DOMAIN docs \ {id} : docs'[i] = docs[i]
      /\ docs'[id] = [docs[id] EXCEPT !.tag = tag]
  BY <1>1
<1>5. /\ DOMAIN meant' = DOMAIN docs /\ \A i \in DOMAIN docs \ {id} : meant'[i] = meant[i]
      /\ meant'[id] = [meant[id] EXCEPT !.tag = tag]
  BY <1>1, <1>3
<1>6. docs'[id] \in Doc /\ docs'[id].body = docs[id].body /\ docs'[id].mtime = docs[id].mtime
      /\ docs'[id].status = docs[id].status
  BY <1>3, <1>4 DEF Doc
<1>7. meant'[id] \in Intent /\ meant'[id].body = meant[id].body
  BY <1>3, <1>5 DEF Intent
<1>8. \A i \in DOMAIN docs : docs'[i].body = docs[i].body /\ docs'[i].status = docs[i].status
                             /\ docs'[i].mtime = docs[i].mtime /\ meant'[i].body = meant[i].body
  BY <1>4, <1>5, <1>6, <1>7
<1>9. DocsInv'
  BY <1>2, <1>4, <1>5, <1>6, <1>7 DEF IndInv, DocsInv
<1>10. OneCanonicalPerGistChecked'
  BY <1>2, <1>4, <1>8 DEF IndInv, OneCanonicalPerGistChecked
<1>11. PatchSparesTheRestUncrossed'
  <2>1. \A i \in DOMAIN docs : docs[i].tag = meant[i].tag => docs'[i].tag = meant'[i].tag
    BY <1>3, <1>4, <1>5 DEF Doc, Intent
  <2> QED BY <1>2, <1>4, <1>8, <2>1 DEF IndInv, PatchSparesTheRestUncrossed
<1> QED BY <1>4, <1>8, <1>9, <1>10, <1>11

LEMMA ArchiveKeepsDocs ==
  ASSUME IndInv, NEW t \in Threads, Archive(t)
  PROVE  /\ DocsInv' /\ OneCanonicalPerGistChecked' /\ PatchSparesTheRestUncrossed'
         /\ DOMAIN docs' = DOMAIN docs
         /\ \A i \in DOMAIN docs : docs'[i].body = docs[i].body /\ docs'[i].mtime = docs[i].mtime
<1>0. PICK ref \in Refs, state \in {"active", "archived"} :
        /\ Resolve(ref) # None
        /\ docs' = [docs EXCEPT ![Resolve(ref)].lifecycle = state]
  BY DEF Archive
<1>1. PICK id : id \in DOMAIN docs /\ docs' = [docs EXCEPT ![id].lifecycle = state]
  BY <1>0, ResolveIs
<1>2. clock' = clock /\ crossed' = crossed /\ meant' = meant /\ unchecked' = unchecked
  BY DEF Archive
<1>3. docs[id] \in Doc
  BY <1>1 DEF IndInv, DocsInv
<1>4. /\ DOMAIN docs' = DOMAIN docs /\ \A i \in DOMAIN docs \ {id} : docs'[i] = docs[i]
      /\ docs'[id] = [docs[id] EXCEPT !.lifecycle = state]
  BY <1>1
<1>5. docs'[id] \in Doc /\ docs'[id].body = docs[id].body /\ docs'[id].mtime = docs[id].mtime
      /\ docs'[id].status = docs[id].status
  BY <1>1, <1>3, <1>4 DEF Doc
<1>6. \A i \in DOMAIN docs : docs'[i].body = docs[i].body /\ docs'[i].status = docs[i].status
                             /\ docs'[i].mtime = docs[i].mtime
  BY <1>4, <1>5
<1>7. DocsInv'
  BY <1>2, <1>4, <1>5, <1>6 DEF IndInv, DocsInv
<1>8. OneCanonicalPerGistChecked'
  BY <1>2, <1>4, <1>6 DEF IndInv, OneCanonicalPerGistChecked
<1>9. PatchSparesTheRestUncrossed'
  <2>1. \A i \in DOMAIN docs : docs'[i].tag = docs[i].tag
    BY <1>3, <1>4 DEF Doc
  <2> QED BY <1>2, <1>4, <1>6, <2>1 DEF IndInv, PatchSparesTheRestUncrossed
<1> QED BY <1>4, <1>6, <1>7, <1>8, <1>9

LEMMA DeleteKeepsDocs ==
  ASSUME IndInv, NEW t \in Threads, Delete(t)
  PROVE  /\ DocsInv' /\ OneCanonicalPerGistChecked' /\ PatchSparesTheRestUncrossed'
         /\ DOMAIN docs' \subseteq DOMAIN docs
         /\ \A i \in DOMAIN docs' : docs'[i] = docs[i]
<1>1. PICK id \in DOMAIN docs :
        /\ docs' = [j \in DOMAIN docs \ {id} |-> docs[j]]
        /\ meant' = [j \in DOMAIN docs \ {id} |-> meant[j]]
        /\ crossed' = crossed \ {id}
        /\ unchecked' = unchecked \ {id}
  BY DEF Delete
<1>2. clock' = clock
  BY DEF Delete
<1>3. /\ DOMAIN docs' = DOMAIN docs \ {id} /\ DOMAIN meant' = DOMAIN docs'
      /\ \A i \in DOMAIN docs' : docs'[i] = docs[i] /\ meant'[i] = meant[i]
  BY <1>1
<1>4. DocsInv'
  BY <1>2, <1>3 DEF IndInv, DocsInv
<1>5. OneCanonicalPerGistChecked'
  BY <1>1, <1>3 DEF IndInv, OneCanonicalPerGistChecked
<1>6. PatchSparesTheRestUncrossed'
  BY <1>1, <1>3 DEF IndInv, PatchSparesTheRestUncrossed
<1> QED BY <1>3, <1>4, <1>5, <1>6

-----------------------------------------------------------------------------
(***************************************************************************)
(* The patches under way.                                                  *)
(***************************************************************************)
\* What the docs may do under a patch without making it wrong.
LEMMA DocsKeepPatches ==
  ASSUME IndInv, clock \in Nat, clock' \in Nat, clock <= clock',
         \A i \in DOMAIN docs' :
            \/ docs'[i].mtime > clock
            \/ i \in DOMAIN docs /\ docs'[i].body = docs[i].body /\ docs'[i].mtime = docs[i].mtime,
         NEW t \in Threads, call'[t] = call[t],
         call[t].at = "put", call[t].section # None
  PROVE  /\ call'[t].op = "write"
         /\ call'[t].readAt <= clock'
         /\ call'[t].target \in DOMAIN docs' /\ docs'[call'[t].target].mtime = call'[t].readAt =>
              call'[t].body =
                [docs'[call'[t].target].body EXCEPT ![call'[t].section] = call'[t].text]
<1>1. /\ call[t].op = "write" /\ call[t].readAt <= clock /\ call[t].readAt \in Nat
      /\ call[t].target \in DOMAIN docs /\ docs[call[t].target].mtime = call[t].readAt =>
           call[t].body = [docs[call[t].target].body EXCEPT ![call[t].section] = call[t].text]
  BY PutState DEF IndInv, PatchInv
<1>2. call[t].readAt <= clock'
  BY <1>1
<1>3. ASSUME call[t].target \in DOMAIN docs', docs'[call[t].target].mtime = call[t].readAt
      PROVE  call[t].body =
               [docs'[call[t].target].body EXCEPT ![call[t].section] = call[t].text]
  <2>1. ~(docs'[call[t].target].mtime > clock)
    BY <1>1, <1>3
  <2> QED BY <1>1, <1>3, <2>1
<1> QED BY <1>1, <1>2, <1>3

\* A step of one thread that leaves it no patch to put.
LEMMA KeepsPatches ==
  ASSUME IndInv, NEW t \in Threads, clock' \in Nat, clock <= clock',
         \A u \in Threads \ {t} : call'[u] = call[u],
         ~(call'[t].at = "put" /\ call'[t].section # None),
         \A i \in DOMAIN docs' :
            \/ docs'[i].mtime > clock
            \/ i \in DOMAIN docs /\ docs'[i].body = docs[i].body /\ docs'[i].mtime = docs[i].mtime
  PROVE  PatchInv'
<1> SUFFICES ASSUME NEW u \in Threads, call'[u].at = "put", call'[u].section # None
             PROVE  /\ call'[u].op = "write"
                    /\ call'[u].readAt <= clock'
                    /\ call'[u].target \in DOMAIN docs' /\ docs'[call'[u].target].mtime = call'[u].readAt =>
                         call'[u].body =
                           [docs'[call'[u].target].body EXCEPT ![call'[u].section] = call'[u].text]
  BY DEF PatchInv
<1>1. u # t /\ call'[u] = call[u] /\ clock \in Nat
  BY DEF IndInv, DocsInv
<1> QED BY <1>1, DocsKeepPatches


-----------------------------------------------------------------------------
(***************************************************************************)
(* The calls.                                                              *)
(***************************************************************************)
LEMMA CallMoves ==
  ASSUME IndInv, NEW t \in Threads, NEW c, IsCall(c), call' = [call EXCEPT ![t] = c]
  PROVE  CallsInv' /\ call'[t] = c /\ \A u \in Threads \ {t} : call'[u] = call[u]
<1>1. DOMAIN call = Threads /\ \A u \in Threads : IsCall(call[u])
  BY DEF IndInv, CallsInv
<1>2. DOMAIN call' = Threads /\ call'[t] = c /\ \A u \in Threads \ {t} : call'[u] = call[u]
  BY <1>1
<1>3. \A u \in Threads : IsCall(call'[u])
  BY <1>1, <1>2, Zenon
<1> QED BY <1>2, <1>3 DEF CallsInv

\* A call that ends.
LEMMA ReplyMoves ==
  ASSUME IndInv, NEW t \in Threads, Reply(t)
  PROVE  /\ CallsInv' /\ \A u \in Threads \ {t} : call'[u] = call[u]
         /\ call'[t] = Idle
BY CallMoves DEF Reply, IsCall

\* A section write after it read its doc, and a write in general.
LEMMA WriteMoves ==
  ASSUME IndInv, NEW t \in Threads,
         WriteCall(t) \/ WriteSection(t) \/ WriteWhole(t) \/ Probe(t)
  PROVE  /\ CallsInv' /\ \A u \in Threads \ {t} : call'[u] = call[u]
         /\ call'[t] = Idle \/ call'[t] \in WriteState
         /\ call'[t].at = "put" /\ call'[t].section # None =>
              /\ call'[t].target \in DOMAIN docs
              /\ call'[t].readAt = docs[call'[t].target].mtime
              /\ call'[t].body =
                   [docs[call'[t].target].body EXCEPT ![call'[t].section] = call'[t].text]
<1>0. IsCall(call[t]) /\ clock \in Nat
  BY DEF IndInv, CallsInv, DocsInv
<1>1. CASE WriteCall(t)
  <2>1. PICK c \in WriteState : c.at = "read" /\ call' = [call EXCEPT ![t] = c]
    <3>1. Drafts \subseteq Bodies /\ Heads \cup {None} \subseteq Heads \cup {None}
      BY ToolsAssumption DEF Bodies
    <3>2. PICK ref \in Refs \cup {None}, section \in Heads \cup {None}, force \in BOOLEAN,
               body \in Drafts, text \in Texts :
            Begin(t, [op |-> "write", at |-> "read", ref |-> ref, section |-> section,
                      force |-> force, body |-> body, text |-> text, tag |-> FALSE,
                      target |-> None, readAt |-> 0])
      BY <1>1, Zenon DEF WriteCall
    <3>3. [op |-> "write", at |-> "read", ref |-> ref, section |-> section,
           force |-> force, body |-> body, text |-> text, tag |-> FALSE,
           target |-> None, readAt |-> 0] \in WriteState
      BY <3>1 DEF WriteState
    <3> QED BY <3>2, <3>3 DEF Begin
  <2> QED BY <2>1, CallMoves DEF IsCall
<1>2. CASE WriteSection(t) /\ ~Reply(t)
  <2>1. call[t] \in WriteState /\ call[t].at = "read" /\ call[t].section \in Heads
    BY <1>0, <1>2 DEF WriteSection, IsCall, Idle, WriteState, MarkState, RestoreState, QueryState, HitState
  <2>2. PICK id \in DOMAIN docs :
          call' = [call EXCEPT ![t] =
                     [call[t] EXCEPT !.at = "put", !.target = id, !.readAt = docs[id].mtime,
                                     !.body = [docs[id].body EXCEPT ![call[t].section] = call[t].text],
                                     !.tag = docs[id].tag]]
    <3>2. call[t].ref # None /\ Resolve(call[t].ref) # None
      BY <1>2 DEF WriteSection
    <3>3. PICK id \in DOMAIN docs : id = Resolve(call[t].ref)
      BY <3>2, ResolveIs
    <3>4. /\ Patched(docs[id].body, call[t].section, call[t].text) # None
          /\ call' = [call EXCEPT ![t] =
               [call[t] EXCEPT !.at = "put", !.target = id, !.readAt = docs[id].mtime,
                          !.body = Patched(docs[id].body, call[t].section, call[t].text),
                          !.tag = docs[id].tag]]
      BY <1>2, <3>2, <3>3 DEF WriteSection
    <3>5. Patched(docs[id].body, call[t].section, call[t].text)
            = [docs[id].body EXCEPT ![call[t].section] = call[t].text]
      BY <3>4 DEF Patched
    <3> QED BY <3>4, <3>5
  <2>3. docs[id] \in Doc /\ id \in Ids
    BY DEF IndInv, DocsInv
  <2> DEFINE b == [docs[id].body EXCEPT ![call[t].section] = call[t].text]
             c == [call[t] EXCEPT !.at = "put", !.target = id, !.readAt = docs[id].mtime,
                                  !.body = b, !.tag = docs[id].tag]
  <2>4. b \in Bodies
    BY <2>1, <2>3 DEF Doc, Bodies, WriteState
  <2> HIDE DEF b
  <2>5. c \in WriteState /\ c.section = call[t].section /\ c.text = call[t].text
        /\ c.at = "put" /\ c.target = id /\ c.readAt = docs[id].mtime /\ c.body = b
    BY <2>1, <2>3, <2>4 DEF WriteState, Doc
  <2>6. call' = [call EXCEPT ![t] = c]
    BY <2>2 DEF b
  <2> HIDE DEF c
  <2>7. IsCall(c)
    BY <2>5 DEF IsCall
  <2>8. CallsInv' /\ call'[t] = c /\ \A u \in Threads \ {t} : call'[u] = call[u]
    BY <2>6, <2>7, CallMoves
  <2> QED BY <2>5, <2>8 DEF b
<1>3. CASE Reply(t)
  BY <1>3, ReplyMoves DEF Idle
<1>4. CASE WriteWhole(t)
  <2>1. call[t] \in WriteState /\ DOMAIN call = Threads /\ call[t].section = None
    BY <1>0, <1>4 DEF WriteWhole, IsCall, Idle, WriteState, MarkState, RestoreState, QueryState,
                      HitState, IndInv, CallsInv
  <2>2. PICK target \in Ids \cup {None}, at \in {"probe", "put"} :
          call' = [call EXCEPT ![t].target = target, ![t].at = at]
    <3>1. Resolve(call[t].ref) \in Ids \cup {None} /\ call[t].ref \in Ids \cup {None}
      BY <2>1, ResolveIs DEF IndInv, DocsInv, Ids, WriteState
    <3> QED BY <1>4, <3>1 DEF WriteWhole
  <2>3. call' = [call EXCEPT ![t] = [call[t] EXCEPT !.target = target, !.at = at]]
    BY <2>1, <2>2
  <2> DEFINE c == [call[t] EXCEPT !.target = target, !.at = at]
  <2>4. c \in WriteState /\ c.section = None
    BY <2>1 DEF WriteState
  <2> HIDE DEF c
  <2>5. IsCall(c)
    BY <2>4 DEF IsCall
  <2>6. CallsInv' /\ call'[t] = c /\ \A u \in Threads \ {t} : call'[u] = call[u]
    BY <2>3, <2>5, CallMoves DEF c
  <2> QED BY <2>4, <2>6
<1>5. CASE Probe(t)
  <2>1. CASE Reply(t)
    BY <2>1, ReplyMoves DEF Idle
  <2>2. CASE ~Reply(t)
    <3>1. call[t] \in WriteState /\ DOMAIN call = Threads
      BY <1>0, <1>5 DEF Probe, IsCall, Idle, WriteState, MarkState, RestoreState, QueryState,
                        HitState, IndInv, CallsInv
    <3>2. call' = [call EXCEPT ![t] = [call[t] EXCEPT !.at = "put"]]
      BY <1>5, <2>2, <3>1 DEF Probe
    <3> DEFINE c == [call[t] EXCEPT !.at = "put"]
    <3>3. c \in WriteState /\ c.section = call[t].section /\ c.at = "put"
      BY <3>1 DEF WriteState
    <3>4. call[t].section = None
      BY <1>0, <1>5 DEF Probe, IsCall, Idle, WriteState, MarkState, RestoreState, QueryState, HitState
    <3> HIDE DEF c
    <3>5. IsCall(c)
      BY <3>3 DEF IsCall
    <3>6. CallsInv' /\ call'[t] = c /\ \A u \in Threads \ {t} : call'[u] = call[u]
      BY <3>2, <3>5, CallMoves DEF c
    <3> QED BY <3>3, <3>4, <3>6
  <2> QED BY <2>1, <2>2
<1> QED BY <1>1, <1>2, <1>3, <1>4, <1>5


\* The calls that change a doc at once are over with it, or its check is due.
LEMMA ChangeMoves ==
  ASSUME IndInv, NEW t \in Threads, Put(t) \/ Mark(t) \/ Tag(t) \/ Archive(t) \/ Delete(t)
  PROVE  /\ CallsInv' /\ \A u \in Threads \ {t} : call'[u] = call[u]
         /\ \/ call'[t] = Idle
            \/ call'[t] \in MarkState /\ call'[t].target \in DOMAIN docs'
<1>1. CASE Reply(t)
  BY <1>1, ReplyMoves
<1>2. CASE Put(t) /\ ~Reply(t)
  <2>1. PICK id \in Ids : Placed(t, id) /\ PutWrites(t, id)
    BY <1>2, PutIs
  <2> DEFINE c == [op |-> "mark", at |-> "mark", target |-> id]
  <2>2. call' = [call EXCEPT ![t] = c]
    BY <1>2, <2>1 DEF PutWrites
  <2>3. c \in MarkState /\ c.target = id
    BY DEF MarkState
  <2> HIDE DEF c
  <2>4. IsCall(c)
    BY <2>3 DEF IsCall
  <2>5. id \in DOMAIN docs'
    <3>1. Written(docs', id, call[t].body)
      BY <1>2, <2>1, WriteKeepsDocs DEF Put
    <3> QED BY <3>1 DEF Written
  <2> QED BY <2>2, <2>3, <2>4, <2>5, CallMoves
<1>3. CASE Tag(t) \/ Archive(t) \/ Delete(t)
  <2>1. call' = [call EXCEPT ![t] = Idle]
    BY <1>3 DEF Tag, Archive, Delete, Begin
  <2> QED BY <2>1, CallMoves DEF IsCall
<1> QED BY <1>1, <1>2, <1>3 DEF Mark

LEMMA RestoreMoves ==
  ASSUME IndInv, NEW t \in Threads, Restore(t)
  PROVE  /\ CallsInv' /\ \A u \in Threads \ {t} : call'[u] = call[u]
         /\ call'[t] \in RestoreState
<1>1. PICK ref \in Refs :
        /\ Resolve(ref) # None /\ docs[Resolve(ref)].old # None
        /\ Begin(t, [op |-> "restore", at |-> "put", section |-> None, force |-> FALSE,
                     body |-> docs[Resolve(ref)].old, tag |-> docs[Resolve(ref)].tag,
                     target |-> Resolve(ref), readAt |-> docs[Resolve(ref)].mtime])
  BY Zenon DEF Restore
<1>2. PICK id \in DOMAIN docs : id = Resolve(ref)
  BY <1>1, ResolveIs
<1>3. docs[id] \in Doc /\ id \in Ids
  BY DEF IndInv, DocsInv
<1> DEFINE c == [op |-> "restore", at |-> "put", section |-> None, force |-> FALSE,
                 body |-> docs[id].old, tag |-> docs[id].tag, target |-> id, readAt |-> docs[id].mtime]
<1>4. c \in RestoreState
  BY <1>1, <1>2, <1>3 DEF RestoreState, Doc
<1>5. call' = [call EXCEPT ![t] = c]
  BY <1>1, <1>2 DEF Begin
<1> HIDE DEF c
<1>6. IsCall(c)
  BY <1>4 DEF IsCall
<1> QED BY <1>4, <1>5, <1>6, CallMoves

LEMMA QueryMoves ==
  ASSUME IndInv, NEW t \in Threads, Query(t)
  PROVE  /\ CallsInv' /\ \A u \in Threads \ {t} : call'[u] = call[u]
         /\ call'[t].op = "query" /\ call'[t].at = "lookup" /\ call'[t].scope \in Scopes
         /\ call'[t].version = Version(call'[t].scope)
         /\ since' = [since EXCEPT ![t] = {Found(call'[t].scope)}]
<1>1. PICK s \in Scopes :
        /\ Begin(t, [op |-> "query", at |-> "lookup", scope |-> s, out |-> {},
                     version |-> CorpusVersion(docs, file, s)])
        /\ since' = [since EXCEPT ![t] = {Shown(docs, file, s)}]
  BY Zenon DEF Query
<1> DEFINE c == [op |-> "query", at |-> "lookup", scope |-> s, out |-> {},
                 version |-> CorpusVersion(docs, file, s)]
<1>2. c \in QueryState(c.out, c.version) /\ c.op = "query" /\ c.at = "lookup" /\ c.scope = s
      /\ c.version = Version(s)
  BY DEF QueryState, Version
<1>3. call' = [call EXCEPT ![t] = c]
  BY <1>1 DEF Begin
<1> HIDE DEF c
<1>4. IsCall(c)
  BY <1>2 DEF IsCall
<1> QED BY <1>1, <1>2, <1>3, <1>4, CallMoves DEF Found

\* A query under way.
LEMMA QueryIs ==
  ASSUME IndInv, NEW t \in Threads, call[t].at \in {"lookup", "search", "store"}
  PROVE  /\ call[t].op = "query" /\ call[t].scope \in Scopes
         /\ call[t] \in QueryState(call[t].out, call[t].version)
<1>1. IsCall(call[t])
  BY DEF IndInv, CallsInv
<1>2. call[t] \in QueryState(call[t].out, call[t].version)
  BY <1>1 DEF IsCall, Idle, WriteState, MarkState, RestoreState, HitState
<1> QED BY <1>2 DEF QueryState

LEMMA LookupMoves ==
  ASSUME IndInv, NEW t \in Threads, Lookup(t)
  PROVE  /\ CallsInv' /\ \A u \in Threads \ {t} : call'[u] = call[u]
         /\ \/ /\ call'[t].op = "hit" /\ call'[t].at = "done"
               /\ call'[t].scope = call[t].scope
               /\ call'[t].fresh <=> cache[call[t].scope].out \in since[t]
               /\ cache[call[t].scope] # None
               /\ cache[call[t].scope].version = call[t].version
               /\ since' = [since EXCEPT ![t] = {}]
            \/ /\ call'[t].op = "query" /\ call'[t].at = "search"
               /\ call'[t].scope = call[t].scope /\ call'[t].version = call[t].version
               /\ UNCHANGED since
<1>1. /\ call[t].op = "query" /\ call[t].scope \in Scopes
      /\ call[t] \in QueryState(call[t].out, call[t].version)
  BY QueryIs DEF Lookup
<1>2. CASE Hit(t, cache[call[t].scope].out) /\ since' = [since EXCEPT ![t] = {}]
           /\ cache[call[t].scope] # None /\ cache[call[t].scope].version = call[t].version
  <2> DEFINE c == [op |-> "hit", at |-> "done", scope |-> call[t].scope,
                   fresh |-> cache[call[t].scope].out \in since[t]]
  <2>1. call' = [call EXCEPT ![t] = c]
    BY <1>2, Zenon DEF Hit
  <2>2. c \in HitState
    BY <1>1 DEF HitState
  <2>3. /\ c.op = "hit" /\ c.at = "done" /\ c.scope = call[t].scope
        /\ c.fresh <=> cache[call[t].scope].out \in since[t]
    OBVIOUS
  <2> HIDE DEF c
  <2>4. IsCall(c)
    BY <2>2 DEF IsCall
  <2> QED BY <1>2, <2>1, <2>3, <2>4, CallMoves
<1>3. CASE call' = [call EXCEPT ![t].at = "search"] /\ UNCHANGED since
  <2> DEFINE c == [call[t] EXCEPT !.at = "search"]
  <2>1. call' = [call EXCEPT ![t] = c]
    BY <1>3
  <2>2. /\ c \in QueryState(c.out, c.version) /\ c.op = "query" /\ c.at = "search"
        /\ c.scope = call[t].scope /\ c.version = call[t].version
    BY <1>1 DEF QueryState
  <2> HIDE DEF c
  <2>3. IsCall(c)
    BY <2>2 DEF IsCall
  <2> QED BY <1>3, <2>1, <2>2, <2>3, CallMoves
<1> QED BY <1>2, <1>3 DEF Lookup

LEMMA SearchMoves ==
  ASSUME IndInv, NEW t \in Threads, Search(t)
  PROVE  /\ CallsInv' /\ \A u \in Threads \ {t} : call'[u] = call[u]
         /\ call'[t].op = "query" /\ call'[t].at = "store"
         /\ call'[t].scope = call[t].scope /\ call'[t].version = call[t].version
         /\ call'[t].out = Found(call[t].scope)
         /\ call[t].op = "query" /\ call[t].scope \in Scopes
<1>1. /\ call[t].op = "query" /\ call[t].scope \in Scopes
      /\ call[t] \in QueryState(call[t].out, call[t].version)
  BY QueryIs DEF Search
<1> DEFINE out == Shown(docs, file, call[t].scope)
           c == [call[t] EXCEPT !.at = "store", !.out = out]
<1>2. call' = [call EXCEPT ![t] = c]
  BY DEF Search
<1> HIDE DEF out
<1>3. /\ c \in QueryState(c.out, c.version) /\ c.op = "query" /\ c.at = "store"
      /\ c.scope = call[t].scope /\ c.version = call[t].version /\ c.out = out
  BY <1>1 DEF QueryState
<1> HIDE DEF c
<1>4. IsCall(c)
  BY <1>3 DEF IsCall
<1> QED BY <1>1, <1>2, <1>3, <1>4, CallMoves DEF Found, out


LEMMA StoreAnswerMoves ==
  ASSUME IndInv, NEW t \in Threads, StoreAnswer(t)
  PROVE  /\ CallsInv' /\ call'[t] = Idle /\ \A u \in Threads \ {t} : call'[u] = call[u]
         /\ call[t].op = "query" /\ call[t].at = "store" /\ call[t].scope \in Scopes
         /\ since' = [since EXCEPT ![t] = {}]
         /\ DOMAIN cache' = Scopes
         /\ \A s \in Scopes :
              \/ cache'[s] = None \/ cache'[s] = cache[s]
              \/ s = call[t].scope /\ cache'[s].version = call[t].version
                 /\ cache'[s].out = call[t].out
<1>1. /\ call[t].op = "query" /\ call[t].scope \in Scopes
      /\ call[t] \in QueryState(call[t].out, call[t].version)
  BY QueryIs DEF StoreAnswer
<1>2. CallsInv' /\ call'[t] = Idle /\ \A u \in Threads \ {t} : call'[u] = call[u]
  BY ReplyMoves DEF StoreAnswer
<1> DEFINE rows == [cache EXCEPT ![call[t].scope] = Entry(call[t])]
<1>3. cache' = Capped(rows)
  BY DEF StoreAnswer
<1>4. \A s \in Scopes : \/ rows[s] = cache[s]
                        \/ s = call[t].scope /\ rows[s] = Entry(call[t])
  BY <1>1 DEF IndInv, CacheInv, RowInv
<1> HIDE DEF rows
<1>5. DOMAIN cache' = Scopes /\ \A s \in Scopes : cache'[s] = None \/ cache'[s] = rows[s]
  BY <1>3 DEF Capped
<1>6. Entry(call[t]).version = call[t].version /\ Entry(call[t]).out = call[t].out
  BY DEF Entry
<1>7. \A s \in Scopes :
        \/ cache'[s] = None \/ cache'[s] = cache[s]
        \/ s = call[t].scope /\ cache'[s].version = call[t].version
           /\ cache'[s].out = call[t].out
  BY <1>4, <1>5, <1>6
<1> QED BY <1>1, <1>2, <1>5, <1>7 DEF StoreAnswer

-----------------------------------------------------------------------------
(***************************************************************************)
(* The query cache.                                                        *)
(***************************************************************************)
\* A change of the docs: what was found under a version stays true of it, or
\* is of the past.
LEMMA RememberHolds ==
  ASSUME VersionInv, Remember, NEW v, NEW out, NEW s \in Scopes, Holds(v, out, s)
  PROVE  Holds(v, out, s)'
<1>1. CASE Changed(s)
  BY <1>1 DEF Remember, Holds
<1>2. CASE ~Changed(s)
  BY <1>2 DEF Remember, Holds, Changed, Found
<1> QED BY <1>1, <1>2

LEMMA RememberVersions ==
  ASSUME VersionInv, Remember
  PROVE  VersionInv' /\ \A s \in Scopes : Muted(s) => Muted(s)'
<1>1. \A s \in Scopes : Muted(s) => Muted(s)'
  BY DEF Remember, Muted
<1>2. DOMAIN versions' = Scopes
  BY DEF Remember
<1>3. ASSUME NEW s \in Scopes PROVE Version(s)' \in versions'[s].now
  BY DEF Remember, Version
<1>4. ASSUME NEW s \in Scopes, Version(s)' \in versions'[s].past PROVE Muted(s)'
  <2>1. CASE Changed(s) \/ Version(s)' # Version(s)
    BY <1>4, <2>1 DEF Remember, Muted, Version
  <2>2. CASE ~Changed(s) /\ Version(s)' = Version(s)
    <3>1. Version(s) \in versions[s].past
      BY <1>4, <2>2 DEF Remember
    <3> QED BY <1>1, <3>1 DEF VersionInv
  <2> QED BY <2>1, <2>2
<1> QED BY <1>1, <1>2, <1>3, <1>4 DEF VersionInv

\* A change of the docs by a thread that runs no query, or by an index pass.
LEMMA RememberKeepsCache ==
  ASSUME IndInv, Remember, UNCHANGED cache,
         \A t \in Threads :
            call'[t] = call[t] \/ (call'[t].op \notin {"query", "hit"} /\ call[t].op # "query")
  PROVE  CacheInv'
<1>1. CacheInv /\ DOMAIN call = Threads /\ \A t \in Threads : IsCall(call[t])
  BY DEF IndInv, CallsInv
<1>2. VersionInv' /\ \A s \in Scopes : Muted(s) => Muted(s)'
  BY <1>1, RememberVersions DEF CacheInv
<1>3. ASSUME NEW t \in Threads, call[t].op = "query"
      PROVE  call[t].scope \in Scopes
  BY <1>1, <1>3 DEF IsCall, Idle, WriteState, MarkState, RestoreState, QueryState, HitState
<1>4. RowInv'
  BY <1>1, RememberHolds DEF RowInv, CacheInv
<1>5. DOMAIN since' = Threads
  BY DEF Remember
<1>6. ASSUME NEW t \in Threads, call'[t].op = "query"
      PROVE  /\ call'[t] = call[t] /\ call[t].scope \in Scopes /\ since[t] # {}
             /\ since'[t] = since[t] \cup {Found(call[t].scope)'}
             /\ call[t].version \in versions'[call[t].scope].past \cup versions'[call[t].scope].now
             /\ call[t].at = "store" => Holds(call[t].version, call[t].out, call[t].scope)'
  <2>1. call'[t] = call[t] /\ call[t].scope \in Scopes
    BY <1>3, <1>6 DEF Idle
  <2>2. /\ Found(call[t].scope) \in since[t]
        /\ call[t].version \in versions[call[t].scope].past \cup versions[call[t].scope].now
        /\ call[t].at = "store" => Holds(call[t].version, call[t].out, call[t].scope)
    BY <1>1, <1>6, <2>1 DEF CacheInv, QueryInv
  <2>3. since'[t] = since[t] \cup {Found(call[t].scope)'}
    BY <2>1, <2>2 DEF Remember, Found
  <2>4. call[t].version \in versions'[call[t].scope].past \cup versions'[call[t].scope].now
    BY <2>1, <2>2 DEF Remember
  <2>5. call[t].at = "store" => Holds(call[t].version, call[t].out, call[t].scope)'
    BY <1>1, <2>1, <2>2, RememberHolds DEF CacheInv
  <2> QED BY <2>1, <2>2, <2>3, <2>4, <2>5
<1>7. ASSUME NEW t \in Threads, since'[t] # {}
      PROVE  call'[t].op = "query"
  <2>1. since[t] # {}
    BY <1>7 DEF Remember
  <2> QED BY <1>1, <2>1 DEF CacheInv, QueryInv, Idle
<1>8. QueryInv'
  BY <1>5, <1>6, <1>7 DEF QueryInv, Found
<1>9. LookupInv'
  <2> SUFFICES ASSUME NEW t \in Threads, call'[t].op = "query", call'[t].at = "lookup",
                      ~Muted(call[t].scope)'
               PROVE  /\ cache'[call'[t].scope] # None
                         /\ cache'[call'[t].scope].version = call'[t].version =>
                             cache'[call'[t].scope].out \in since'[t]
                      /\ \A u \in Threads :
                           call'[u].op = "query" /\ call'[u].at = "store"
                             /\ call'[u].scope = call'[t].scope
                             /\ call'[u].version = call'[t].version
                             => call'[u].out \in since'[t]
    BY DEF LookupInv, Muted
  <2>1. call'[t] = call[t] /\ call[t].scope \in Scopes /\ since[t] \subseteq since'[t]
    BY <1>6
  <2>2. ~Muted(call[t].scope)
    BY <1>2, <2>1 DEF Muted
  <2>3. \A u \in Threads : call'[u].op = "query" => call'[u] = call[u]
    BY <1>6
  <2> QED BY <1>1, <2>1, <2>2, <2>3 DEF CacheInv, LookupInv
<1>10. HitIsFreshUnlessQuiet'
  <2> SUFFICES ASSUME NEW t \in Threads, call'[t].op = "hit"
               PROVE  call'[t].fresh \/ Muted(call[t].scope)'
    BY DEF HitIsFreshUnlessQuiet, Muted
  <2>1. call'[t] = call[t]
    BY DEF Idle
  <2>2. call[t].scope \in Scopes
    BY <1>1, <2>1 DEF IsCall, Idle, WriteState, MarkState, RestoreState, QueryState, HitState
  <2>3. call[t].fresh \/ Muted(call[t].scope)
    BY <1>1, <2>1 DEF CacheInv, HitIsFreshUnlessQuiet, Muted
  <2> QED BY <1>2, <2>1, <2>2, <2>3
<1> QED BY <1>2, <1>4, <1>8, <1>9, <1>10 DEF CacheInv


\* A step that leaves the docs alone.
LEMMA SameVersions ==
  ASSUME IndInv, StoreSame
  PROVE  /\ VersionInv'
         /\ \A s \in Scopes : Muted(s)' = Muted(s) /\ Version(s)' = Version(s)
                              /\ Found(s)' = Found(s)
         /\ \A v, out : \A s \in Scopes : Holds(v, out, s)' = Holds(v, out, s)
<1>1. \A s \in Scopes : Muted(s)' = Muted(s) /\ Version(s)' = Version(s) /\ Found(s)' = Found(s)
  BY DEF StoreSame, Muted, Version, Found
<1>2. versions' = versions
  BY DEF StoreSame
<1>3. VersionInv'
  BY <1>1, <1>2 DEF IndInv, CacheInv, VersionInv
<1>4. \A v, out : \A s \in Scopes : Holds(v, out, s)' = Holds(v, out, s)
  BY <1>1, <1>2 DEF Holds
<1> QED BY <1>1, <1>3, <1>4

\* A step of a call that is no query and no hit, before it changes a doc.
LEMMA OtherCallKeepsCache ==
  ASSUME IndInv, StoreSame, UNCHANGED <<cache, since>>, NEW t \in Threads,
         \A u \in Threads \ {t} : call'[u] = call[u],
         call[t].op # "query", call'[t].op \notin {"query", "hit"}
  PROVE  CacheInv'
<1>1. CacheInv /\ DOMAIN call = Threads /\ \A u \in Threads : IsCall(call[u])
  BY DEF IndInv, CallsInv
<1>2. \A u \in Threads : call'[u].op \in {"query", "hit"} =>
         call'[u] = call[u] /\ call[u].scope \in Scopes
  BY <1>1 DEF IsCall, Idle, WriteState, MarkState, RestoreState, QueryState, HitState
<1>3. RowInv'
  BY <1>1, SameVersions DEF CacheInv, RowInv
<1>4. QueryInv'
  BY <1>1, <1>2, SameVersions DEF CacheInv, QueryInv, StoreSame, Holds, Found
<1>5. LookupInv'
  BY <1>1, <1>2 DEF CacheInv, LookupInv, StoreSame, Muted
<1>6. HitIsFreshUnlessQuiet'
  BY <1>1, <1>2 DEF CacheInv, HitIsFreshUnlessQuiet, StoreSame
<1> QED BY <1>3, <1>4, <1>5, <1>6, SameVersions DEF CacheInv


\* A query and a hit are of a scope.
LEMMA ScopeIs ==
  ASSUME IndInv, NEW t \in Threads, call[t].op \in {"query", "hit"}
  PROVE  call[t].scope \in Scopes
<1>1. IsCall(call[t])
  BY DEF IndInv, CallsInv
<1> QED BY <1>1 DEF IsCall, Idle, WriteState, MarkState, RestoreState, QueryState, HitState

LEMMA QueryKeepsCache ==
  ASSUME IndInv, NEW t \in Threads, Query(t)
  PROVE  CacheInv'
<1>0. CacheInv /\ StoreSame /\ UNCHANGED cache
  BY DEF IndInv, Query
<1> DEFINE s == call'[t].scope
<1>1. /\ \A u \in Threads \ {t} : call'[u] = call[u]
      /\ call'[t].op = "query" /\ call'[t].at = "lookup" /\ s \in Scopes
      /\ call'[t].version = Version(s)
      /\ since' = [since EXCEPT ![t] = {Found(s)}]
  BY QueryMoves
<1>2. /\ DOMAIN since' = Threads /\ since'[t] = {Found(s)}
      /\ \A u \in Threads \ {t} : since'[u] = since[u]
  BY <1>0, <1>1 DEF CacheInv, QueryInv
<1>3. /\ \A r \in Scopes : (Muted(r)' <=> Muted(r)) /\ Found(r)' = Found(r)
      /\ versions' = versions /\ quiet' = quiet /\ VersionInv'
  BY <1>0, SameVersions DEF StoreSame
<1>4. \A u \in Threads \ {t} : call[u].op \in {"query", "hit"} => call[u].scope \in Scopes
  BY ScopeIs
<1>5. RowInv'
  BY <1>0, SameVersions DEF CacheInv, RowInv
<1>6. QueryInv'
  <2>1. ASSUME NEW u \in Threads
        PROVE  /\ since'[u] # {} => call'[u].op = "query"
               /\ call'[u].op = "query" =>
                    /\ call'[u].version \in versions[call'[u].scope].past
                                              \cup versions[call'[u].scope].now
                    /\ Shown(docs', file', call'[u].scope) \in since'[u]
                    /\ call'[u].at = "store" =>
                         \/ call'[u].version \in versions[call'[u].scope].past
                         \/ /\ call'[u].version \in versions[call'[u].scope].now
                            /\ call'[u].out = Shown(docs', file', call'[u].scope)
    <3>1. CASE u = t
      BY <1>0, <1>1, <1>2, <1>3, <3>1 DEF CacheInv, VersionInv, Found
    <3>2. CASE u # t
      BY <1>0, <1>1, <1>2, <1>3, <1>4, <3>2 DEF CacheInv, QueryInv, Found, Holds
    <3> QED BY <3>1, <3>2
  <2> QED BY <1>2, <1>3, <2>1 DEF QueryInv, Holds, Found
<1>7. LookupInv'
  <2>1. ASSUME NEW u \in Threads, call'[u].op = "query", call'[u].at = "lookup",
               NEW r \in Scopes, r = call'[u].scope, ~Muted(r)
        PROVE  /\ cache[r] # None /\ cache[r].version = call'[u].version =>
                     cache[r].out \in since'[u]
               /\ \A w \in Threads :
                    call'[w].op = "query" /\ call'[w].at = "store" /\ call'[w].scope = r
                      /\ call'[w].version = call'[u].version
                      => call'[w].out \in since'[u]
    <3>1. CASE u = t
      <4>1. Version(r) \notin versions[r].past
        BY <1>0, <2>1 DEF CacheInv, VersionInv
      <4>2. \A w \in Threads : call'[w].op = "query" /\ call'[w].at = "store" => w # t
        BY <1>1
      <4> QED BY <1>0, <1>1, <1>2, <2>1, <3>1, <4>1, <4>2
              DEF CacheInv, RowInv, QueryInv, Holds
    <3>2. CASE u # t
      BY <1>0, <1>1, <1>2, <2>1, <3>2 DEF CacheInv, LookupInv
    <3> QED BY <3>1, <3>2
  <2>2. \A u \in Threads : call'[u].op = "query" => call'[u].scope \in Scopes
    BY <1>1, <1>4
  <2> QED BY <1>0, <1>3, <2>1, <2>2 DEF LookupInv, Muted
<1>8. HitIsFreshUnlessQuiet'
  BY <1>0, <1>1, <1>3 DEF CacheInv, HitIsFreshUnlessQuiet
<1> QED BY <1>3, <1>5, <1>6, <1>7, <1>8 DEF CacheInv

LEMMA LookupKeepsCache ==
  ASSUME IndInv, NEW t \in Threads, Lookup(t)
  PROVE  CacheInv'
<1>0. CacheInv /\ StoreSame /\ UNCHANGED cache /\ call[t].op = "query" /\ call[t].at = "lookup"
  BY DEF IndInv, Lookup
<1>1. /\ \A u \in Threads \ {t} : call'[u] = call[u]
      /\ \/ /\ call'[t].op = "hit" /\ call'[t].at = "done"
            /\ call'[t].scope = call[t].scope
            /\ call'[t].fresh <=> cache[call[t].scope].out \in since[t]
            /\ cache[call[t].scope] # None
            /\ cache[call[t].scope].version = call[t].version
            /\ since' = [since EXCEPT ![t] = {}]
         \/ /\ call'[t].op = "query" /\ call'[t].at = "search"
            /\ call'[t].scope = call[t].scope /\ call'[t].version = call[t].version
            /\ UNCHANGED since
  BY LookupMoves
<1>2. /\ DOMAIN since' = Threads /\ \A u \in Threads \ {t} : since'[u] = since[u]
      /\ call'[t].op = "query" => since'[t] = since[t]
      /\ call'[t].op # "query" => since'[t] = {}
  BY <1>0, <1>1 DEF CacheInv, QueryInv
<1>3. /\ \A r \in Scopes : (Muted(r)' <=> Muted(r)) /\ Found(r)' = Found(r)
      /\ versions' = versions /\ quiet' = quiet /\ VersionInv'
  BY <1>0, SameVersions DEF StoreSame
<1>4. \A u \in Threads : call[u].op \in {"query", "hit"} => call[u].scope \in Scopes
  BY ScopeIs
<1>5. RowInv'
  BY <1>0, SameVersions DEF CacheInv, RowInv
<1>6. QueryInv'
  <2>1. ASSUME NEW u \in Threads
        PROVE  /\ since'[u] # {} => call'[u].op = "query"
               /\ call'[u].op = "query" =>
                    /\ call'[u].version \in versions[call'[u].scope].past
                                              \cup versions[call'[u].scope].now
                    /\ Shown(docs', file', call'[u].scope) \in since'[u]
                    /\ call'[u].at = "store" =>
                         \/ call'[u].version \in versions[call'[u].scope].past
                         \/ /\ call'[u].version \in versions[call'[u].scope].now
                            /\ call'[u].out = Shown(docs', file', call'[u].scope)
    <3>1. CASE u = t
      BY <1>0, <1>1, <1>2, <1>3, <1>4, <3>1 DEF CacheInv, QueryInv, Found
    <3>2. CASE u # t
      BY <1>0, <1>1, <1>2, <1>3, <1>4, <3>2 DEF CacheInv, QueryInv, Found, Holds
    <3> QED BY <3>1, <3>2
  <2> QED BY <1>2, <1>3, <2>1 DEF QueryInv, Holds, Found
<1>7. LookupInv'
  <2>1. ASSUME NEW u \in Threads, call'[u].op = "query", call'[u].at = "lookup"
        PROVE  u # t
    BY <1>1, <2>1
  <2>2. \A w \in Threads : call'[w].op = "query" /\ call'[w].at = "store" => w # t
    BY <1>1
  <2> QED BY <1>0, <1>1, <1>2, <1>3, <2>1, <2>2 DEF CacheInv, LookupInv, Muted
<1>8. HitIsFreshUnlessQuiet'
  <2>1. ASSUME call'[t].op = "hit" PROVE call'[t].fresh \/ Muted(call[t].scope)
    BY <1>0, <1>1, <2>1 DEF CacheInv, LookupInv
  <2> QED BY <1>0, <1>1, <1>3, <2>1 DEF CacheInv, HitIsFreshUnlessQuiet, Muted
<1> QED BY <1>3, <1>5, <1>6, <1>7, <1>8 DEF CacheInv

LEMMA SearchKeepsCache ==
  ASSUME IndInv, NEW t \in Threads, Search(t)
  PROVE  CacheInv'
<1>0. CacheInv /\ StoreSame /\ UNCHANGED <<cache, since>>
  BY DEF IndInv, Search
<1>1. /\ \A u \in Threads \ {t} : call'[u] = call[u]
      /\ call'[t].op = "query" /\ call'[t].at = "store"
      /\ call'[t].scope = call[t].scope /\ call'[t].version = call[t].version
      /\ call'[t].out = Found(call[t].scope)
      /\ call[t].op = "query" /\ call[t].scope \in Scopes
  BY SearchMoves
<1>3. /\ \A r \in Scopes : (Muted(r)' <=> Muted(r)) /\ Found(r)' = Found(r)
      /\ versions' = versions /\ quiet' = quiet /\ VersionInv'
  BY <1>0, SameVersions DEF StoreSame
<1>4. \A u \in Threads : call[u].op \in {"query", "hit"} => call[u].scope \in Scopes
  BY ScopeIs
<1>5. RowInv'
  BY <1>0, SameVersions DEF CacheInv, RowInv
<1>6. QueryInv'
  <2>1. ASSUME NEW u \in Threads
        PROVE  /\ since'[u] # {} => call'[u].op = "query"
               /\ call'[u].op = "query" =>
                    /\ call'[u].version \in versions[call'[u].scope].past
                                              \cup versions[call'[u].scope].now
                    /\ Shown(docs', file', call'[u].scope) \in since'[u]
                    /\ call'[u].at = "store" =>
                         \/ call'[u].version \in versions[call'[u].scope].past
                         \/ /\ call'[u].version \in versions[call'[u].scope].now
                            /\ call'[u].out = Shown(docs', file', call'[u].scope)
    <3>0. CASE call'[u].op # "query"
      <4>1. u # t
        BY <1>1, <3>0
      <4> QED BY <1>0, <1>1, <3>0, <4>1 DEF CacheInv, QueryInv
    <3>1. CASE u = t
      BY <1>0, <1>1, <1>3, <1>4, <3>1 DEF CacheInv, QueryInv, Found
    <3>2. CASE u # t /\ call'[u].op = "query"
      BY <1>0, <1>1, <1>3, <1>4, <3>2 DEF CacheInv, QueryInv, Found, Holds
    <3> QED BY <3>0, <3>1, <3>2
  <2>2. DOMAIN since' = Threads
    BY <1>0 DEF CacheInv, QueryInv
  <2> QED BY <1>3, <2>1, <2>2 DEF QueryInv, Holds, Found
<1>7. LookupInv'
  <2>1. ASSUME NEW u \in Threads, call'[u].op = "query", call'[u].at = "lookup",
               NEW r \in Scopes, r = call'[u].scope, ~Muted(r)
        PROVE  /\ cache[r] # None /\ cache[r].version = call'[u].version =>
                     cache[r].out \in since[u]
               /\ \A w \in Threads :
                    call'[w].op = "query" /\ call'[w].at = "store" /\ call'[w].scope = r
                      /\ call'[w].version = call'[u].version
                      => call'[w].out \in since[u]
    <3>1. u # t /\ call'[u] = call[u]
      BY <1>1, <2>1
    <3>2. Found(r) \in since[u]
      BY <1>0, <2>1, <3>1 DEF CacheInv, QueryInv
    <3> QED BY <1>0, <1>1, <2>1, <3>1, <3>2 DEF CacheInv, LookupInv
  <2>2. \A u \in Threads : call'[u].op = "query" => call'[u].scope \in Scopes
    BY <1>1, <1>4
  <2> QED BY <1>0, <1>3, <2>1, <2>2 DEF LookupInv, Muted
<1>8. HitIsFreshUnlessQuiet'
  BY <1>0, <1>1, <1>3 DEF CacheInv, HitIsFreshUnlessQuiet
<1> QED BY <1>3, <1>5, <1>6, <1>7, <1>8 DEF CacheInv

LEMMA StoreAnswerKeepsCache ==
  ASSUME IndInv, NEW t \in Threads, StoreAnswer(t)
  PROVE  CacheInv'
<1>0. CacheInv /\ StoreSame
  BY DEF IndInv, StoreAnswer
<1>1. /\ call'[t] = Idle /\ \A u \in Threads \ {t} : call'[u] = call[u]
      /\ call[t].op = "query" /\ call[t].at = "store" /\ call[t].scope \in Scopes
      /\ since' = [since EXCEPT ![t] = {}]
      /\ DOMAIN cache' = Scopes
      /\ \A s \in Scopes :
           \/ cache'[s] = None \/ cache'[s] = cache[s]
           \/ s = call[t].scope /\ cache'[s].version = call[t].version
              /\ cache'[s].out = call[t].out
  BY StoreAnswerMoves
<1>2. /\ DOMAIN since' = Threads /\ \A u \in Threads \ {t} : since'[u] = since[u]
      /\ since'[t] = {} /\ call'[t].op = "none"
  BY <1>0, <1>1 DEF CacheInv, QueryInv, Idle
<1>3. /\ \A r \in Scopes : (Muted(r)' <=> Muted(r)) /\ Found(r)' = Found(r)
      /\ versions' = versions /\ quiet' = quiet /\ VersionInv'
  BY <1>0, SameVersions DEF StoreSame
<1>4. \A u \in Threads : call[u].op \in {"query", "hit"} => call[u].scope \in Scopes
  BY ScopeIs
<1>5. RowInv'
  <2>1. Holds(call[t].version, call[t].out, call[t].scope)
    BY <1>0, <1>1 DEF CacheInv, QueryInv
  <2>2. \A s \in Scopes : cache'[s] # None => Holds(cache'[s].version, cache'[s].out, s)
    BY <1>0, <1>1, <2>1 DEF CacheInv, RowInv
  <2> QED BY <1>1, <1>3, <2>2 DEF RowInv, Holds
<1>6. QueryInv'
  <2>1. ASSUME NEW u \in Threads
        PROVE  /\ since'[u] # {} => call'[u].op = "query"
               /\ call'[u].op = "query" =>
                    /\ call'[u].version \in versions[call'[u].scope].past
                                              \cup versions[call'[u].scope].now
                    /\ Shown(docs', file', call'[u].scope) \in since'[u]
                    /\ call'[u].at = "store" =>
                         \/ call'[u].version \in versions[call'[u].scope].past
                         \/ /\ call'[u].version \in versions[call'[u].scope].now
                            /\ call'[u].out = Shown(docs', file', call'[u].scope)
    <3>1. CASE u = t
      BY <1>2, <3>1
    <3>2. CASE u # t
      BY <1>0, <1>1, <1>2, <1>3, <1>4, <3>2 DEF CacheInv, QueryInv, Found, Holds
    <3> QED BY <3>1, <3>2
  <2> QED BY <1>2, <1>3, <2>1 DEF QueryInv, Holds, Found
<1>7. LookupInv'
  <2>1. ASSUME NEW u \in Threads, call'[u].op = "query", call'[u].at = "lookup",
               NEW r \in Scopes, r = call'[u].scope, ~Muted(r)
        PROVE  /\ cache'[r] # None /\ cache'[r].version = call'[u].version =>
                     cache'[r].out \in since'[u]
               /\ \A w \in Threads :
                    call'[w].op = "query" /\ call'[w].at = "store" /\ call'[w].scope = r
                      /\ call'[w].version = call'[u].version
                      => call'[w].out \in since'[u]
    <3>1. u # t /\ call'[u] = call[u] /\ since'[u] = since[u]
      BY <1>1, <1>2, <2>1
    <3>2. \A w \in Threads : call'[w].op = "query" => w # t
      BY <1>2
    <3> QED BY <1>0, <1>1, <2>1, <3>1, <3>2 DEF CacheInv, LookupInv
  <2>2. \A u \in Threads : call'[u].op = "query" => call'[u].scope \in Scopes
    BY <1>1, <1>2, <1>4
  <2> QED BY <1>3, <2>1, <2>2 DEF LookupInv, Muted
<1>8. HitIsFreshUnlessQuiet'
  BY <1>0, <1>1, <1>2, <1>3 DEF CacheInv, HitIsFreshUnlessQuiet
<1> QED BY <1>3, <1>5, <1>6, <1>7, <1>8 DEF CacheInv

LEMMA LapseKeepsCache ==
  ASSUME IndInv, Lapse
  PROVE  CacheInv'
<1>0. CacheInv /\ StoreSame /\ UNCHANGED <<call, since>>
  BY DEF IndInv, Lapse
<1>1. DOMAIN cache' = Scopes /\ \A s \in Scopes : cache'[s] = None \/ cache'[s] = cache[s]
  BY <1>0 DEF Lapse, CacheInv, RowInv
<1>2. \A u \in Threads : call[u].op \in {"query", "hit"} => call[u].scope \in Scopes
  BY ScopeIs
<1>3. RowInv'
  <2>1. \A s \in Scopes : cache'[s] # None => Holds(cache'[s].version, cache'[s].out, s)
    BY <1>0, <1>1 DEF CacheInv, RowInv
  <2>2. versions' = versions /\ \A s \in Scopes : Found(s)' = Found(s)
    BY <1>0, SameVersions DEF StoreSame
  <2> QED BY <1>1, <2>1, <2>2 DEF RowInv, Holds
<1>4. QueryInv'
  BY <1>0, <1>2, SameVersions DEF CacheInv, QueryInv, StoreSame, Holds, Found
<1>5. LookupInv'
  BY <1>0, <1>1, <1>2 DEF CacheInv, LookupInv, StoreSame, Muted
<1>6. HitIsFreshUnlessQuiet'
  BY <1>0 DEF CacheInv, HitIsFreshUnlessQuiet, StoreSame
<1>7. VersionInv'
  BY <1>0, SameVersions
<1> QED BY <1>3, <1>4, <1>5, <1>6, <1>7 DEF CacheInv


-----------------------------------------------------------------------------
(***************************************************************************)
(* The steps.                                                              *)
(***************************************************************************)
\* A step of thread t that leaves the docs alone and is about to put no patch.
LEMMA SameKeepsPatches ==
  ASSUME IndInv, StoreSame, NEW t \in Threads,
         \A u \in Threads \ {t} : call'[u] = call[u],
         ~(call'[t].at = "put" /\ call'[t].section # None)
  PROVE  PatchInv'
<1>1. docs' = docs /\ clock' = clock /\ clock \in Nat
  BY DEF IndInv, DocsInv, StoreSame
<1>2. \A i \in DOMAIN docs' :
         i \in DOMAIN docs /\ docs'[i].body = docs[i].body /\ docs'[i].mtime = docs[i].mtime
  BY <1>1
<1> QED BY <1>1, <1>2, KeepsPatches

\* A step of thread t that leaves the docs alone and begins no check.
LEMMA SameKeepsMarks ==
  ASSUME IndInv, docs' = docs, NEW t \in Threads,
         \A u \in Threads \ {t} : call'[u] = call[u], call'[t].at # "mark"
  PROVE  MarkInv'
BY DEF IndInv, MarkInv

LEMMA WriteStep ==
  ASSUME IndInv, NEW t \in Threads,
         WriteCall(t) \/ WriteSection(t) \/ WriteWhole(t) \/ Probe(t)
  PROVE  IndInv'
<1>1. StoreSame /\ UNCHANGED <<cache, since>>
  BY DEF WriteCall, WriteSection, WriteWhole, Probe
<1>2. call[t].op # "query"
  <2>1. IsCall(call[t]) /\ call[t].at \in {"done", "read", "probe"}
    BY DEF IndInv, CallsInv, WriteCall, Begin, WriteSection, WriteWhole, Probe
  <2> QED BY <2>1 DEF IsCall, Idle, WriteState, MarkState, RestoreState, QueryState, HitState
<1>3. /\ CallsInv' /\ \A u \in Threads \ {t} : call'[u] = call[u]
      /\ call'[t] = Idle \/ call'[t] \in WriteState
  BY WriteMoves
<1>4. call'[t].at = "put" /\ call'[t].section # None =>
         /\ call'[t].target \in DOMAIN docs
         /\ call'[t].readAt = docs[call'[t].target].mtime
         /\ call'[t].body =
              [docs[call'[t].target].body EXCEPT ![call'[t].section] = call'[t].text]
  BY WriteMoves
<1>5. docs' = docs /\ clock' = clock /\ clock \in Nat
      /\ \A i \in DOMAIN docs : docs[i].mtime <= clock
  BY <1>1 DEF IndInv, DocsInv, StoreSame
<1>6. PatchInv'
  <2> SUFFICES ASSUME NEW u \in Threads, call'[u].at = "put", call'[u].section # None
               PROVE  /\ call'[u].op = "write"
                      /\ call'[u].readAt <= clock
                      /\ call'[u].target \in DOMAIN docs /\ docs[call'[u].target].mtime = call'[u].readAt =>
                           call'[u].body =
                             [docs[call'[u].target].body EXCEPT ![call'[u].section] = call'[u].text]
    BY <1>5 DEF PatchInv
  <2>1. CASE u = t
    <3>1. call'[t].op = "write"
      BY <1>3, <2>1 DEF Idle, WriteState
    <3> QED BY <1>4, <1>5, <2>1, <3>1
  <2>2. CASE u # t
    BY <1>3, <2>2 DEF IndInv, PatchInv
  <2> QED BY <2>1, <2>2
<1>7. CacheInv'
  <2>1. call'[t].op \notin {"query", "hit"}
    BY <1>3 DEF Idle, WriteState
  <2> QED BY <1>1, <1>2, <1>3, <2>1, OtherCallKeepsCache
<1>8. DocsInv' /\ OneCanonicalPerGistChecked' /\ PatchSparesTheRestUncrossed'
  BY <1>1, <1>5, SameKeepsDocs DEF StoreSame
<1>9. MarkInv'
  <2>1. call'[t].at # "mark"
    BY <1>3 DEF Idle, WriteState
  <2> QED BY <1>3, <1>5, <2>1, SameKeepsMarks
<1> QED BY <1>3, <1>6, <1>7, <1>8, <1>9 DEF IndInv

LEMMA RestoreStep ==
  ASSUME IndInv, NEW t \in Threads, Restore(t)
  PROVE  IndInv'
<1>1. StoreSame /\ UNCHANGED <<cache, since>> /\ call[t].at = "done"
  BY DEF Restore, Begin
<1>2. /\ CallsInv' /\ \A u \in Threads \ {t} : call'[u] = call[u]
      /\ call'[t] \in RestoreState
  BY RestoreMoves
<1>3. call'[t].section = None /\ call'[t].op = "restore"
  BY <1>2 DEF RestoreState
<1>4. call[t].op # "query"
  <2>1. IsCall(call[t])
    BY DEF IndInv, CallsInv
  <2> QED BY <1>1, <2>1 DEF IsCall, Idle, WriteState, MarkState, RestoreState, QueryState, HitState
<1>5. DocsInv' /\ OneCanonicalPerGistChecked' /\ PatchSparesTheRestUncrossed'
  BY <1>1, SameKeepsDocs DEF StoreSame, IndInv, DocsInv
<1>6. PatchInv'
  BY <1>1, <1>2, <1>3, SameKeepsPatches
<1>7. CacheInv'
  BY <1>1, <1>2, <1>3, <1>4, OtherCallKeepsCache
<1>8. MarkInv'
  <2>1. call'[t].at # "mark"
    BY <1>2 DEF RestoreState
  <2> QED BY <1>1, <1>2, <2>1, SameKeepsMarks DEF StoreSame
<1> QED BY <1>2, <1>5, <1>6, <1>7, <1>8 DEF IndInv

\* The steps that change the docs.
LEMMA ChangeStep ==
  ASSUME IndInv, NEW t \in Threads, Put(t) \/ Mark(t) \/ Tag(t) \/ Archive(t) \/ Delete(t)
  PROVE  IndInv'
<1>1. /\ CallsInv' /\ \A u \in Threads \ {t} : call'[u] = call[u]
      /\ \/ call'[t] = Idle
         \/ call'[t] \in MarkState /\ call'[t].target \in DOMAIN docs'
  BY ChangeMoves
<1>0. call'[t].op \notin {"query", "hit"} /\ call'[t].at # "put"
  BY <1>1 DEF Idle, MarkState
<1>2. call[t].op # "query"
  <2>1. IsCall(call[t]) /\ call[t].at \in {"done", "put", "mark"}
    BY DEF IndInv, CallsInv, Put, Mark, Tag, Archive, Delete, Begin
  <2> QED BY <2>1 DEF IsCall, Idle, WriteState, MarkState, RestoreState, QueryState, HitState
<1>3. CacheInv'
  <2>1. Remember /\ UNCHANGED cache
    BY DEF Put, Mark, Tag, Archive, Delete
  <2>2. \A u \in Threads :
          call'[u] = call[u] \/ (call'[u].op \notin {"query", "hit"} /\ call[u].op # "query")
    BY <1>0, <1>1, <1>2
  <2> QED BY <2>1, <2>2, RememberKeepsCache
<1>3a. clock \in Nat
  BY DEF IndInv, DocsInv
<1>4. /\ DocsInv' /\ OneCanonicalPerGistChecked' /\ PatchSparesTheRestUncrossed'
      /\ clock' \in Nat /\ clock <= clock'
      /\ \A i \in DOMAIN docs' :
           \/ docs'[i].mtime > clock
           \/ i \in DOMAIN docs /\ docs'[i].body = docs[i].body /\ docs'[i].mtime = docs[i].mtime
      /\ DOMAIN docs \subseteq DOMAIN docs' \/ LockFree
  <2>1. CASE Put(t)
    <3>1. call[t].at = "put" /\ LockFree
      BY <2>1 DEF Put
    <3>2. CASE UNCHANGED <<docs, clock, meant, crossed, unchecked>>
      BY <1>3a, <3>1, <3>2, SameKeepsDocs
    <3>3. ASSUME NEW id \in Ids, Placed(t, id), PutWrites(t, id)
          PROVE  /\ DocsInv' /\ OneCanonicalPerGistChecked' /\ PatchSparesTheRestUncrossed'
                 /\ clock' \in Nat /\ clock <= clock'
                 /\ \A i \in DOMAIN docs' :
                      \/ docs'[i].mtime > clock
                      \/ i \in DOMAIN docs /\ docs'[i].body = docs[i].body
                                          /\ docs'[i].mtime = docs[i].mtime
      <4>1. clock' = clock + 1
        BY <3>3 DEF PutWrites
      <4>2. /\ DocsInv' /\ OneCanonicalPerGistChecked' /\ PatchSparesTheRestUncrossed'
            /\ Written(docs', id, call[t].body)
        BY <3>1, <3>3, WriteKeepsDocs
      <4> QED BY <1>3a, <4>1, <4>2 DEF Written
    <3> QED BY <2>1, <3>1, <3>2, <3>3, PutIs
  <2>2. CASE Mark(t)
    <3>1. clock' = clock
      BY <2>2 DEF Mark
    <3> QED BY <1>3a, <2>2, <3>1, MarkKeepsDocs
  <2>3. CASE Tag(t)
    <3>1. clock' = clock
      BY <2>3 DEF Tag
    <3> QED BY <1>3a, <2>3, <3>1, TagKeepsDocs
  <2>4. CASE Archive(t)
    <3>1. clock' = clock
      BY <2>4 DEF Archive
    <3> QED BY <1>3a, <2>4, <3>1, ArchiveKeepsDocs
  <2>5. CASE Delete(t)
    <3>1. clock' = clock /\ LockFree
      BY <2>5 DEF Delete
    <3> QED BY <1>3a, <2>5, <3>1, DeleteKeepsDocs
  <2> QED BY <2>1, <2>2, <2>3, <2>4, <2>5
<1>5. PatchInv'
  BY <1>0, <1>1, <1>4, KeepsPatches
<1>6. MarkInv'
  <2> SUFFICES ASSUME NEW u \in Threads, call'[u].at = "mark"
               PROVE  call'[u].target \in DOMAIN docs'
    BY DEF MarkInv
  <2>1. CASE u = t
    BY <1>1, <2>1 DEF Idle
  <2>2. CASE u # t
    <3>1. call[u].at = "mark" /\ call'[u] = call[u] /\ ~LockFree
      BY <1>1, <2>2 DEF LockFree
    <3> QED BY <1>4, <3>1 DEF IndInv, MarkInv
  <2> QED BY <2>1, <2>2
<1> QED BY <1>1, <1>3, <1>4, <1>5, <1>6 DEF IndInv

LEMMA QueryStep ==
  ASSUME IndInv, NEW t \in Threads, Query(t) \/ Lookup(t) \/ Search(t) \/ StoreAnswer(t)
  PROVE  IndInv'
<1>1. CallsInv' /\ call'[t].at \notin {"put", "mark"}
      /\ \A u \in Threads \ {t} : call'[u] = call[u]
  BY QueryMoves, LookupMoves, SearchMoves, StoreAnswerMoves DEF Idle
<1>2. StoreSame
  BY DEF Query, Lookup, Search, StoreAnswer
<1>3. CacheInv'
  BY QueryKeepsCache, LookupKeepsCache, SearchKeepsCache, StoreAnswerKeepsCache
<1>4. DocsInv' /\ OneCanonicalPerGistChecked' /\ PatchSparesTheRestUncrossed'
  BY <1>2, SameKeepsDocs DEF StoreSame, IndInv, DocsInv
<1>5. PatchInv'
  BY <1>1, <1>2, SameKeepsPatches
<1>6. MarkInv'
  BY <1>1, <1>2, SameKeepsMarks DEF StoreSame
<1> QED BY <1>1, <1>3, <1>4, <1>5, <1>6 DEF IndInv

\* The steps of no call.
LEMMA OtherStep ==
  ASSUME IndInv, IndexFile \/ Lapse \/ UNCHANGED vars
  PROVE  IndInv'
<1>1. UNCHANGED <<docs, meant, crossed, unchecked, call>> /\ clock \in Nat /\ clock' \in {clock, clock + 1}
  BY DEF IndexFile, Lapse, StoreSame, vars, IndInv, DocsInv
<1>2. DocsInv' /\ OneCanonicalPerGistChecked' /\ PatchSparesTheRestUncrossed'
  BY <1>1, SameKeepsDocs
<1>3. CallsInv'
  BY <1>1 DEF IndInv, CallsInv
<1>4. PatchInv'
  <2> SUFFICES ASSUME NEW t \in Threads, call[t].at = "put", call[t].section # None
               PROVE  /\ call[t].op = "write"
                      /\ call[t].readAt <= clock'
                      /\ call[t].target \in DOMAIN docs /\ docs[call[t].target].mtime = call[t].readAt =>
                           call[t].body =
                             [docs[call[t].target].body EXCEPT ![call[t].section] = call[t].text]
    BY <1>1 DEF PatchInv
  <2>1. call[t].readAt \in Nat
    BY PutState DEF IndInv
  <2> QED BY <1>1, <2>1 DEF IndInv, PatchInv
<1>5. CacheInv'
  <2>1. CASE IndexFile
    <3>1. Remember /\ UNCHANGED <<cache, call>>
      BY <2>1 DEF IndexFile
    <3> QED BY <3>1, RememberKeepsCache
  <2>2. CASE Lapse
    BY <2>2, LapseKeepsCache
  <2>3. CASE UNCHANGED vars
    BY <2>3 DEF vars, IndInv, CacheInv, VersionInv, RowInv, QueryInv, LookupInv, Holds, Muted,
                Version, Found, HitIsFreshUnlessQuiet
  <2> QED BY <2>1, <2>2, <2>3
<1>6. MarkInv'
  BY <1>1 DEF IndInv, MarkInv
<1> QED BY <1>2, <1>3, <1>4, <1>5, <1>6 DEF IndInv

\* A restart: no call is left to answer, and the store is as it was.
LEMMA CrashStep ==
  ASSUME IndInv, Crash
  PROVE  IndInv'
<1>1. /\ StoreSame /\ UNCHANGED cache
      /\ call' = [t \in Threads |-> Idle] /\ since' = [t \in Threads |-> {}]
  BY DEF Crash
<1>2. \A t \in Threads : call'[t].op = "none" /\ call'[t].at = "done" /\ call'[t] = Idle
  BY <1>1 DEF Idle
<1>3. DocsInv' /\ OneCanonicalPerGistChecked' /\ PatchSparesTheRestUncrossed'
  BY <1>1, SameKeepsDocs DEF StoreSame, IndInv, DocsInv
<1>4. CallsInv'
  BY <1>1, <1>2 DEF CallsInv, IsCall
<1>5. PatchInv' /\ MarkInv'
  BY <1>2 DEF PatchInv, MarkInv
<1>6. RowInv'
  BY <1>1, SameVersions DEF IndInv, CacheInv, RowInv
<1>7. QueryInv' /\ LookupInv' /\ HitIsFreshUnlessQuiet'
  BY <1>1, <1>2 DEF QueryInv, LookupInv, HitIsFreshUnlessQuiet
<1> QED BY <1>1, <1>3, <1>4, <1>5, <1>6, <1>7, SameVersions DEF IndInv, CacheInv

LEMMA InitInv == Init => IndInv
<1> SUFFICES ASSUME Init PROVE IndInv
  OBVIOUS
<1>1. DOMAIN docs = {} /\ DOMAIN meant = {}
  BY DEF Init
<1>2. DocsInv /\ OneCanonicalPerGistChecked /\ PatchSparesTheRestUncrossed
  BY <1>1 DEF Init, DocsInv, OneCanonicalPerGistChecked, PatchSparesTheRestUncrossed
<1>3. \A t \in Threads : call[t] = Idle
  BY DEF Init
<1>4. CallsInv /\ PatchInv /\ MarkInv
  BY <1>3 DEF Init, CallsInv, IsCall, PatchInv, MarkInv, Idle
<1>5. VersionInv /\ RowInv
  BY DEF Init, VersionInv, RowInv, Version
<1>6. QueryInv /\ LookupInv /\ HitIsFreshUnlessQuiet
  BY <1>3 DEF Init, QueryInv, LookupInv, HitIsFreshUnlessQuiet, Idle
<1> QED BY <1>2, <1>4, <1>5, <1>6 DEF IndInv, CacheInv

LEMMA NextInv == IndInv /\ [Next]_vars => IndInv'
BY WriteStep, RestoreStep, ChangeStep, QueryStep, OtherStep, CrashStep DEF Next

LEMMA Invariance == Spec => []IndInv
BY InitInv, NextInv, PTL DEF Spec

-----------------------------------------------------------------------------
(***************************************************************************)
(* The theorems.                                                           *)
(***************************************************************************)
\* The query cache (cache.py, corpus_version): whatever interleaving of writes,
\* re-indexed files, searches and stored answers, a hit answers what a search
\* would have answered since the call began, unless the scope was at a version
\* it had before its results last changed.
THEOREM CachedAnswersAreFresh == Spec => []HitIsFreshUnlessQuiet
<1>1. IndInv => HitIsFreshUnlessQuiet
  BY DEF IndInv, CacheInv
<1> QED BY <1>1, Invariance, PTL

\* The duplicate probe and put()'s own check (check_duplicate,
\* detect_duplicate_for): however many creates, retries, forced writes, updates
\* and restarts race, two canonical docs are near-copies only while the check of
\* one of them is due, or when it failed or found several copies.
THEOREM OneCanonicalOfAGist == Spec => []OneCanonicalPerGistChecked
<1>1. IndInv => OneCanonicalPerGistChecked
  BY DEF IndInv
<1> QED BY <1>1, Invariance, PTL

\* A section write (trovex_write with a section) leaves the rest of the doc and
\* its tag as the answered writes made them, and a restore the tag, unless it
\* wrote over a doc that another call had changed since it read it.
THEOREM PatchesSpareTheRest == Spec => []PatchSparesTheRestUncrossed
<1>1. IndInv => PatchSparesTheRestUncrossed
  BY DEF IndInv
<1> QED BY <1>1, Invariance, PTL
=============================================================================
