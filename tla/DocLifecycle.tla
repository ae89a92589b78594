--------------------------- MODULE DocLifecycle ---------------------------
(***************************************************************************)
(* The life of an owned doc after it was written (store.py): rewritten and *)
(* imported over, archived, pinned, aged by the two sweeps, deleted into a *)
(* tombstone and brought back from it, or rolled back to a version.        *)
(*                                                                         *)
(* A hold of SqliteStore._lock that ends in a commit is one step (what can *)
(* happen inside one is in StoreWrites); the calls that take several, or   *)
(* read before they take it, are a thread's steps: restore_deleted(),      *)
(* restore_version() and sweep_bloat().  Time is in days; a topic is the   *)
(* title an ext always has.  Status passes are the environment: what they  *)
(* do is in CanonicalDocs and Reindex.                                     *)
(***************************************************************************)
EXTENDS Integers, FiniteSets, Sequences, FiniteSetsExt, SequencesExt

CONSTANTS
  Threads,
  Exts, Bodies, Topics,
  Owners,        \* owner/ tags: [base, n], n = 0 when there is no suffix
  TopicOf,       \* [Exts -> Topics]
  FirstBody, NoBody, NoExt,
  TombCap,       \* doc_tombstone_cap
  VersionCap,    \* doc_version_cap
  ArchiveAfter, PendingAfter, Grace, StaleAge,   \* days
  SweepBatch,    \* _SWEEP_LOCK_BATCH
  MaxTime, MaxCalls

ASSUME LifecycleAssumption ==
  /\ TopicOf \in [Exts -> Topics]
  /\ FirstBody \in Bodies
  /\ NoBody \notin Bodies
  /\ NoExt \notin Exts /\ IsFiniteSet(Exts)
  /\ IsFiniteSet(Owners) /\ \A o \in Owners : o.n \in Nat
  /\ \A c \in {TombCap, VersionCap, SweepBatch} : c \in Nat \ {0}
  /\ \A d \in {ArchiveAfter, PendingAfter, Grace, StaleAge, MaxTime, MaxCalls} : d \in Nat

VARIABLES
  now,
  docs,     \* [Exts -> Row]
  tombs,    \* doc_tombstones, oldest deletion first
  thread,
  calls,    \* client calls so far
  latest,   \* history: the body a client last gave an ext, NoBody before
  written,  \* history: when a client last wrote an ext
  imported, \* history: the exts last written by put_batch
  parked,   \* history: the exts a client archived while they were canonical
  capped,   \* history: the tombstones the cap removed
  doubled,  \* history: a restore began beside another one
  disturbed \* history: a client wrote after the sweep under way took its snapshot,
            \* or two sweeps are under way

vars == <<now, docs, tombs, thread, calls, latest, written, imported, parked,
          capped, doubled, disturbed>>

Statuses == {"canonical", "plan", "stale", "duplicate", "superseded"}
LowValue == {"stale", "duplicate", "superseded"}
Lifecycles == {"active", "archived", "pending_delete", "stale"}
Kinds == {"doc", "record"}

Row == [id : Nat, body : Bodies \cup {NoBody}, kind : Kinds, tags : SUBSET Owners,
        status : Statuses, lifecycle : Lifecycles, since : Nat, mtime : Nat,
        pinned : BOOLEAN, versions : Seq(Bodies)]

NoRow == [id |-> 0, body |-> NoBody, kind |-> "doc", tags |-> {},
          status |-> "canonical", lifecycle |-> "active", since |-> 0,
          mtime |-> 0, pinned |-> FALSE, versions |-> <<>>]

Tombstone == [id : Nat \ {0}, ext : Exts, body : Bodies, kind : Kinds,
              tags : SUBSET Owners]

NoTomb == [id |-> 0, ext |-> NoExt, body |-> NoBody, kind |-> "doc", tags |-> {}]

Idle == [pc |-> "idle", tomb |-> NoTomb, ids |-> {}, phase |-> "none"]

Stored(e) == docs[e].body # NoBody
Live == {e \in Exts : Stored(e)}
Records == {e \in Live : docs[e].kind = "record"}

\* Neither table has AUTOINCREMENT: the next id is one past the greatest.
NextId == Max({docs[e].id : e \in Exts}) + 1
NextTomb(ts) == Max({0} \cup {ts[i].id : i \in DOMAIN ts}) + 1

\* The store as earlier days left it: any docs, with the first body, the
\* records each with one owner.
RowsOf(ids) ==
  {[NoRow EXCEPT !.id = ids, !.body = FirstBody]}
    \cup {[NoRow EXCEPT !.id = ids, !.body = FirstBody, !.kind = "record", !.tags = {o}] :
             o \in Owners}

Init ==
  /\ now = 0
  /\ docs \in [Exts -> {NoRow} \cup UNION {RowsOf(i) : i \in 1..Cardinality(Exts)}]
  /\ {docs[e].id : e \in Exts} \ {0} = 1..Cardinality(Live)
  /\ \A e, f \in Exts : docs[e].kind = "doc" /\ docs[f].kind = "doc" /\ Stored(e)
       /\ Stored(f) /\ TopicOf[e] = TopicOf[f] => e = f
  /\ tombs = <<>>
  /\ thread = [t \in Threads |-> Idle]
  /\ calls = 0
  /\ latest = [e \in Exts |-> docs[e].body]
  /\ written = [e \in Exts |-> 0]
  /\ imported = {}
  /\ parked = {}
  /\ capped = {}
  /\ doubled = FALSE
  /\ disturbed = FALSE
-----------------------------------------------------------------------------
(***************************************************************************)
(* put() and put_batch()                                                   *)
(***************************************************************************)

\* _snapshot_version_locked(): the newest VersionCap bodies.
Snapshot(row) ==
  LET vs == Append(row.versions, row.body)
  IN SubSeq(vs, Max({1, Len(vs) - VersionCap + 1}), Len(vs))

\* Ephemeral kinds have no topic.
Prior(e, kind) ==
  {f \in Live \ {e} : /\ kind = "doc" /\ docs[f].kind = "doc"
                      /\ TopicOf[f] = TopicOf[e] /\ docs[f].status = "canonical"}

\* put() looks for the topic's canonical on a create and on a canonical.
Contested(e, kind) ==
  (~Stored(e) \/ docs[e].status = "canonical") /\ Prior(e, kind) # {}

Inserted(b, kind, tags) ==
  [NoRow EXCEPT !.id = NextId, !.body = b, !.kind = kind, !.tags = tags,
                !.mtime = now]

Kept(row, b) == IF row.body = b THEN row.versions ELSE Snapshot(row)

RewrittenAsIs(e, b, kind, tags) ==   \* mutant
  [docs[e] EXCEPT !.body = b, !.kind = kind, !.tags = tags, !.mtime = now,
                  !.versions = Kept(docs[e], b)]

\* A rewrite says the doc is live; lifecycle_changed_at stays.
Rewritten(e, b, kind, tags) ==
  [docs[e] EXCEPT !.body = b, !.kind = kind, !.tags = tags, !.mtime = now,
                  !.lifecycle = "active", !.versions = Kept(docs[e], b)]

\* The canonical that was there steps down; lifecycle_changed_at stays.
Superseded(row) == [row EXCEPT !.status = "superseded", !.lifecycle = "archived"]

Put(e, b, kind, tags) ==
  docs' = [f \in Exts |->
    CASE f = e -> IF Stored(e) THEN Rewritten(e, b, kind, tags)
                               ELSE Inserted(b, kind, tags)
      [] Contested(e, kind) /\ f \in Prior(e, kind) -> Superseded(docs[f])
      [] OTHER -> docs[f]]

\* An import rewrites neither lifecycle nor status, snapshots whatever was
\* there, and brings the date of the file it read.  (It gives a new doc no
\* canonical_topic, so it contests none until it is put; here it does at once.)
Import(e, b, dated) ==
  docs' = [docs EXCEPT ![e] =
    IF Stored(e) THEN [@ EXCEPT !.body = b, !.mtime = dated,
                                !.versions = Snapshot(docs[e])]
                 ELSE [Inserted(b, "doc", {}) EXCEPT !.mtime = dated]]

AtWork(t) == thread[t].pc \in {"chunks", "owners"}

\* A write beside a sweep; a sweep beside another one.
Disturb == disturbed' = (\E t \in Threads : AtWork(t))
Beside(t) == disturbed' = (\E u \in Threads \ {t} : AtWork(u))

Wrote(e, b) ==
  /\ latest' = [latest EXCEPT ![e] = b]
  /\ written' = [written EXCEPT ![e] = now]
  /\ parked' = parked \ {e}
  /\ Disturb

ClientCall == calls < MaxCalls /\ calls' = calls + 1

\* trovex_write: refused when the topic has another canonical, unless forced.
\* (A doc keeps its kind here; VecTables has what a change of it does.)
PutCall ==
  /\ ClientCall
  /\ \E e \in Exts, b \in Bodies, kind \in Kinds, force \in BOOLEAN :
     \E tags \in IF kind = "record" THEN {{o} : o \in Owners} ELSE {{}} :
       /\ Stored(e) => docs[e].kind = kind
       /\ Contested(e, kind) = force
       /\ Put(e, b, kind, tags)
       /\ Wrote(e, b)
       /\ imported' = imported \ {e}
  /\ UNCHANGED <<now, tombs, thread, capped, doubled>>

\* trovex import of one file.
ImportCall ==
  /\ ClientCall
  /\ \E e \in Exts \ Records, b \in Bodies : Import(e, b, 0) /\ Wrote(e, b) /\ imported' = imported \cup {e}
  /\ UNCHANGED <<now, tombs, thread, capped, doubled>>
-----------------------------------------------------------------------------
(***************************************************************************)
(* Archiving, pinning, tagging                                             *)
(***************************************************************************)

\* trovex_archive and its undoing.
SetLifecycle ==
  /\ ClientCall
  /\ \E e \in Live, state \in {"active", "archived"} :
       /\ docs' = [docs EXCEPT ![e].lifecycle = state, ![e].since = now]
       /\ parked' = IF state = "archived" /\ docs[e].status = "canonical"
                    THEN parked \cup {e} ELSE parked \ {e}
  /\ Disturb
  /\ UNCHANGED <<now, tombs, thread, latest, written, imported, capped, doubled>>

\* (Records are exempt from what a pin exempts from.)
SetPinned ==
  /\ ClientCall
  /\ \E e \in Live \ Records : docs' = [docs EXCEPT ![e].pinned = ~@]
  /\ Disturb
  /\ UNCHANGED <<now, tombs, thread, latest, written, imported, parked, capped,
                 doubled>>

\* trovex_tag: an owner tag more or one less (only records' are looked at).
SetTags ==
  /\ ClientCall
  /\ \E e \in Records, o \in Owners :
       docs' = [docs EXCEPT ![e].tags = IF o \in @ THEN @ \ {o} ELSE @ \cup {o}]
  /\ Disturb
  /\ UNCHANGED <<now, tombs, thread, latest, written, imported, parked, capped,
                 doubled>>
-----------------------------------------------------------------------------
(***************************************************************************)
(* Deleting                                                                *)
(***************************************************************************)

\* _tombstone_locked() of the docs in `es', one after the other by id: each is
\* appended, then the oldest beyond the cap go.
TombOf(e, id) ==
  [id |-> id, ext |-> e, body |-> docs[e].body, kind |-> docs[e].kind,
   tags |-> docs[e].tags]

Newest(ts) == SubSeq(ts, Max({1, Len(ts) - TombCap + 1}), Len(ts))

Rank(es, e) == Cardinality({f \in es : docs[f].id <= docs[e].id})

\* The cap spares the greatest id, so the ids are consecutive.
Buries(es) ==
  [i \in 1..Cardinality(es) |->
     TombOf(CHOOSE e \in es : Rank(es, e) = i, NextTomb(tombs) + i - 1)]

Entombed(es) == Newest(tombs \o Buries(es))

Bodies0(ts) == {<<ts[i].ext, ts[i].body>> : i \in DOMAIN ts}

\* The tombstones of the docs in `es', and what is remembered of them.
Buried(es) ==
  /\ tombs' = Entombed(es)
  /\ capped' = IF Len(tombs) + Cardinality(es) <= TombCap THEN capped
               ELSE capped \cup ((Bodies0(tombs) \cup {<<e, docs[e].body>> : e \in es})
                                 \ Bodies0(tombs'))
  /\ parked' = parked \ es
  /\ imported' = imported \ es
  /\ written' = [e \in Exts |-> IF e \in es THEN 0 ELSE written[e]]

Removed(es) ==
  /\ docs' = [e \in Exts |-> IF e \in es THEN NoRow ELSE docs[e]]
  /\ Buried(es)

\* delete() and delete_by_id().
Delete ==
  /\ ClientCall
  /\ \E e \in Live : Removed({e})
  /\ Disturb
  /\ UNCHANGED <<now, thread, latest, doubled>>
-----------------------------------------------------------------------------
(***************************************************************************)
(* restore_deleted(): the tombstone is read without the lock, put() writes *)
(* and commits, and only then the tombstone goes, by its id.               *)
(***************************************************************************)

Restoring(t) == thread[t].pc \in {"restore", "clear"}

RestoreRead(t) ==
  /\ thread[t].pc = "idle"
  /\ ClientCall
  /\ \E i \in DOMAIN tombs :
       /\ \A j \in DOMAIN tombs : tombs[j].ext = tombs[i].ext => j <= i
       /\ thread' = [thread EXCEPT ![t] = [Idle EXCEPT !.pc = "restore", !.tomb = tombs[i]]]
       /\ doubled' = (doubled \/ \E u \in Threads \ {t} : Restoring(u))
  /\ UNCHANGED <<now, docs, tombs, latest, written, imported, parked, capped,
                 disturbed>>

RestorePutQuiet(t) ==   \* mutant
  LET d == thread[t].tomb IN
  /\ thread[t].pc = "restore"
  /\ IF Contested(d.ext, d.kind)
     THEN UNCHANGED <<docs, latest, written, imported, parked, disturbed>>
     ELSE /\ Put(d.ext, d.body, d.kind, d.tags)
          /\ Wrote(d.ext, d.body)
          /\ imported' = imported \ {d.ext}
  /\ thread' = [thread EXCEPT ![t].pc = "clear"]
  /\ UNCHANGED <<now, tombs, calls, capped, doubled>>

\* put() of the tombstone's row; a taken topic raises out of the restore.
RestorePut(t) ==
  LET d == thread[t].tomb IN
  /\ thread[t].pc = "restore"
  /\ IF Contested(d.ext, d.kind)
     THEN /\ thread' = [thread EXCEPT ![t] = Idle]
          /\ UNCHANGED <<docs, latest, written, imported, parked, disturbed>>
     ELSE /\ Put(d.ext, d.body, d.kind, d.tags)
          /\ Wrote(d.ext, d.body)
          /\ imported' = imported \ {d.ext}
          /\ thread' = [thread EXCEPT ![t].pc = "clear"]
  /\ UNCHANGED <<now, tombs, calls, capped, doubled>>

HasTomb(k) == \E i \in DOMAIN tombs : tombs[i].id = k
WithoutTomb(k) ==
  IF HasTomb(k) THEN RemoveAt(tombs, CHOOSE i \in DOMAIN tombs : tombs[i].id = k) ELSE tombs

\* DELETE FROM doc_tombstones WHERE id: whatever has that id by now.
RestoreClear(t) ==
  /\ thread[t].pc = "clear"
  /\ tombs' = WithoutTomb(thread[t].tomb.id)
  /\ thread' = [thread EXCEPT ![t] = Idle]
  /\ UNCHANGED <<now, docs, calls, latest, written, imported, parked, capped,
                 doubled, disturbed>>

\* The process dies: threads are gone, the store is as it was committed.
Crash ==
  /\ \E t \in Threads : thread[t] # Idle
  /\ thread' = [t \in Threads |-> Idle]
  /\ disturbed' = FALSE
  /\ UNCHANGED <<now, docs, tombs, calls, latest, written, imported, parked,
                 capped, doubled>>

\* restore_version(): body, kind and tags are read, then put.
RestoreVersion ==
  /\ ClientCall
  /\ \E e \in Live : \E b \in Range(docs[e].versions) :
       /\ ~Contested(e, docs[e].kind)
       /\ Put(e, b, docs[e].kind, docs[e].tags)
       /\ Wrote(e, b)
       /\ imported' = imported \ {e}
  /\ UNCHANGED <<now, tombs, thread, capped, doubled>>
-----------------------------------------------------------------------------
(***************************************************************************)
(* sweep_retention(): three stages in one hold, each by its own clock      *)
(***************************************************************************)

Exempt(row) == row.kind = "record" \/ row.pinned
Evictable(row) == row.body # NoBody /\ row.status \in LowValue /\ ~Exempt(row)
Stamped(row, days) == row.since > 0 /\ row.since < now - days

Archived(row) ==
  IF Evictable(row) /\ row.lifecycle = "active" /\ row.mtime < now - ArchiveAfter
  THEN [row EXCEPT !.lifecycle = "archived", !.since = now] ELSE row

Queued(row) ==
  IF Evictable(row) /\ row.lifecycle = "archived" /\ Stamped(row, PendingAfter)
  THEN [row EXCEPT !.lifecycle = "pending_delete", !.since = now] ELSE row

Doomed == {e \in Live : Evictable(docs[e]) /\ docs[e].lifecycle = "pending_delete"
                        /\ Stamped(docs[e], Grace)}

\* A row moved by one stage is stamped with now, so no other stage of the
\* same sweep takes it: the doomed are known beforehand.
SweepRetention ==
  /\ docs' = [e \in Exts |-> IF e \in Doomed THEN NoRow ELSE Queued(Archived(docs[e]))]
  /\ docs' # docs
  /\ Buried(Doomed)
  /\ UNCHANGED <<now, thread, calls, latest, doubled, disturbed>>
-----------------------------------------------------------------------------
(***************************************************************************)
(* sweep_bloat(): snapshots of ids, deleted batch by batch                 *)
(***************************************************************************)

Wearing(base, n) == {e \in Records : \E o \in docs[e].tags : o.base = base /\ o.n = n}
Bases == {o.base : o \in Owners}
Numbers(base) == {n \in {o.n : o \in Owners} \ {0} : Wearing(base, n) # {}}

KeepersUnsuffixed(base) == Wearing(base, 0)   \* mutant

\* Of an owner: its records without a suffix, else those of its last respawn.
Keepers(base) ==
  IF Wearing(base, 0) # {} \/ Numbers(base) = {} THEN Wearing(base, 0)
  ELSE Wearing(base, Max(Numbers(base)))

\* _ephemeral_owner_victims_locked(): a respawn's tag, and no tag that is kept.
Victims ==
  {e \in Records : /\ \E o \in docs[e].tags : o.n # 0
                   /\ \A base \in Bases : e \notin Keepers(base)}

IdsOf(es) == {docs[e].id : e \in es}
WithIds(ids) == {e \in Live : docs[e].id \in ids}

Sweeping(t, pc, ids, phase) ==
  thread' = [thread EXCEPT ![t] = [Idle EXCEPT !.pc = pc, !.ids = ids, !.phase = phase]]

SweepBegin(t) ==
  /\ thread[t].pc = "idle"
  /\ Sweeping(t, "chunks", IdsOf({e \in Live : docs[e].status = "superseded"}), "superseded")
  /\ Beside(t)
  /\ UNCHANGED <<now, docs, tombs, calls, latest, written, imported, parked, capped,
                 doubled>>

\* _tombstone_ids_batched(): one batch under the lock; ids gone are skipped.
SweepChunk(t) ==
  LET batch == {i \in thread[t].ids :
                  Cardinality({j \in thread[t].ids : j < i}) < SweepBatch}
  IN /\ thread[t].pc = "chunks"
     /\ thread[t].ids # {}
     /\ Removed(WithIds(batch))
     /\ Sweeping(t, "chunks", thread[t].ids \ batch, thread[t].phase)
     /\ UNCHANGED <<now, calls, latest, doubled, disturbed>>

Aged(row) ==
  IF /\ row.body # NoBody /\ row.status = "canonical" /\ row.kind # "record"
     /\ row.mtime < now - StaleAge
  THEN [row EXCEPT !.status = "stale"] ELSE row

SweepMarkStale(t) ==
  /\ thread[t].pc = "chunks" /\ thread[t].ids = {} /\ thread[t].phase = "superseded"
  /\ docs' = [e \in Exts |-> Aged(docs[e])]
  /\ Sweeping(t, "owners", {}, "stale")
  /\ UNCHANGED <<now, tombs, calls, latest, written, imported, parked, capped,
                 doubled, disturbed>>

SweepFindVictims(t) ==
  /\ thread[t].pc = "owners"
  /\ Sweeping(t, "chunks", IdsOf(Victims), "owners")
  /\ Beside(t)
  /\ UNCHANGED <<now, docs, tombs, calls, latest, written, imported, parked, capped,
                 doubled>>

SweepEnd(t) ==
  /\ thread[t].pc = "chunks" /\ thread[t].ids = {} /\ thread[t].phase = "owners"
  /\ thread' = [thread EXCEPT ![t] = Idle]
  /\ Beside(t)
  /\ UNCHANGED <<now, docs, tombs, calls, latest, written, imported, parked, capped,
                 doubled>>
-----------------------------------------------------------------------------
(***************************************************************************)
(* Environment                                                             *)
(***************************************************************************)

\* No call takes a day.
Tick ==
  /\ now < MaxTime
  /\ \A t \in Threads : thread[t] = Idle
  /\ now' = now + 1
  /\ UNCHANGED <<docs, tombs, thread, calls, latest, written, imported, parked,
                 capped, doubled, disturbed>>

\* A status pass finds a near-duplicate; it does not touch superseded docs.
Rated ==
  /\ \E e \in Live : /\ docs[e].status \in {"canonical", "stale"}
                     /\ docs[e].kind # "record"
                     /\ docs' = [docs EXCEPT ![e].status = "duplicate"]
  /\ UNCHANGED <<now, tombs, thread, calls, latest, written, imported, parked,
                 capped, doubled, disturbed>>

Client == PutCall \/ ImportCall \/ SetLifecycle \/ SetPinned \/ SetTags \/ Delete
            \/ RestoreVersion

Sweep(t) == SweepBegin(t) \/ SweepChunk(t) \/ SweepMarkStale(t)
              \/ SweepFindVictims(t) \/ SweepEnd(t)

Next ==
  \/ Client
  \/ \E t \in Threads : RestoreRead(t) \/ RestorePut(t) \/ RestoreClear(t) \/ Sweep(t)
  \/ SweepRetention
  \/ Tick \/ Rated \/ Crash

Spec == Init /\ [][Next]_vars
-----------------------------------------------------------------------------
TypeOK ==
  /\ now \in 0..MaxTime
  /\ docs \in [Exts -> Row]
  /\ \A i \in DOMAIN tombs : tombs[i] \in Tombstone
  /\ \A e, f \in Live : docs[e].id = docs[f].id => e = f

\* Whatever clients, sweeps and restores did, the body a client last wrote is
\* there: live, in the doc's versions, or in a tombstone, unless the cap took
\* that tombstone.
Recoverable(e) ==
  \/ latest[e] = NoBody
  \/ docs[e].body = latest[e]
  \/ latest[e] \in Range(docs[e].versions)
  \/ <<e, latest[e]>> \in Bodies0(tombs)
  \/ <<e, latest[e]>> \in capped

LastWriteSurvives == \A e \in Exts : Recoverable(e)

\* ... while no two restores overlapped (store.py:1088-1118).
LastWriteSurvivesUndoubled == TypeOK /\ (doubled \/ LastWriteSurvives)

EvictedNow == {e \in Live : docs'[e].body = NoBody /\ docs[e].lifecycle = "pending_delete"
                            /\ docs[e].status \in LowValue}

\* store.py:287-290, "A write is a 'this doc is live' signal": the TTL sweep
\* deletes no doc that was written less than the grace window ago, through
\* whatever stages it went before; an import is no such write (store.py:1144).
WrittenIsNotEvicted ==
  [][SweepRetention => \A e \in EvictedNow \ imported : written[e] < now - Grace]_vars

WrittenOrImportedIsNotEvicted ==
  [][SweepRetention => \A e \in EvictedNow : written[e] < now - Grace]_vars

\* store.py:849-852: a canonical that somebody archived is kept hidden, and
\* never drifts into the deletion queue by itself.
ParkedIsKept ==
  [][SweepRetention => \A e \in parked : docs'[e].lifecycle # "pending_delete"]_vars

\* store.py:838-840, eviction by time in state: a doc that is queued for
\* deletion was hidden since before the last PendingAfter days began; so
\* nobody wrote it in these days.
QueuedAfterItsTime ==
  [][SweepRetention => \A e \in Live :
       docs[e].lifecycle = "archived" /\ docs'[e].lifecycle = "pending_delete"
         => e \in imported \/ written[e] < now - PendingAfter]_vars

OwnersSpared(t) ==
  SweepChunk(t) /\ thread[t].phase = "owners" =>
    \A e \in Records : docs'[e].body = NoBody =>
      \A o \in docs[e].tags :
        /\ e \notin Keepers(o.base)
        /\ \E f \in Records \ {e} : docs'[f].body # NoBody
                                   /\ \E p \in docs[f].tags : p.base = o.base

\* store.py:1064-1066: the collapse of an owner's respawns leaves every owner
\* that had a record one, and takes no record that still wears a kept tag ...
OwnersKept == [][\A t \in Threads : OwnersSpared(t)]_vars

\* ... while no client writes between the snapshot and its batches, and no other
\* sweep runs beside (the server's runs in its Applier, one after the other).
OwnersKeptUndisturbed == [][~disturbed => \A t \in Threads : OwnersSpared(t)]_vars
=============================================================================
