------------------------------- MODULE Tools -------------------------------
(***************************************************************************)
(* The MCP tools agents call (mcp_app.py), as calls of several steps over  *)
(* one store: each tool runs on a thread of the offload pool, and what it  *)
(* resolved, read or probed may have changed by the time it writes.        *)
(*                                                                         *)
(*   trovex        version of the corpus, cache lookup, search, cache put  *)
(*   trovex_write  resolve and read, duplicate probe, put, duplicate mark  *)
(*   trovex_restore  read the version, put, duplicate mark                 *)
(*   trovex_tag, trovex_archive, trovex_delete  one transaction            *)
(*                                                                         *)
(* An id is a sequence, and any prefix of it a short id.  A body is its    *)
(* sections: a text per heading, or Absent.  The leading section stands    *)
(* for the title, which gives the topic.  Which bodies are near-copies is  *)
(* a threshold on the distance of their vectors: symmetric, not            *)
(* transitive.  Every doc has the same searchable kind, and one query      *)
(* text is asked.  A call that outlives its deadline goes on: a retry      *)
(* after "tool_timeout" is a second thread with the same arguments.        *)
(***************************************************************************)
EXTENDS Integers, FiniteSets, Sequences, SequencesExt, FiniteSetsExt

CONSTANTS
    Threads,    \* threads of the pool that run calls
    Uuids,      \* ids the store makes up (uuid4)
    Refs,       \* what agents pass as doc_id: full and short ids
    Heads,      \* headings
    Lead,       \* the heading of the leading section
    Texts,      \* texts of a section
    Absent,     \* no such section
    Drafts,     \* whole bodies agents write
    Alike,      \* pairs of bodies whose vectors are within the threshold
    None,       \* no value
    MaxRows,    \* row cap of query_cache
    MaxCalls    \* bound: calls and re-indexed files of a behaviour

ASSUME ToolsAssumption ==
    /\ Lead \in Heads
    /\ Absent \notin Texts
    /\ Drafts \subseteq {b \in [Heads -> Texts \cup {Absent}] : b[Lead] # Absent}
    /\ \A p \in Alike : <<p[2], p[1]>> \in Alike
    /\ MaxRows \in Nat \ {0}

VARIABLES
    docs,       \* owned docs by ext_id
    file,       \* the one file-backed doc of source "code"
    cache,      \* table query_cache: an entry per scope, or None
    call,       \* the call each thread runs
    clock,      \* time.time() of the last write
    calls,      \* calls begun
    versions,   \* history: corpus versions each scope had, before and since its results last changed
    since,      \* history: what each query could have been answered since it began
    quiet,      \* history: scopes whose results changed and whose version stayed, or came back
    meant,      \* history: body and tag of each doc as its answered writes say
    crossed,    \* history: docs a call wrote over with what it read before another write or tag
    unchecked   \* history: docs written whose duplicate check is due, failed, or left a copy

vars == <<docs, file, cache, call, clock, calls, versions, since, quiet, meant, crossed,
          unchecked>>

Scopes == {"trovex", "*"}

FileDoc == <<0>>

With(f, i, x) == [j \in DOMAIN f \cup {i} |-> IF j = i THEN x ELSE f[j]]

\* the cosine similarity of the two vectors reaches the threshold of the kind
Near(b, c) == <<b, c>> \in Alike

Topic(body) == body[Lead]

\* put: the row of a new doc
Row(body, tag) ==
    [body |-> body, tag |-> tag, old |-> None, lifecycle |-> "active",
     status |-> "canonical", mtime |-> clock + 1]

\* resolve_ext_id: an exact id, or the only id the short one begins
Matching(ref) == {i \in DOMAIN docs : IsPrefix(ref, i)}

Resolve(ref) ==
    IF ref \in DOMAIN docs THEN ref
    ELSE IF Cardinality(Matching(ref)) = 1 THEN CHOOSE i \in Matching(ref) : TRUE
    ELSE None

\* What trovex(q) lists for a scope: docs it may show, with what ranks them.
Shown(ds, f, scope) ==
    {<<i, ds[i].body>> : i \in {j \in DOMAIN ds : /\ ds[j].lifecycle = "active"
                                                  /\ ds[j].status # "duplicate"}}
    \cup (IF scope = "*" THEN {<<FileDoc, f.text>>} ELSE {})

\* corpus_version: COUNT(*) and MAX(mtime) of the docs in scope
Mtimes(ds, f, scope) ==
    {ds[i].mtime : i \in DOMAIN ds} \cup (IF scope = "*" THEN {f.mtime} ELSE {})

CorpusVersion(ds, f, scope) ==
    <<Cardinality(DOMAIN ds) + (IF scope = "*" THEN 1 ELSE 0), Max(Mtimes(ds, f, scope) \cup {0})>>

Idle == [op |-> "none", at |-> "done"]

Init ==
    /\ docs = <<>>
    /\ file = [text |-> CHOOSE x \in Texts : TRUE, mtime |-> 0]
    /\ cache = [s \in Scopes |-> None]
    /\ call = [t \in Threads |-> Idle]
    /\ clock = 0
    /\ calls = 0
    /\ versions = [s \in Scopes |-> [past |-> {}, now |-> {CorpusVersion(docs, file, s)}]]
    /\ since = [t \in Threads |-> {}]
    /\ quiet = {}
    /\ meant = <<>>
    /\ crossed = {}
    /\ unchecked = {}

(***************************************************************************)
(* What a change of the docs does to the histories.                        *)
(***************************************************************************)
Changed(s) == Shown(docs', file', s) # Shown(docs, file, s)

Remember ==
    /\ versions' = [s \in Scopes |->
          LET v == CorpusVersion(docs', file', s)
              had == versions[s] IN
          IF Changed(s) THEN [past |-> had.past \cup had.now, now |-> {v}]
                        ELSE [past |-> had.past, now |-> had.now \cup {v}]]
    /\ since' = [t \in Threads |-> IF since[t] = {} THEN {}
                                  ELSE since[t] \cup {Shown(docs', file', call[t].scope)}]
    /\ LET stayed(s) == CorpusVersion(docs', file', s) = CorpusVersion(docs, file, s)
           stale == {s \in Scopes : /\ Changed(s) \/ ~stayed(s)
                                    /\ CorpusVersion(docs', file', s) \in versions'[s].past} IN
       quiet' = quiet \cup {<<s, IF stayed(s) THEN "stayed" ELSE "back">> : s \in stale}

Begin(t, c) ==
    /\ call[t].at = "done"
    /\ calls < MaxCalls
    /\ calls' = calls + 1
    /\ call' = [call EXCEPT ![t] = c]

Reply(t) == call' = [call EXCEPT ![t] = Idle]

Hit(t, out) == call' = [call EXCEPT ![t] =
    [op |-> "hit", at |-> "done", scope |-> @.scope, fresh |-> out \in since[t]]]

StoreSame == UNCHANGED <<docs, file, clock, versions, quiet, meant, crossed, unchecked>>

(***************************************************************************)
(* store.put(): a commit, then detect_duplicate_for() with one of its own, *)
(* before the lock is given back.                                          *)
(***************************************************************************)
LockFree == \A t \in Threads : call[t].at # "mark"

Unchanged(id, body) == docs[id].body = body

Updated(id, body, tag) ==
    [docs EXCEPT ![id] =
        [@ EXCEPT !.body = body, !.tag = tag, !.lifecycle = "active", !.mtime = clock + 1,
                  !.old = IF Unchanged(id, body) THEN docs[id].old ELSE docs[id].body]]

Stored(id, body, tag) ==
    IF id \in DOMAIN docs THEN Updated(id, body, tag) ELSE With(docs, id, Row(body, tag))

\* The other live canonical of the topic, when the written doc is to be one.
Rivals(id, body) ==
    IF id \in DOMAIN docs /\ docs[id].status # "canonical" THEN {}
    ELSE {j \in DOMAIN docs \ {id} : /\ docs[j].status = "canonical"
                                     /\ Topic(docs[j].body) = Topic(body)}

\* What put() commits: the rival of a forced write steps down with it.
After(id, body, tag) ==
    [j \in DOMAIN Stored(id, body, tag) |->
        IF j \in Rivals(id, body)
        THEN [docs[j] EXCEPT !.status = "superseded", !.lifecycle = "archived"]
        ELSE Stored(id, body, tag)[j]]

\* Canonical docs near the written one: candidates to be its older copy.
Copies(ds, id) ==
    {j \in DOMAIN ds \ {id} : ds[j].status = "canonical" /\ Near(ds[j].body, ds[id].body)}

\* mutant: near-copies are left to the next status pass
FlaggedLater(ds, id) == {ds}

\* The docs the check may leave: of the doc and its nearest copy, if any, the
\* older is flagged.
Flagged(ds, id) ==
    IF ds[id].status # "canonical" \/ Copies(ds, id) = {} THEN {ds}
    ELSE {[ds EXCEPT ![IF ds[id].mtime >= ds[j].mtime THEN j ELSE id].status = "duplicate"] :
              j \in Copies(ds, id)}

\* A patch is meant to change its section alone, a restore the body alone;
\* anything else replaces the doc.
PutMeant(c, id) ==
    IF id \notin DOMAIN meant THEN [body |-> c.body, tag |-> c.tag]
    ELSE IF c.section # None THEN [meant[id] EXCEPT !.body[c.section] = c.text]
    ELSE [body |-> c.body, tag |-> IF c.op = "restore" THEN meant[id].tag ELSE c.tag]

\* The call keeps what it read of the doc, and the doc has changed since.
KeepsRead(c) == c.section # None \/ c.op = "restore"

Stale(c, id) ==
    KeepsRead(c) /\ (id \notin DOMAIN docs \/ docs[id].mtime # c.readAt \/ docs[id].tag # c.tag)

\* TopicCollisionError: another live canonical has the topic, nothing is written.
Refused(c, id) == ~c.force /\ Rivals(id, c.body) # {}

\* trovex_write, trovex_restore: the put.
Put(t) ==
    LET c == call[t] IN
    /\ c.at = "put"
    /\ LockFree
    /\ \E id \in IF c.target = None THEN Uuids \ DOMAIN docs ELSE {c.target} :
        \/ /\ Refused(c, id)
           /\ Reply(t)
           /\ UNCHANGED <<docs, clock, meant, crossed, unchecked>>
        \/ /\ ~Refused(c, id)
           /\ docs' = After(id, c.body, c.tag)
           /\ meant' = With(meant, id, PutMeant(c, id))
           /\ crossed' = IF Stale(c, id) \/ (KeepsRead(c) /\ id \in crossed)
                         THEN crossed \cup {id} ELSE crossed \ {id}
           /\ IF id \in DOMAIN docs /\ Unchanged(id, c.body)
              THEN Reply(t) /\ UNCHANGED unchecked
              ELSE /\ call' = [call EXCEPT ![t] = [op |-> "mark", at |-> "mark", target |-> id]]
                   /\ unchecked' = unchecked \cup {id}
           /\ clock' = clock + 1
    /\ UNCHANGED <<file, cache, calls>>
    /\ Remember

\* detect_duplicate_for. Its errors are swallowed, and neighbours of other
\* status may fill the window of 20 before they are dropped: then nothing is
\* flagged. It flags one copy, however many there are.
Mark(t) ==
    LET id == call[t].target IN
    /\ call[t].at = "mark"
    /\ \/ /\ docs' \in Flagged(docs, id)
          /\ unchecked' = IF \A j, k \in Copies(docs, id) : j = k THEN unchecked \ {id}
                          ELSE unchecked
       \/ UNCHANGED <<docs, unchecked>>
    /\ Reply(t)
    /\ UNCHANGED <<file, cache, calls, clock, meant, crossed>>
    /\ Remember

(***************************************************************************)
(* trovex_write.                                                           *)
(***************************************************************************)
WriteCall(t) ==
    \E ref \in Refs \cup {None}, section \in Heads \cup {None}, force \in BOOLEAN,
       body \in Drafts, text \in Texts :
        /\ section # None => body = CHOOSE b \in Drafts : TRUE
        /\ section = None => text = CHOOSE x \in Texts : TRUE
        /\ force => section = None
        /\ Begin(t, [op |-> "write", at |-> "read", ref |-> ref, section |-> section,
                     force |-> force, body |-> body, text |-> text, tag |-> FALSE,
                     target |-> None, readAt |-> 0])
        /\ UNCHANGED <<cache, since>>
        /\ StoreSame

\* mutant: a missing heading is not an error, the text becomes the document
PatchedOrWhole(body, section, text) ==
    IF body[section] = Absent THEN [h \in Heads |-> IF h = Lead THEN text ELSE Absent]
    ELSE [body EXCEPT ![section] = text]

\* replace_section: the patched document, or None when there is no such heading
Patched(body, section, text) ==
    IF body[section] = Absent THEN None ELSE [body EXCEPT ![section] = text]

\* A section write: resolve, get, patch; any failure writes nothing.
WriteSection(t) ==
    LET c == call[t]
        id == IF c.ref = None THEN None ELSE Resolve(c.ref) IN
    /\ c.op = "write" /\ c.at = "read" /\ c.section # None
    /\ IF id = None \/ Patched(docs[id].body, c.section, c.text) = None
       THEN Reply(t)
       ELSE call' = [call EXCEPT ![t] =
                [@ EXCEPT !.at = "put", !.target = id, !.readAt = docs[id].mtime,
                          !.body = Patched(docs[id].body, c.section, c.text),
                          !.tag = docs[id].tag]]
    /\ UNCHANGED <<cache, calls, since>>
    /\ StoreSame

\* A whole write: to the doc the id names, else to the id itself as a
\* client-chosen one; without an id it creates, after the probe unless forced.
WriteWhole(t) ==
    LET c == call[t] IN
    /\ c.op = "write" /\ c.at = "read" /\ c.section = None
    /\ call' = [call EXCEPT ![t].target =
                    IF c.ref = None \/ Resolve(c.ref) = None THEN c.ref ELSE Resolve(c.ref),
                            ![t].at = IF c.ref = None /\ ~c.force THEN "probe" ELSE "put"]
    /\ UNCHANGED <<cache, calls, since>>
    /\ StoreSame

\* check_duplicate: a near-copy that is canonical blocks the create, unless
\* the check fails or the window of 20 holds none.
Probe(t) ==
    LET c == call[t] IN
    /\ c.at = "probe"
    /\ LockFree
    /\ \/ /\ \E j \in DOMAIN docs : docs[j].status = "canonical" /\ Near(docs[j].body, c.body)
          /\ Reply(t)
       \/ call' = [call EXCEPT ![t].at = "put"]
    /\ UNCHANGED <<cache, calls, since>>
    /\ StoreSame

(***************************************************************************)
(* trovex_restore: read the prior version and the tags, then put.          *)
(***************************************************************************)
Restore(t) ==
    \E ref \in Refs :
        LET id == Resolve(ref) IN
        /\ id # None
        /\ docs[id].old # None
        /\ Begin(t, [op |-> "restore", at |-> "put", section |-> None, force |-> FALSE,
                     body |-> docs[id].old, tag |-> docs[id].tag, target |-> id,
                     readAt |-> docs[id].mtime])
        /\ UNCHANGED <<cache, since>>
        /\ StoreSame

(***************************************************************************)
(* trovex_tag, trovex_archive, trovex_delete.  None of them moves mtime.   *)
(***************************************************************************)
Tag(t) ==
    \E id \in Refs \cap DOMAIN docs, tag \in BOOLEAN :
        /\ LockFree
        /\ tag # docs[id].tag
        /\ Begin(t, Idle)
        /\ docs' = [docs EXCEPT ![id].tag = tag]
        /\ meant' = [meant EXCEPT ![id].tag = tag]
        /\ UNCHANGED <<file, cache, clock, crossed, unchecked>>
        /\ Remember

Archive(t) ==
    \E ref \in Refs, state \in {"active", "archived"} :
        LET id == Resolve(ref) IN
        /\ id # None
        /\ LockFree
        /\ docs[id].lifecycle # state
        /\ Begin(t, Idle)
        /\ docs' = [docs EXCEPT ![id].lifecycle = state]
        /\ UNCHANGED <<file, cache, clock, meant, crossed, unchecked>>
        /\ Remember

Delete(t) ==
    \E id \in Refs \cap DOMAIN docs :
        LET left == DOMAIN docs \ {id} IN
        /\ LockFree
        /\ Begin(t, Idle)
        /\ docs' = [j \in left |-> docs[j]]
        /\ meant' = [j \in left |-> meant[j]]
        /\ crossed' = crossed \ {id}
        /\ unchecked' = unchecked \ {id}
        /\ UNCHANGED <<file, cache, clock>>
        /\ Remember

\* An index pass brings the file's content along, with the file's own mtime.
IndexFile ==
    /\ calls < MaxCalls
    /\ calls' = calls + 1
    /\ \E text \in Texts \ {file.text}, m \in {file.mtime, clock + 1} :
           /\ file' = [text |-> text, mtime |-> m]
           /\ clock' = clock + 1
    /\ UNCHANGED <<docs, cache, call, meant, crossed, unchecked>>
    /\ Remember

(***************************************************************************)
(* trovex(q): the query cache in front of search and reranker.             *)
(***************************************************************************)
Query(t) ==
    \E s \in Scopes :
        /\ Begin(t, [op |-> "query", at |-> "lookup", scope |-> s, out |-> {},
                     version |-> CorpusVersion(docs, file, s)])
        /\ since' = [since EXCEPT ![t] = {Shown(docs, file, s)}]
        /\ UNCHANGED cache
        /\ StoreSame

\* cache.get: key and version must match, and the entry be younger than the
\* TTL (Lapse).
Lookup(t) ==
    LET c == call[t]
        row == cache[c.scope] IN
    /\ c.op = "query" /\ c.at = "lookup"
    /\ IF row # None /\ row.version = c.version
       THEN Hit(t, row.out) /\ since' = [since EXCEPT ![t] = {}]
       ELSE call' = [call EXCEPT ![t].at = "search"] /\ UNCHANGED since
    /\ UNCHANGED <<cache, calls>>
    /\ StoreSame

Search(t) ==
    /\ call[t].at = "search"
    /\ call' = [call EXCEPT ![t].at = "store", ![t].out = Shown(docs, file, call[t].scope)]
    /\ UNCHANGED <<cache, calls, since>>
    /\ StoreSame

\* mutant: under the version the corpus has when the answer is stored
EntryNow(c) == [version |-> CorpusVersion(docs, file, c.scope), out |-> c.out, at |-> calls]

\* cache.put: under the version read before the search
Entry(c) == [version |-> c.version, out |-> c.out, at |-> calls]

\* cache.put: the newest MaxRows entries stay
Capped(rows) ==
    LET full == {s \in Scopes : rows[s] # None}
        newer(s) == {r \in full \ {s} : rows[r].at > rows[s].at} IN
    [s \in Scopes |-> IF s \in full /\ Cardinality(newer(s)) < MaxRows THEN rows[s] ELSE None]

StoreAnswer(t) ==
    LET c == call[t] IN
    /\ c.at = "store"
    /\ cache' = Capped([cache EXCEPT ![c.scope] = Entry(c)])
    /\ Reply(t)
    /\ since' = [since EXCEPT ![t] = {}]
    /\ UNCHANGED calls
    /\ StoreSame

\* An entry passes its TTL.
Lapse ==
    /\ \E s \in Scopes : cache[s] # None /\ cache' = [cache EXCEPT ![s] = None]
    /\ UNCHANGED <<call, calls, since>>
    /\ StoreSame

\* The process ends: its calls are gone, the tables stay.
Crash ==
    /\ calls < MaxCalls
    /\ calls' = calls + 1
    /\ call' = [t \in Threads |-> Idle]
    /\ since' = [t \in Threads |-> {}]
    /\ UNCHANGED cache
    /\ StoreSame

Next ==
    \/ \E t \in Threads :
        \/ WriteCall(t) \/ WriteSection(t) \/ WriteWhole(t) \/ Probe(t) \/ Put(t) \/ Mark(t)
        \/ Restore(t) \/ Tag(t) \/ Archive(t) \/ Delete(t)
        \/ Query(t) \/ Lookup(t) \/ Search(t) \/ StoreAnswer(t)
    \/ IndexFile
    \/ Lapse
    \/ Crash

Spec == Init /\ [][Next]_vars

(***************************************************************************)
(* Properties.                                                             *)
(***************************************************************************)

\* An answer from the query cache is what a search would have answered at
\* some time since the call began, unless the scope was at some time at a corpus
\* version it had before its results last changed (cache.py: "Zero false-hit risk").
HitIsFreshUnlessQuiet ==
    \A t \in Threads : LET c == call[t] IN
        c.op = "hit" => c.fresh \/ \E how \in {"stayed", "back"} : <<c.scope, how>> \in quiet

\* The same without the exception: cache.py:1-9 says any write or delete
\* invalidates stale entries.
HitIsFresh ==
    \A t \in Threads : LET c == call[t] IN
        c.op = "hit" => c.fresh

\* Only a version that stayed is excused: one that came back is not.
HitIsFreshUnlessMuted ==
    \A t \in Threads : LET c == call[t] IN
        c.op = "hit" => c.fresh \/ <<c.scope, "stayed">> \in quiet

\* No two canonical docs are near-copies unless the last check of one of them
\* is still due, did not run to its end, or found several copies, whatever
\* creates, forced writes, patches, restores and restarts interleave: creates
\* probe before they write, and the second of two racing ones flags the first
\* (status.py detect_duplicate_for, after the commit of put() and under its lock).
OneCanonicalPerGistChecked ==
    \A i, j \in DOMAIN docs :
        i # j /\ docs[i].status = "canonical" /\ docs[j].status = "canonical"
              /\ Near(docs[i].body, docs[j].body)
            => i \in unchecked \/ j \in unchecked

\* The same without the exception, once every write has answered: "stops the
\* 'one topic, N near-copies' bloat at the source" (trovex_write).
OneCanonicalPerGist ==
    LockFree => \A i, j \in DOMAIN docs :
        i # j /\ docs[i].status = "canonical" /\ docs[j].status = "canonical"
            => ~Near(docs[i].body, docs[j].body)

\* Every doc has the body and the tag its answered writes gave it: a patch
\* changes its own section and nothing else, a restore the body and not the
\* tag, unless it wrote over a doc that another write, or a tag, had changed
\* since the call read it.
PatchSparesTheRestUncrossed ==
    \A i \in DOMAIN docs :
        (docs[i].body = meant[i].body /\ docs[i].tag = meant[i].tag) \/ i \in crossed

\* The same without the exception: "PATCH only this heading's section in
\* place" (trovex_write).
PatchSparesTheRest == \A i \in DOMAIN docs : docs[i].body = meant[i].body

\* A tag set by trovex_tag outlives a patch that does not name tags.
TagsKept == \A i \in DOMAIN docs : meant[i].tag => docs[i].tag

\* A doc flagged as a duplicate is a near-copy of one that is shown
\* (search.py: "they are a near-copy of a canonical doc").
DuplicateHasItsCanonical ==
    \A i \in DOMAIN docs : docs[i].status = "duplicate" =>
        \E j \in DOMAIN docs : docs[j].status = "canonical" /\ Near(docs[i].body, docs[j].body)
=============================================================================
