---------------------------- MODULE StoreWrites ----------------------------
(***************************************************************************)
(* SqliteStore.put and delete, statement by statement (store.py): several  *)
(* threads of one process share one sqlite connection, hold _lock for the  *)
(* statements and the commit of a write, and roll the connection back in   *)
(* _retry_on_locked when a write raises - which is after `with self._lock' *)
(* has released the lock.  A put that stored a new text then marks a       *)
(* duplicate in a second transaction, whose exceptions it swallows.        *)
(* Another process writes through a connection of its own.                 *)
(*                                                                         *)
(* `committed' is the database on disk, `view' what the shared connection  *)
(* sees, `inTxn' its in_transaction.  A row's versions die with it, its    *)
(* tombstones do not; the caps on both are above what is written here.     *)
(* A row's status is not modelled: a mark changes no more than that.       *)
(***************************************************************************)
EXTENDS Naturals

CONSTANTS
  Threads,
  Exts, Bodies,
  NoBody, NoExt, NoOne,
  MaxAttempts,  \* _LOCKED_RETRY_ATTEMPTS
  MayRaise,     \* do writes raise?
  OtherProcess  \* does another process write?

ASSUME ConstantsAssumption ==
  /\ NoBody \notin Bodies
  /\ NoExt \notin Exts
  /\ NoOne \notin Threads
  /\ MaxAttempts \in Nat \ {0}
  /\ MayRaise \in BOOLEAN
  /\ OtherProcess \in BOOLEAN

VARIABLES
  committed, view, inTxn, lock, thread,
  stranded,   \* history: the transaction that is open holds the mark of a put
              \* whose duplicate check raised
  crossed,    \* history: a thread held the lock while another had a rollback due
  interposed  \* history: another process wrote after the reads of a write and
              \* before its first statement

vars == <<committed, view, inTxn, lock, thread, stranded, crossed, interposed>>

\* index: the body its chunks, full-text rows and vectors are of.
Doc == [body : Bodies \cup {NoBody}, index : Bodies \cup {NoBody},
        versions : SUBSET Bodies]

NoDoc == [body |-> NoBody, index |-> NoBody, versions |-> {}]

Database == [docs : [Exts -> Doc], tombs : SUBSET (Exts \X Bodies)]

Idle(reply) == [pc |-> "idle", op |-> "none", ext |-> NoExt, body |-> NoBody,
                seen |-> NoBody, attempt |-> 0, reply |-> reply]

Init ==
  /\ committed = [docs |-> [e \in Exts |-> NoDoc], tombs |-> {}]
  /\ view = committed
  /\ inTxn = FALSE
  /\ lock = NoOne
  /\ thread = [t \in Threads |-> Idle("none")]
  /\ stranded = FALSE
  /\ crossed = FALSE
  /\ interposed = FALSE

Stored(db, e) == db.docs[e].body # NoBody

Call(t, op, e, b, pc) ==
  thread' = [thread EXCEPT ![t] = [Idle("none") EXCEPT
               !.pc = pc, !.op = op, !.ext = e, !.body = b, !.attempt = 1]]

Goto(t, pc) == thread' = [thread EXCEPT ![t].pc = pc]

\* A statement of thread t that writes: the connection's transaction, or one
\* that it opens, now holds `db'.
Statement(t, db, pc) ==
  /\ view' = db
  /\ inTxn' = TRUE
  /\ Goto(t, pc)
  /\ UNCHANGED <<committed, lock>>

\* An UPDATE ... WHERE id: nothing when the row is not there any more.
OnRow(e, row) == IF Stored(view, e) THEN [view EXCEPT !.docs[e] = row] ELSE view
-----------------------------------------------------------------------------
(***************************************************************************)
(* put()                                                                   *)
(***************************************************************************)

PutCall(t) ==
  /\ thread[t].pc = "idle"
  /\ \E e \in Exts, b \in Bodies : Call(t, "put", e, b, "begin")
  /\ UNCHANGED <<committed, view, inTxn, lock>>

\* Where the statements start for a doc that is there with another body (its
\* body is kept first), with this body already, or not at all.
FirstStep(e, b) ==
  CASE ~Stored(view, e) -> "insert"
    [] view.docs[e].body = b -> "touch"
    [] OTHER -> "read"

PutBegin(t) ==
  /\ thread[t].pc = "begin"
  /\ thread[t].op = "put"
  /\ lock = NoOne
  /\ lock' = t
  /\ Goto(t, FirstStep(thread[t].ext, thread[t].body))
  /\ UNCHANGED <<committed, view, inTxn>>

\* _snapshot_version_locked(): a SELECT ...

SnapshotRead(t) ==
  LET e == thread[t].ext IN
  /\ thread[t].pc = "read"
  /\ IF Stored(view, e)
     THEN thread' = [thread EXCEPT ![t].pc = "keep", ![t].seen = view.docs[e].body]
     ELSE Goto(t, "update")
  /\ UNCHANGED <<committed, view, inTxn, lock>>

\* ... and an INSERT.
SnapshotWrite(t) ==
  LET e == thread[t].ext IN
  /\ thread[t].pc = "keep"
  /\ Statement(t,
       OnRow(e, [view.docs[e] EXCEPT !.versions = @ \cup {thread[t].seen}]),
       "update")

\* UPDATE docs: of a changed body, or of the same one (no re-index follows).
UpdateRowOnly(t) ==   \* mutant
  LET e == thread[t].ext IN
  /\ thread[t].pc \in {"update", "touch"}
  /\ Statement(t, OnRow(e, [view.docs[e] EXCEPT !.body = thread[t].body]), "commit")

UpdateRow(t) ==
  LET e == thread[t].ext IN
  /\ thread[t].pc \in {"update", "touch"}
  /\ Statement(t, OnRow(e, [view.docs[e] EXCEPT !.body = thread[t].body]),
               IF thread[t].pc = "update" THEN "index" ELSE "commit")

InsertRow(t) ==
  LET e == thread[t].ext IN
  /\ thread[t].pc = "insert"
  /\ ~Stored(view, e)
  /\ Statement(t, [view EXCEPT !.docs[e] = [NoDoc EXCEPT !.body = thread[t].body]],
               "index")

\* Full text, chunks, vectors, tags, links.
IndexRow(t) ==
  LET e == thread[t].ext IN
  /\ thread[t].pc = "index"
  /\ Statement(t, OnRow(e, [view.docs[e] EXCEPT !.index = thread[t].body]), "store")

\* The commit of a new text, with the lock kept.
PutCommit(t) ==
  /\ thread[t].pc = "store"
  /\ committed' = view
  /\ inTxn' = FALSE
  /\ Goto(t, "mark")
  /\ UNCHANGED <<view, lock>>

\* detect_duplicate_for(): the older of the doc and a near neighbour is marked.
MarkDuplicate(t) ==
  /\ thread[t].pc = "mark"
  /\ Statement(t, view, "marked")

\* The put answers, whatever became of the mark.
Answer(t) ==
  /\ lock' = NoOne
  /\ thread' = [thread EXCEPT ![t] = Idle("ok")]
  /\ UNCHANGED view

\* Nothing is near, the kind is store-only, or the check raised before its
\* UPDATE.
Unmarked(t) ==
  /\ thread[t].pc = "mark"
  /\ Answer(t)
  /\ UNCHANGED <<committed, inTxn>>

MarkCommit(t) ==
  /\ thread[t].pc = "marked"
  /\ Answer(t)
  /\ committed' = view
  /\ inTxn' = FALSE

\* `except Exception: pass': what raised after the UPDATE leaves its transaction
\* to the next write of any thread.
MarkSwallowed(t) ==
  /\ MayRaise
  /\ thread[t].pc = "marked"
  /\ Answer(t)
  /\ UNCHANGED <<committed, inTxn>>
-----------------------------------------------------------------------------
(***************************************************************************)
(* delete()                                                                *)
(***************************************************************************)

DeleteCall(t) ==
  /\ thread[t].pc = "idle"
  /\ \E e \in Exts : Call(t, "delete", e, NoBody, "begin")
  /\ UNCHANGED <<committed, view, inTxn, lock>>

DeleteBeginHard(t) ==   \* mutant
  LET e == thread[t].ext IN
  /\ thread[t].pc = "begin"
  /\ thread[t].op = "delete"
  /\ lock = NoOne
  /\ IF Stored(view, e)
     THEN lock' = t /\ Goto(t, "cascade")
     ELSE lock' = lock /\ thread' = [thread EXCEPT ![t] = Idle("none")]
  /\ UNCHANGED <<committed, view, inTxn>>

DeleteBegin(t) ==
  LET e == thread[t].ext IN
  /\ thread[t].pc = "begin"
  /\ thread[t].op = "delete"
  /\ lock = NoOne
  /\ IF Stored(view, e)
     THEN lock' = t /\ Goto(t, "bury")
     ELSE lock' = lock /\ thread' = [thread EXCEPT ![t] = Idle("none")]
  /\ UNCHANGED <<committed, view, inTxn>>

Bury(t) ==
  LET e == thread[t].ext IN
  /\ thread[t].pc = "bury"
  /\ Stored(view, e)
  /\ Statement(t, [view EXCEPT !.tombs = @ \cup {<<e, view.docs[e].body>>}], "cascade")

\* The row is gone meanwhile: there is nothing to keep.
NothingToBury(t) ==
  /\ thread[t].pc = "bury"
  /\ ~Stored(view, thread[t].ext)
  /\ Goto(t, "cascade")
  /\ UNCHANGED <<committed, view, inTxn, lock>>

Cascade(t) ==
  /\ thread[t].pc = "cascade"
  /\ Statement(t, [view EXCEPT !.docs[thread[t].ext] = NoDoc], "commit")
-----------------------------------------------------------------------------
\* The last commit of a delete, or of a put that changed nothing: commit() ends
\* whatever transaction the connection has, the lock is released, and the write
\* answers.
Commit(t) ==
  /\ thread[t].pc = "commit"
  /\ committed' = view
  /\ inTxn' = FALSE
  /\ lock' = NoOne
  /\ thread' = [thread EXCEPT ![t] = Idle("ok")]
  /\ UNCHANGED view

\* The write raises under the lock - a refused topic, the embedder, a bad link,
\* SQLITE_BUSY, an ext_id inserted meanwhile - and `with' releases it on the way.
Raise(t) ==
  /\ MayRaise \/ (thread[t].pc = "insert" /\ Stored(view, thread[t].ext))
  /\ thread[t].pc \notin {"idle", "begin", "mark", "marked", "raised"}
  /\ lock' = NoOne
  /\ Goto(t, "raised")
  /\ UNCHANGED <<committed, view, inTxn>>

\* set_lifecycle() with an unknown state raises before it takes the lock.
BadArgument(t) ==
  /\ MayRaise
  /\ thread[t].pc = "idle"
  /\ Goto(t, "raised")
  /\ UNCHANGED <<committed, view, inTxn, lock>>

\* _retry_on_locked: the rollback, then the exception, or for SQLITE_BUSY the
\* write once more.
Failed(t) ==
  \/ thread' = [thread EXCEPT ![t] = Idle("error")]
  \/ /\ thread[t].op # "none"
     /\ thread[t].attempt < MaxAttempts
     /\ thread' = [thread EXCEPT ![t].pc = "begin", ![t].attempt = @ + 1]

Rollback(t) ==
  /\ thread[t].pc = "raised"
  /\ Failed(t)
  /\ view' = committed
  /\ inTxn' = FALSE
  /\ UNCHANGED <<committed, lock>>

\* A whole put by another process.  It needs SQLite's write lock, which the
\* shared connection has while it is in a transaction that wrote.
ForeignPut ==
  /\ OtherProcess
  /\ ~inTxn
  /\ \E e \in Exts, b \in Bodies :
       committed' = [committed EXCEPT !.docs[e] =
         [body |-> b, index |-> b,
          versions |-> committed.docs[e].versions
                         \cup ({committed.docs[e].body} \ {NoBody, b})]]
  /\ view' = committed'
  /\ UNCHANGED <<inTxn, lock, thread>>

Crash ==
  /\ view' = committed
  /\ inTxn' = FALSE
  /\ lock' = NoOne
  /\ thread' = [t \in Threads |-> Idle("none")]
  /\ UNCHANGED committed

Put(t) == PutCall(t) \/ PutBegin(t) \/ SnapshotRead(t) \/ SnapshotWrite(t)
            \/ UpdateRow(t) \/ InsertRow(t) \/ IndexRow(t) \/ PutCommit(t)
            \/ MarkDuplicate(t) \/ Unmarked(t) \/ MarkCommit(t)

Delete(t) == DeleteCall(t) \/ DeleteBegin(t) \/ Bury(t)
               \/ NothingToBury(t) \/ Cascade(t)

Ending(t) == Commit(t) \/ Raise(t) \/ BadArgument(t) \/ Rollback(t)

\* A rollback is due, and it will not find the transaction of its own call.
Crossing == lock # NoOne /\ \E t \in Threads : thread[t].pc = "raised"

\* A write that has the lock and is not committed.
Writing(t) == thread[t].pc \notin {"idle", "begin", "mark", "marked", "raised"}

Next ==
  \/ /\ \E t \in Threads : Put(t) \/ Delete(t) \/ Ending(t)
     /\ stranded' = (stranded /\ inTxn')
     /\ crossed' = (crossed \/ Crossing')
     /\ UNCHANGED interposed
  \/ /\ \E t \in Threads : MarkSwallowed(t)
     /\ stranded' = inTxn
     /\ crossed' = (crossed \/ Crossing')
     /\ UNCHANGED interposed
  \/ /\ ForeignPut
     /\ interposed' = (interposed \/ \E t \in Threads : Writing(t))
     /\ UNCHANGED <<stranded, crossed>>
  \/ Crash /\ stranded' = FALSE /\ UNCHANGED <<crossed, interposed>>

Spec == Init /\ [][Next]_vars
-----------------------------------------------------------------------------
TypeOK ==
  /\ committed \in Database
  /\ view \in Database
  /\ inTxn \in BOOLEAN
  /\ lock \in Threads \cup {NoOne}
  /\ thread \in [Threads ->
       [pc : {"idle", "begin", "insert", "read", "keep", "update", "touch", "index",
              "store", "mark", "marked", "bury", "cascade", "commit", "raised"},
        op : {"none", "put", "delete"}, ext : Exts \cup {NoExt},
        body : Bodies \cup {NoBody}, seen : Bodies \cup {NoBody},
        attempt : 0..MaxAttempts, reply : {"none", "ok", "error"}]]
  /\ stranded \in BOOLEAN
  /\ crossed \in BOOLEAN
  /\ interposed \in BOOLEAN

(***************************************************************************)
(* No transaction outlives the call that opened it: one is open only while *)
(* some thread is inside a write ("the connection's implicit transaction   *)
(* never survives past the call that opened it", store.py:89-91).          *)
(***************************************************************************)
NoStrandedTxn == inTxn => \E t \in Threads : thread[t].pc # "idle"

(***************************************************************************)
(* The one that does is the mark of a duplicate whose check raised, and it *)
(* holds nothing of a write: whenever no write is under way, what the      *)
(* shared connection sees is on disk.                                      *)
(***************************************************************************)
StrandedHoldsAMark ==
  /\ stranded \/ NoStrandedTxn
  /\ (\A t \in Threads : thread[t].pc = "idle") => view = committed

\* On disk, what a doc is indexed as is what it says.
Whole == \A e \in Exts : committed.docs[e].index = committed.docs[e].body

(***************************************************************************)
(* A write is whole or not there ("the whole write rolls back, never       *)
(* half-applied", store.py:234-235): whatever raises and is tried again,   *)
(* until a lock is taken with a rollback due or another process writes in  *)
(* the middle of a call.                                                   *)
(***************************************************************************)
NeverHalfApplied == Whole

NeverHalfAppliedUncrossed == crossed \/ interposed \/ Whole

(***************************************************************************)
(* A body that is overwritten or deleted stays recoverable ("so a bad save *)
(* is always recoverable", store.py:284-285; delete(), 736-737).           *)
(***************************************************************************)
NonClobber ==
  [][\A e \in Exts :
       LET old == committed.docs[e].body
           new == committed'.docs[e]
       IN old # new.body /\ old # NoBody
            => old \in new.versions \/ <<e, old>> \in committed'.tombs]_vars

\* Thread t commits the put it is in.
CommitsPut(t) ==
  /\ thread[t].op = "put"
  /\ \/ thread[t].pc = "commit" /\ thread'[t].reply = "ok"
     \/ thread[t].pc = "store" /\ thread'[t].pc = "mark"

\* Its doc is then on disk and indexed.
StoredAsAnswered(t) ==
  CommitsPut(t) =>
    LET doc == committed'.docs[thread[t].ext]
    IN doc.body = thread[t].body /\ doc.index = thread[t].body

(***************************************************************************)
(* A put that answers is on disk, indexed, as it commits: no other call's  *)
(* rollback took its statements away (store.py:88-95).  It is so until a   *)
(* lock is taken with a rollback due or another process writes in the      *)
(* middle of a call.                                                       *)
(***************************************************************************)
AcknowledgedIsStored == [][\A t \in Threads : StoredAsAnswered(t)]_vars

AcknowledgedIsStoredUncrossed ==
  [][crossed' \/ interposed' \/ \A t \in Threads : StoredAsAnswered(t)]_vars

(***************************************************************************)
(* The database implements the promise of OwnedDocs, step by step, until a *)
(* lock is taken with a rollback due or another process writes in the      *)
(* middle of a call.                                                       *)
(***************************************************************************)
Promise == INSTANCE OwnedDocs
             WITH body <- [e \in Exts |-> committed.docs[e].body],
                  versions <- [e \in Exts |-> committed.docs[e].versions],
                  tombs <- committed.tombs

PromiseKept ==
  /\ Promise!Init
  /\ [][crossed' \/ interposed' \/ [Promise!Next]_(Promise!vars)]_vars

(***************************************************************************)
(* The three promises about one write, whatever raises and is tried again: *)
(* no transaction is stranded but a mark, with nothing of a write in it;   *)
(* nothing half-applied is on disk and nothing answered is missing there,  *)
(* until a lock is taken with a rollback due or another process writes in  *)
(* the middle of a call.                                                   *)
(***************************************************************************)
WritesAreWhole ==
  /\ [](TypeOK /\ StrandedHoldsAMark /\ NeverHalfAppliedUncrossed)
  /\ AcknowledgedIsStoredUncrossed
=============================================================================
