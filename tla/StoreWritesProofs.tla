-------------------------- MODULE StoreWritesProofs --------------------------
(***************************************************************************)
(* Proofs about the store file: writing it (StoreWrites), for any number   *)
(* of threads, docs and bodies, any bound on the attempts, with or without *)
(* calls that raise and with or without another process that writes; and   *)
(* opening it (Migrations), for any processes, docs and configurations,    *)
(* whatever store is found, any number of starts and kills.                *)
(***************************************************************************)
EXTENDS StoreWrites, Migrations,
        FiniteSetTheorems, SequenceTheorems, WellFoundedInduction, TLAPS

-----------------------------------------------------------------------------
(***************************************************************************)
(* Threads.                                                                *)
(***************************************************************************)
WritingPcs == {"insert", "read", "keep", "update", "touch", "index", "store", "bury",
               "cascade", "commit"}
WorkingPcs == WritingPcs \cup {"mark", "marked"}
Pcs == WorkingPcs \cup {"idle", "begin", "raised"}

ThreadState ==
  [pc : Pcs, op : {"none", "put", "delete"}, ext : Exts \cup {NoExt},
   body : Bodies \cup {NoBody}, seen : Bodies \cup {NoBody},
   attempt : 0..MaxAttempts, reply : {"none", "ok", "error"}]

Types ==
  /\ committed \in Database /\ view \in Database
  /\ inTxn \in BOOLEAN /\ stranded \in BOOLEAN
  /\ crossed \in BOOLEAN /\ interposed \in BOOLEAN
  /\ lock \in Threads \cup {NoOne}
  /\ thread \in [Threads -> ThreadState]

-----------------------------------------------------------------------------
(***************************************************************************)
(* The inductive invariant.                                                *)
(***************************************************************************)
Working(t) == thread[t].pc \notin {"idle", "begin", "raised"}
Raised(t) == thread[t].pc = "raised"

\* A thread between its first statement and its commit is the one in _lock.
LockInv == \A t \in Threads : lock = t <=> Working(t)

\* Where only a put is.
PutPcs == {"read", "keep", "update", "touch", "insert", "index", "store"}

\* What a call under way was called with.
CallOk(t) ==
  /\ thread[t].pc = "idle" => thread[t].op = "none"
  /\ thread[t].pc = "keep" => thread[t].seen \in Bodies
  /\ thread[t].pc \notin {"idle", "raised"} =>
       /\ thread[t].op \in {"put", "delete"}
       /\ thread[t].ext \in Exts
       /\ thread[t].op = "put" => thread[t].body \in Bodies
       /\ thread[t].reply = "none"
  /\ thread[t].pc \in PutPcs => thread[t].op = "put"
  /\ thread[t].pc \in {"bury", "cascade"} => thread[t].op = "delete"
  /\ Raised(t) /\ thread[t].op # "none" =>
       /\ thread[t].ext \in Exts
       /\ thread[t].op = "put" => thread[t].body \in Bodies
       /\ thread[t].reply = "none"

CallInv == \A t \in Threads : CallOk(t)

\* The connection's transaction is somebody's or a stranded mark; what it sees
\* is not what is on disk only in a write, or with a rollback due.
TxnInv ==
  /\ inTxn => stranded \/ \E t \in Threads : Working(t) \/ Raised(t)
  /\ ~inTxn => view = committed
  /\ view = committed \/ \E t \in Threads : Writing(t) \/ Raised(t)
  /\ \A t \in Threads : thread[t].pc = "mark" => ~inTxn

CrossedInv == ~crossed => ~Crossing

\* Nothing of a doc outlives it, and it is indexed as it is.
WholeRows ==
  \A e \in Exts :
    /\ committed.docs[e].index = committed.docs[e].body
    /\ committed.docs[e].body = NoBody => committed.docs[e].versions = {}

\* The connection sees what is on disk but for the doc e, of which it sees this,
\* and the tombstones.
Sees(e, b, i, vs, tombs) ==
  /\ view.docs[e].body = b
  /\ view.docs[e].index = i
  /\ view.docs[e].versions = vs
  /\ \A f \in Exts \ {e} : view.docs[f] = committed.docs[f]
  /\ view.tombs = tombs

\* The bodies a put of b over the body old adds to the versions.
Snapped(old, b) == {old} \ {NoBody, b}

\* How far each write has come in the connection's view.
Progress(t) ==
  LET e == thread[t].ext
      b == thread[t].body
      was == committed.docs[e]
      ts == committed.tombs
      Same == Sees(e, was.body, was.index, was.versions, ts)
  IN /\ thread[t].pc = "insert" => Same /\ was.body = NoBody
     /\ thread[t].pc = "touch" => Same /\ was.body = b
     /\ thread[t].pc = "read" => Same /\ was.body \notin {NoBody, b}
     /\ thread[t].pc = "keep" =>
          Same /\ was.body \notin {NoBody, b} /\ thread[t].seen = was.body
     /\ thread[t].pc = "update" =>
          /\ Sees(e, was.body, was.index, was.versions \cup {was.body}, ts)
          /\ was.body \notin {NoBody, b}
     /\ thread[t].pc = "index" =>
          Sees(e, b, was.index, was.versions \cup Snapped(was.body, b), ts)
     /\ thread[t].pc = "bury" => Same /\ was.body # NoBody
     /\ thread[t].pc = "cascade" =>
          /\ Sees(e, was.body, was.index, was.versions, ts \cup {<<e, was.body>>})
          /\ was.body # NoBody
     /\ thread[t].pc \in {"store", "commit"} /\ thread[t].op = "put" =>
          Sees(e, b, b, was.versions \cup Snapped(was.body, b), ts)
     /\ thread[t].pc = "commit" /\ thread[t].op = "delete" =>
          /\ Sees(e, NoBody, NoBody, {}, ts \cup {<<e, was.body>>})
          /\ was.body # NoBody

\* Until writes cross: what is on disk is whole, and the write under way has
\* done there exactly its own statements so far.
WritesInv ==
  crossed \/ interposed \/ (WholeRows /\ \A t \in Threads : Working(t) => Progress(t))

IndInv ==
  /\ Types
  /\ LockInv /\ CallInv /\ TxnInv /\ CrossedInv
  /\ WritesInv
-----------------------------------------------------------------------------
(***************************************************************************)
(* Facts about threads.                                                    *)
(***************************************************************************)
LEMMA PcsAre ==
  Pcs = {"idle", "begin", "insert", "read", "keep", "update", "touch", "index",
         "store", "mark", "marked", "bury", "cascade", "commit", "raised"}
BY DEF Pcs, WorkingPcs, WritingPcs

LEMMA Typed == TypeOK <=> Types
BY PcsAre DEF TypeOK, Types, ThreadState

LEMMA IdleFields ==
  ASSUME NEW r \in {"none", "ok", "error"}
  PROVE  /\ Idle(r) \in ThreadState
         /\ Idle(r).pc = "idle" /\ Idle(r).op = "none" /\ Idle(r).reply = r
BY ConstantsAssumption DEF Idle, ThreadState, Pcs

LEMMA GotoFields ==
  ASSUME thread \in [Threads -> ThreadState], NEW t \in Threads, NEW next \in Pcs, Goto(t, next)
  PROVE  /\ thread' \in [Threads -> ThreadState]
         /\ \A u \in Threads \ {t} : thread'[u] = thread[u]
         /\ thread'[t].pc = next
         /\ thread'[t].op = thread[t].op /\ thread'[t].ext = thread[t].ext
         /\ thread'[t].body = thread[t].body /\ thread'[t].seen = thread[t].seen
         /\ thread'[t].reply = thread[t].reply
<1>1. thread' = [thread EXCEPT ![t] = [thread[t] EXCEPT !.pc = next]]
  BY DEF Goto
<1>2. [thread[t] EXCEPT !.pc = next] \in ThreadState
  BY DEF ThreadState
<1> QED BY <1>1, <1>2 DEF ThreadState

\* The one thread at work is the one in the lock.
LEMMA Alone ==
  ASSUME LockInv, NEW t \in Threads, NEW u \in Threads, Working(t), Working(u)
  PROVE  t = u
BY DEF LockInv

LEMMA WritersWork ==
  ASSUME NEW t \in Threads
  PROVE  /\ Writing(t) => Working(t)
         /\ Working(t) => Writing(t) \/ thread[t].pc \in {"mark", "marked"}
BY DEF Writing, Working

\* Until writes cross, a put that marks a duplicate sees what is on disk.
LEMMA MarkSeesDisk ==
  ASSUME IndInv, NEW t \in Threads, Working(t), ~Writing(t), ~crossed
  PROVE  view = committed
<1>1. lock # NoOne
  BY ConstantsAssumption DEF IndInv, LockInv
<1>2. \A u \in Threads : ~Raised(u)
  BY <1>1 DEF IndInv, CrossedInv, Crossing, Raised
<1>3. \A u \in Threads : ~Writing(u)
  BY WritersWork, Alone DEF IndInv
<1> QED BY <1>2, <1>3 DEF IndInv, TxnInv

LEMMA SetFree ==
  ASSUME LockInv, lock = NoOne, NEW t \in Threads
  PROVE  ~Working(t)
BY ConstantsAssumption DEF LockInv

-----------------------------------------------------------------------------
(***************************************************************************)
(* Steps of a call in the lock: only its thread and the connection's view  *)
(* change.                                                                 *)
(***************************************************************************)
KeepsCrossed == crossed' = (crossed \/ Crossing') /\ UNCHANGED interposed
KeepsHistory == KeepsCrossed /\ stranded' = (stranded /\ inTxn')

LEMMA CrossedKept ==
  ASSUME CrossedInv, KeepsCrossed, crossed \in BOOLEAN, interposed \in BOOLEAN
  PROVE  /\ crossed' \in BOOLEAN /\ interposed' \in BOOLEAN
         /\ CrossedInv' /\ (~crossed' => ~crossed)
BY DEF CrossedInv, KeepsCrossed, Crossing

\* t goes on, in the lock.
StaysIn(t) ==
  /\ UNCHANGED <<committed, lock>> /\ KeepsHistory
  /\ view' \in Database /\ thread' \in [Threads -> ThreadState]
  /\ \/ inTxn' = TRUE
     \/ UNCHANGED <<view, inTxn>>
  /\ \A u \in Threads \ {t} : thread'[u] = thread[u]
  /\ thread'[t].pc \in WritingPcs \cup {"marked"}
  /\ thread'[t].op = thread[t].op /\ thread'[t].ext = thread[t].ext
  /\ thread'[t].body = thread[t].body /\ thread'[t].reply = thread[t].reply

LEMMA InsideStep ==
  ASSUME IndInv, NEW t \in Threads, Working(t), StaysIn(t),
         thread'[t].pc = "keep" => thread'[t].seen \in Bodies,
         thread'[t].pc \in PutPcs => thread[t].op = "put",
         thread'[t].pc \in {"bury", "cascade"} => thread[t].op = "delete",
         thread'[t].pc \in WritingPcs \/ (~Writing(t) /\ UNCHANGED view /\ inTxn'),
         ~crossed /\ ~interposed /\ WholeRows /\ Progress(t) => Progress(t)'
  PROVE  IndInv'
<1>1. Types' /\ CrossedInv' /\ (~crossed' => ~crossed) /\ interposed' = interposed
  BY CrossedKept DEF IndInv, StaysIn, Types, KeepsHistory, KeepsCrossed
<1>2. Working(t)' /\ \A u \in Threads \ {t} : Working(u)' <=> Working(u)
  BY DEF StaysIn, Working, WorkingPcs, WritingPcs
<1>3. LockInv'
  BY <1>2 DEF IndInv, LockInv, StaysIn
<1>4. CallInv'
  <2>1. thread[t].op \in {"put", "delete"} /\ thread[t].ext \in Exts
        /\ (thread[t].op = "put" => thread[t].body \in Bodies) /\ thread[t].reply = "none"
    <3>1. CallOk(t)
      BY DEF IndInv, CallInv
    <3>2. thread[t].pc \notin {"idle", "raised"}
      BY DEF Working, WorkingPcs, WritingPcs
    <3> QED BY <3>1, <3>2 DEF CallOk
  <2>2. \A u \in Threads \ {t} : thread'[u] = thread[u]
    BY DEF StaysIn
  <2>3. ASSUME NEW u \in Threads, u # t
        PROVE  CallOk(u) => CallOk(u)'
    BY <2>2, <2>3 DEF CallOk, Raised
  <2>4. CallOk(t)'
    BY <2>1 DEF CallOk, StaysIn, WorkingPcs, WritingPcs, Raised
  <2> QED BY <2>3, <2>4 DEF IndInv, CallInv
<1>5. TxnInv'
  <2>1. inTxn' => stranded' \/ \E u \in Threads : (Working(u) \/ Raised(u))'
    BY <1>2
  <2>2. ~inTxn' => view' = committed'
    BY DEF IndInv, TxnInv, StaysIn
  <2>3. CASE thread'[t].pc \in WritingPcs
    <3>1. Writing(t)' /\ thread'[t].pc # "mark"
      BY <2>3 DEF Writing, WritingPcs
    <3>2. \A u \in Threads \ {t} : thread'[u].pc # "mark"
      BY Alone DEF IndInv, StaysIn, Working
    <3> QED BY <2>1, <2>2, <3>1, <3>2 DEF TxnInv
  <2>4. CASE thread'[t].pc \notin WritingPcs
    <3>1. ~Writing(t) /\ view' = view /\ committed' = committed /\ inTxn' /\ thread'[t].pc = "marked"
      BY <2>4 DEF StaysIn
    <3>2. \A u \in Threads \ {t} : ~Working(u) /\ ~Writing(u) /\ thread'[u] = thread[u]
      BY Alone, WritersWork DEF IndInv, StaysIn
    <3>3. view' = committed' \/ \E u \in Threads : Raised(u)'
      BY <3>1, <3>2 DEF IndInv, TxnInv, Raised, Working
    <3>4. \A u \in Threads : thread'[u].pc # "mark"
      BY <3>1, <3>2 DEF Working
    <3> QED BY <2>1, <2>2, <3>3, <3>4 DEF TxnInv
  <2> QED BY <2>3, <2>4
<1>6. WritesInv'
  <2> SUFFICES ASSUME ~crossed', ~interposed'
               PROVE  WholeRows' /\ \A u \in Threads : Working(u)' => Progress(u)'
    BY DEF WritesInv
  <2>1. ~crossed /\ ~interposed /\ WholeRows /\ Progress(t)
    BY <1>1 DEF IndInv, WritesInv
  <2>2. WholeRows'
    BY <2>1 DEF WholeRows, StaysIn
  <2>3. Progress(t)'
    BY <2>1
  <2>4. \A u \in Threads : Working(u)' => u = t
    BY <1>2, Alone DEF IndInv
  <2> QED BY <2>2, <2>3, <2>4
<1> QED BY <1>1, <1>3, <1>4, <1>5, <1>6 DEF IndInv

\* A database with another row of e.
LEMMA WithRow ==
  ASSUME NEW data \in Database, NEW e \in Exts, NEW row \in Doc
  PROVE  LET new == [data EXCEPT !.docs[e] = row]
         IN /\ new \in Database
            /\ new.docs[e] = row /\ new.tombs = data.tombs
            /\ \A f \in Exts \ {e} : new.docs[f] = data.docs[f]
BY DEF Database

LEMMA RowFields ==
  ASSUME NEW data \in Database, NEW e \in Exts
  PROVE  /\ data.docs[e] \in Doc
         /\ data.docs[e].body \in Bodies \cup {NoBody}
         /\ data.docs[e].index \in Bodies \cup {NoBody}
         /\ data.docs[e].versions \in SUBSET Bodies
BY DEF Database, Doc

\* A statement that changes the row of e, if it is there.
LEMMA OnRowStep ==
  ASSUME IndInv, NEW t \in Threads, NEW e \in Exts, NEW row \in Doc, NEW next \in WritingPcs,
         Statement(t, OnRow(e, row), next), KeepsHistory
  PROVE  /\ StaysIn(t) /\ thread'[t].pc = next /\ thread'[t].seen = thread[t].seen
         /\ \A f \in Exts \ {e} : view'.docs[f] = view.docs[f]
         /\ view'.tombs = view.tombs
         /\ Stored(view, e) => view'.docs[e] = row
<1>1. view' = OnRow(e, row) /\ inTxn' = TRUE /\ Goto(t, next) /\ UNCHANGED <<committed, lock>>
  BY DEF Statement
<1>2. view' \in Database /\ view'.tombs = view.tombs
      /\ (\A f \in Exts \ {e} : view'.docs[f] = view.docs[f])
      /\ (Stored(view, e) => view'.docs[e] = row)
  BY <1>1, WithRow DEF OnRow, IndInv, Types
<1>3. next \in Pcs
  BY DEF Pcs, WorkingPcs, WritingPcs
<1> QED BY <1>1, <1>2, <1>3, GotoFields DEF StaysIn, IndInv, Types

\* What a thread in the lock was called with.
LEMMA CallFields ==
  ASSUME IndInv, NEW t \in Threads, Working(t)
  PROVE  /\ thread[t].ext \in Exts /\ thread[t].op \in {"put", "delete"}
         /\ thread[t].op = "put" => thread[t].body \in Bodies
         /\ thread[t].pc \in PutPcs => thread[t].op = "put"
         /\ thread[t].pc \in {"bury", "cascade"} => thread[t].op = "delete"
         /\ thread[t].pc = "keep" => thread[t].seen \in Bodies
BY DEF IndInv, CallInv, CallOk, PutPcs, Working

LEMMA SnapshotReadStep ==
  ASSUME IndInv, NEW t \in Threads, SnapshotRead(t), KeepsHistory
  PROVE  IndInv'
<1> DEFINE e == thread[t].ext
<1>1. Working(t) /\ thread[t].pc = "read" /\ e \in Exts /\ thread[t].op = "put"
  BY CallFields DEF SnapshotRead, Working, PutPcs
<1>2. view.docs[e].body \in Bodies \cup {NoBody}
  BY <1>1, RowFields DEF IndInv, Types
<1>3. /\ StaysIn(t)
      /\ thread'[t].pc = IF Stored(view, e) THEN "keep" ELSE "update"
      /\ Stored(view, e) => thread'[t].seen = view.docs[e].body
  <2>1. CASE Stored(view, e)
    <3>1. thread' = [thread EXCEPT ![t] =
                      [thread[t] EXCEPT !.pc = "keep", !.seen = view.docs[e].body]]
      BY <2>1 DEF SnapshotRead
    <3>2. [thread[t] EXCEPT !.pc = "keep", !.seen = view.docs[e].body] \in ThreadState
      BY <1>2 DEF IndInv, Types, ThreadState, Pcs, WorkingPcs, WritingPcs
    <3> QED BY <2>1, <3>1, <3>2
            DEF SnapshotRead, StaysIn, IndInv, Types, ThreadState, WorkingPcs, WritingPcs
  <2>2. CASE ~Stored(view, e)
    <3>1. Goto(t, "update") /\ "update" \in Pcs
      BY <2>2 DEF SnapshotRead, Pcs, WorkingPcs, WritingPcs
    <3> QED BY <2>2, <3>1, GotoFields DEF SnapshotRead, StaysIn, IndInv, Types, WorkingPcs, WritingPcs
  <2> QED BY <2>1, <2>2
<1>4. ~crossed /\ ~interposed /\ WholeRows /\ Progress(t) => Progress(t)'
  <2> SUFFICES ASSUME Progress(t) PROVE Progress(t)' OBVIOUS
  <2>1. Sees(e, committed.docs[e].body, committed.docs[e].index,
             committed.docs[e].versions, committed.tombs)
        /\ committed.docs[e].body \notin {NoBody, thread[t].body}
    BY <1>1 DEF Progress
  <2>2. Stored(view, e) /\ view' = view /\ committed' = committed
    BY <2>1 DEF Sees, Stored, SnapshotRead
  <2>3. thread'[t].pc = "keep" /\ thread'[t].ext = e /\ thread'[t].body = thread[t].body
        /\ thread'[t].seen = committed.docs[e].body
    BY <1>3, <2>1, <2>2 DEF StaysIn, Sees
  <2> QED BY <2>1, <2>2, <2>3 DEF Progress, Sees
<1> QED BY <1>1, <1>2, <1>3, <1>4, InsideStep DEF Stored, WritingPcs, PutPcs

LEMMA SnapshotWriteStep ==
  ASSUME IndInv, NEW t \in Threads, SnapshotWrite(t), KeepsHistory
  PROVE  IndInv'
<1> DEFINE e == thread[t].ext
           row == [view.docs[e] EXCEPT !.versions = @ \cup {thread[t].seen}]
<1>1. Working(t) /\ thread[t].pc = "keep" /\ e \in Exts /\ thread[t].op = "put"
      /\ thread[t].seen \in Bodies
  BY CallFields DEF SnapshotWrite, Working, PutPcs
<1>2. /\ row \in Doc
      /\ row.body = view.docs[e].body /\ row.index = view.docs[e].index
      /\ row.versions = view.docs[e].versions \cup {thread[t].seen}
  BY <1>1, RowFields DEF IndInv, Types, Doc
<1>3. /\ StaysIn(t) /\ thread'[t].pc = "update"
      /\ \A f \in Exts \ {e} : view'.docs[f] = view.docs[f]
      /\ view'.tombs = view.tombs
      /\ Stored(view, e) => view'.docs[e] = row
  <2> HIDE DEF row
  <2>1. Statement(t, OnRow(e, row), "update") /\ "update" \in WritingPcs
    BY DEF SnapshotWrite, row, WorkingPcs, WritingPcs
  <2> QED BY <1>1, <1>2, <2>1, OnRowStep
<1> HIDE DEF row
<1>4. ~crossed /\ ~interposed /\ WholeRows /\ Progress(t) => Progress(t)'
  <2> SUFFICES ASSUME Progress(t) PROVE Progress(t)' OBVIOUS
  <2>1. Sees(e, committed.docs[e].body, committed.docs[e].index,
             committed.docs[e].versions, committed.tombs)
        /\ committed.docs[e].body \notin {NoBody, thread[t].body}
        /\ thread[t].seen = committed.docs[e].body
    BY <1>1 DEF Progress
  <2>2. Stored(view, e) /\ committed' = committed
    BY <1>3, <2>1 DEF Sees, Stored, StaysIn
  <2>3. thread'[t].ext = e /\ thread'[t].body = thread[t].body
    BY <1>3 DEF StaysIn
  <2> QED BY <1>2, <1>3, <2>1, <2>2, <2>3 DEF Progress, Sees
<1> QED BY <1>1, <1>3, <1>4, InsideStep DEF WritingPcs, PutPcs

LEMMA UpdateRowStep ==
  ASSUME IndInv, NEW t \in Threads, UpdateRow(t), KeepsHistory
  PROVE  IndInv'
<1> DEFINE e == thread[t].ext
           b == thread[t].body
           row == [view.docs[e] EXCEPT !.body = b]
           next == IF thread[t].pc = "update" THEN "index" ELSE "commit"
<1>1. Working(t) /\ thread[t].pc \in {"update", "touch"} /\ e \in Exts
      /\ thread[t].op = "put" /\ b \in Bodies
  BY CallFields DEF UpdateRow, Working, PutPcs
<1>2. /\ row \in Doc /\ row.body = b /\ row.index = view.docs[e].index
      /\ row.versions = view.docs[e].versions
  BY <1>1, RowFields DEF IndInv, Types, Doc
<1>3. /\ StaysIn(t) /\ thread'[t].pc = next
      /\ \A f \in Exts \ {e} : view'.docs[f] = view.docs[f]
      /\ view'.tombs = view.tombs
      /\ Stored(view, e) => view'.docs[e] = row
  <2> HIDE DEF row
  <2>1. Statement(t, OnRow(e, row), next) /\ next \in WritingPcs
    BY DEF UpdateRow, row, WorkingPcs, WritingPcs
  <2> QED BY <1>1, <1>2, <2>1, OnRowStep
<1> HIDE DEF row
<1>4. ~crossed /\ ~interposed /\ WholeRows /\ Progress(t) => Progress(t)'
  <2> SUFFICES ASSUME WholeRows, Progress(t) PROVE Progress(t)' OBVIOUS
  <2>1. committed' = committed /\ thread'[t].ext = e /\ thread'[t].body = b
        /\ thread'[t].op = "put"
    BY <1>1, <1>3 DEF StaysIn
  <2>2. CASE thread[t].pc = "update"
    <3>1. Sees(e, committed.docs[e].body, committed.docs[e].index,
               committed.docs[e].versions \cup {committed.docs[e].body}, committed.tombs)
          /\ committed.docs[e].body \notin {NoBody, b}
      BY <2>2 DEF Progress
    <3>2. Stored(view, e) /\ thread'[t].pc = "index"
      BY <1>3, <2>2, <3>1 DEF Sees, Stored
    <3>3. Snapped(committed.docs[e].body, b) = {committed.docs[e].body}
      BY <3>1 DEF Snapped
    <3> QED BY <1>2, <1>3, <2>1, <3>1, <3>2, <3>3 DEF Progress, Sees
  <2>3. CASE thread[t].pc = "touch"
    <3>1. Sees(e, committed.docs[e].body, committed.docs[e].index,
               committed.docs[e].versions, committed.tombs)
          /\ committed.docs[e].body = b /\ committed.docs[e].index = b
      BY <1>1, <2>3 DEF Progress, WholeRows
    <3>2. Stored(view, e) /\ thread'[t].pc = "commit"
      BY <1>1, <1>3, <2>3, <3>1, ConstantsAssumption DEF Sees, Stored
    <3>3. Snapped(committed.docs[e].body, b) = {}
      BY <3>1 DEF Snapped
    <3> QED BY <1>2, <1>3, <2>1, <3>1, <3>2, <3>3 DEF Progress, Sees
  <2> QED BY <1>1, <2>2, <2>3
<1> QED BY <1>1, <1>3, <1>4, InsideStep DEF WritingPcs, PutPcs

LEMMA InsertRowStep ==
  ASSUME IndInv, NEW t \in Threads, InsertRow(t), KeepsHistory
  PROVE  IndInv'
<1> DEFINE e == thread[t].ext
           b == thread[t].body
           row == [NoDoc EXCEPT !.body = b]
           data == [view EXCEPT !.docs[e] = row]
<1>1. Working(t) /\ thread[t].pc = "insert" /\ e \in Exts
      /\ thread[t].op = "put" /\ b \in Bodies
  BY CallFields DEF InsertRow, Working, PutPcs
<1>2. row \in Doc /\ row.body = b /\ row.index = NoBody /\ row.versions = {}
  BY <1>1 DEF NoDoc, Doc
<1>3. /\ data \in Database /\ data.docs[e] = row /\ data.tombs = view.tombs
      /\ \A f \in Exts \ {e} : data.docs[f] = view.docs[f]
  <2> HIDE DEF row
  <2> QED BY <1>1, <1>2, WithRow DEF IndInv, Types
<1>4. view' = data /\ inTxn' = TRUE /\ Goto(t, "index") /\ UNCHANGED <<committed, lock>>
  BY DEF InsertRow, Statement
<1> HIDE DEF row, data
<1>5. StaysIn(t) /\ thread'[t].pc = "index"
  BY <1>3, <1>4, GotoFields DEF StaysIn, IndInv, Types, WorkingPcs, WritingPcs, Pcs
<1>6. ~crossed /\ ~interposed /\ WholeRows /\ Progress(t) => Progress(t)'
  <2> SUFFICES ASSUME WholeRows, Progress(t) PROVE Progress(t)' OBVIOUS
  <2>1. committed' = committed /\ thread'[t].ext = e /\ thread'[t].body = b
    BY <1>5 DEF StaysIn
  <2>2. Sees(e, committed.docs[e].body, committed.docs[e].index,
             committed.docs[e].versions, committed.tombs)
        /\ committed.docs[e].body = NoBody /\ committed.docs[e].index = NoBody
        /\ committed.docs[e].versions = {}
    BY <1>1 DEF Progress, WholeRows
  <2>3. Snapped(committed.docs[e].body, b) = {}
    BY <2>2 DEF Snapped
  <2> QED BY <1>2, <1>3, <1>4, <1>5, <2>1, <2>2, <2>3 DEF Progress, Sees
<1> QED BY <1>1, <1>5, <1>6, InsideStep DEF WritingPcs, PutPcs

LEMMA IndexRowStep ==
  ASSUME IndInv, NEW t \in Threads, IndexRow(t), KeepsHistory
  PROVE  IndInv'
<1> DEFINE e == thread[t].ext
           b == thread[t].body
           row == [view.docs[e] EXCEPT !.index = b]
<1>1. Working(t) /\ thread[t].pc = "index" /\ e \in Exts
      /\ thread[t].op = "put" /\ b \in Bodies
  BY CallFields DEF IndexRow, Working, PutPcs
<1>2. /\ row \in Doc /\ row.body = view.docs[e].body /\ row.index = b
      /\ row.versions = view.docs[e].versions
  BY <1>1, RowFields DEF IndInv, Types, Doc
<1>3. /\ StaysIn(t) /\ thread'[t].pc = "store"
      /\ \A f \in Exts \ {e} : view'.docs[f] = view.docs[f]
      /\ view'.tombs = view.tombs
      /\ Stored(view, e) => view'.docs[e] = row
  <2> HIDE DEF row
  <2>1. Statement(t, OnRow(e, row), "store") /\ "store" \in WritingPcs
    BY DEF IndexRow, row, WorkingPcs, WritingPcs
  <2> QED BY <1>1, <1>2, <2>1, OnRowStep
<1> HIDE DEF row
<1>4. ~crossed /\ ~interposed /\ WholeRows /\ Progress(t) => Progress(t)'
  <2> SUFFICES ASSUME Progress(t) PROVE Progress(t)' OBVIOUS
  <2>1. committed' = committed /\ thread'[t].ext = e /\ thread'[t].body = b
        /\ thread'[t].op = "put"
    BY <1>1, <1>3 DEF StaysIn
  <2>2. Sees(e, b, committed.docs[e].index,
             committed.docs[e].versions \cup Snapped(committed.docs[e].body, b),
             committed.tombs)
    BY <1>1 DEF Progress
  <2>3. Stored(view, e)
    BY <1>1, <2>2, ConstantsAssumption DEF Sees, Stored
  <2> QED BY <1>2, <1>3, <2>1, <2>2, <2>3 DEF Progress, Sees
<1> QED BY <1>1, <1>3, <1>4, InsideStep DEF WritingPcs, PutPcs

LEMMA BuryStep ==
  ASSUME IndInv, NEW t \in Threads, Bury(t), KeepsHistory
  PROVE  IndInv'
<1> DEFINE e == thread[t].ext
           data == [view EXCEPT !.tombs = @ \cup {<<e, view.docs[e].body>>}]
<1>1. Working(t) /\ thread[t].pc = "bury" /\ e \in Exts /\ thread[t].op = "delete"
  BY CallFields DEF Bury, Working, PutPcs
<1>2. Stored(view, e) /\ view' = data /\ inTxn' = TRUE /\ Goto(t, "cascade")
      /\ UNCHANGED <<committed, lock>>
  BY DEF Bury, Statement
<1>3. data \in Database /\ data.docs = view.docs
      /\ data.tombs = view.tombs \cup {<<e, view.docs[e].body>>}
  <2>1. view.docs[e].body \in Bodies
    BY <1>1, <1>2, RowFields DEF IndInv, Types, Stored
  <2> QED BY <1>1, <2>1 DEF IndInv, Types, Database
<1> HIDE DEF data
<1>4. StaysIn(t) /\ thread'[t].pc = "cascade"
  BY <1>2, <1>3, GotoFields DEF StaysIn, IndInv, Types, WorkingPcs, WritingPcs, Pcs
<1>5. ~crossed /\ ~interposed /\ WholeRows /\ Progress(t) => Progress(t)'
  <2> SUFFICES ASSUME Progress(t) PROVE Progress(t)' OBVIOUS
  <2>1. committed' = committed /\ thread'[t].ext = e
    BY <1>4 DEF StaysIn
  <2>2. Sees(e, committed.docs[e].body, committed.docs[e].index,
             committed.docs[e].versions, committed.tombs)
        /\ committed.docs[e].body # NoBody
    BY <1>1 DEF Progress
  <2> QED BY <1>2, <1>3, <1>4, <2>1, <2>2 DEF Progress, Sees
<1> QED BY <1>1, <1>4, <1>5, InsideStep DEF WritingPcs, PutPcs

LEMMA NothingToBuryStep ==
  ASSUME IndInv, NEW t \in Threads, NothingToBury(t), KeepsHistory
  PROVE  IndInv'
<1>1. Working(t) /\ thread[t].pc = "bury" /\ thread[t].ext \in Exts
      /\ thread[t].op = "delete"
  BY CallFields DEF NothingToBury, Working, PutPcs
<1>2. StaysIn(t) /\ thread'[t].pc = "cascade"
  BY GotoFields DEF NothingToBury, StaysIn, IndInv, Types, WorkingPcs, WritingPcs, Pcs
<1>3. ~Progress(t)
  BY <1>1 DEF NothingToBury, Progress, Sees, Stored
<1> QED BY <1>1, <1>2, <1>3, InsideStep DEF WritingPcs, PutPcs

LEMMA CascadeStep ==
  ASSUME IndInv, NEW t \in Threads, Cascade(t), KeepsHistory
  PROVE  IndInv'
<1> DEFINE e == thread[t].ext
           data == [view EXCEPT !.docs[e] = NoDoc]
<1>1. Working(t) /\ thread[t].pc = "cascade" /\ e \in Exts /\ thread[t].op = "delete"
  BY CallFields DEF Cascade, Working, PutPcs
<1>2. view' = data /\ inTxn' = TRUE /\ Goto(t, "commit") /\ UNCHANGED <<committed, lock>>
  BY DEF Cascade, Statement
<1>3. /\ NoDoc \in Doc
      /\ NoDoc.body = NoBody /\ NoDoc.index = NoBody /\ NoDoc.versions = {}
  BY DEF NoDoc, Doc
<1>4. /\ data \in Database /\ data.docs[e] = NoDoc /\ data.tombs = view.tombs
      /\ \A f \in Exts \ {e} : data.docs[f] = view.docs[f]
  BY <1>1, <1>3, WithRow DEF IndInv, Types
<1> HIDE DEF data
<1>5. StaysIn(t) /\ thread'[t].pc = "commit"
  BY <1>2, <1>4, GotoFields DEF StaysIn, IndInv, Types, WorkingPcs, WritingPcs, Pcs
<1>6. ~crossed /\ ~interposed /\ WholeRows /\ Progress(t) => Progress(t)'
  <2> SUFFICES ASSUME Progress(t) PROVE Progress(t)' OBVIOUS
  <2>1. committed' = committed /\ thread'[t].ext = e /\ thread'[t].op = "delete"
    BY <1>1, <1>5 DEF StaysIn
  <2>2. Sees(e, committed.docs[e].body, committed.docs[e].index, committed.docs[e].versions,
             committed.tombs \cup {<<e, committed.docs[e].body>>})
        /\ committed.docs[e].body # NoBody
    BY <1>1 DEF Progress
  <2> QED BY <1>2, <1>3, <1>4, <1>5, <2>1, <2>2 DEF Progress, Sees
<1> QED BY <1>1, <1>5, <1>6, InsideStep DEF WritingPcs, PutPcs
-----------------------------------------------------------------------------
(***************************************************************************)
(* Steps outside the lock, or into it and out of it.                       *)
(***************************************************************************)

\* What a thread that is not at work does to itself.
CallOf(t) ==
  /\ thread'[t].pc = "idle" => thread'[t].op = "none"
  /\ thread'[t].pc \notin {"idle", "raised"} \/ (Raised(t)' /\ thread'[t].op # "none") =>
       /\ thread'[t].op \in {"put", "delete"}
       /\ thread'[t].ext \in Exts
       /\ thread'[t].op = "put" => thread'[t].body \in Bodies
       /\ thread'[t].reply = "none"

LEMMA OutsideStep ==
  ASSUME IndInv, NEW t \in Threads, ~Working(t),
         thread' \in [Threads -> ThreadState],
         \A u \in Threads \ {t} : thread'[u] = thread[u],
         ~Working(t)', Raised(t) => Raised(t)', CallOf(t),
         UNCHANGED <<committed, view, inTxn, lock>>, KeepsHistory
  PROVE  IndInv'
<1>1. Types' /\ CrossedInv' /\ (~crossed' => ~crossed) /\ interposed' = interposed
  BY CrossedKept DEF IndInv, Types, KeepsHistory, KeepsCrossed
<1>2. \A u \in Threads : Working(u)' <=> Working(u)
  BY DEF Working
<1>3. LockInv'
  BY <1>2 DEF IndInv, LockInv
<1>4. CallInv'
  BY DEF IndInv, CallInv, CallOk, PutPcs, CallOf, Raised, Working
<1>5. TxnInv'
  <2>1. \A u \in Threads :
          /\ (Writing(u) => Writing(u)') /\ (Raised(u) => Raised(u)')
          /\ Working(u) => Working(u)'
          /\ thread'[u].pc = "mark" => thread[u].pc = "mark"
    BY <1>2, WritersWork DEF Writing, Working, Raised
  <2>2. inTxn' => (stranded' <=> stranded)
    BY DEF KeepsHistory, IndInv, Types
  <2>3. TxnInv /\ view' = view /\ committed' = committed /\ inTxn' = inTxn
    BY DEF IndInv
  <2>4. inTxn' => stranded' \/ \E u \in Threads : (Working(u) \/ Raised(u))'
    <3> SUFFICES ASSUME inTxn', ~stranded' PROVE \E u \in Threads : (Working(u) \/ Raised(u))'
      OBVIOUS
    <3>1. PICK u \in Threads : Working(u) \/ Raised(u)
      BY <2>2, <2>3 DEF TxnInv
    <3>2. Working(u)' \/ Raised(u)'
      BY <2>1, <3>1
    <3> QED BY <3>2
  <2>5. view' = committed' \/ \E u \in Threads : (Writing(u) \/ Raised(u))'
    <3> SUFFICES ASSUME view # committed PROVE \E u \in Threads : (Writing(u) \/ Raised(u))'
      BY <2>3
    <3>1. PICK u \in Threads : Writing(u) \/ Raised(u)
      BY <2>3 DEF TxnInv
    <3>2. Writing(u)' \/ Raised(u)'
      BY <2>1, <3>1
    <3> QED BY <3>2
  <2>6. (~inTxn' => view' = committed') /\ \A u \in Threads : thread'[u].pc = "mark" => ~inTxn'
    BY <2>1, <2>3 DEF TxnInv
  <2> QED BY <2>4, <2>5, <2>6 DEF TxnInv
<1>6. WritesInv'
  <2> SUFFICES ASSUME ~crossed', ~interposed', NEW u \in Threads, Working(u)
               PROVE  WholeRows' /\ Progress(u)'
    BY <1>1, <1>2 DEF WritesInv, IndInv, WholeRows
  <2>1. WholeRows /\ Progress(u) /\ thread'[u] = thread[u]
    BY <1>1 DEF IndInv, WritesInv
  <2> QED BY <2>1 DEF WholeRows, Progress, Sees
<1> QED BY <1>1, <1>3, <1>4, <1>5, <1>6 DEF IndInv

LEMMA CallStep ==
  ASSUME IndInv, NEW t \in Threads, NEW op \in {"put", "delete"}, NEW e \in Exts,
         NEW b \in Bodies \cup {NoBody}, op = "put" => b \in Bodies,
         thread[t].pc = "idle", Call(t, op, e, b, "begin"),
         UNCHANGED <<committed, view, inTxn, lock>>, KeepsHistory
  PROVE  IndInv'
<1> DEFINE new == [Idle("none") EXCEPT !.pc = "begin", !.op = op, !.ext = e, !.body = b,
                                       !.attempt = 1]
<1>1. /\ new \in ThreadState /\ new.pc = "begin" /\ new.op = op /\ new.ext = e
      /\ new.body = b /\ new.reply = "none"
  <2>1. Idle("none") \in ThreadState /\ Idle("none").reply = "none"
    BY IdleFields
  <2>2. 1 \in 0..MaxAttempts /\ "begin" \in Pcs
    BY ConstantsAssumption DEF Pcs, WorkingPcs, WritingPcs
  <2> QED BY <2>1, <2>2 DEF ThreadState
<1>2. thread' = [thread EXCEPT ![t] = new]
  BY DEF Call
<1> HIDE DEF new
<1>3. /\ thread' \in [Threads -> ThreadState] /\ thread'[t] = new
      /\ \A u \in Threads \ {t} : thread'[u] = thread[u]
  BY <1>1, <1>2 DEF IndInv, Types
<1>4. ~Working(t) /\ ~Working(t)' /\ ~Raised(t) /\ CallOf(t)
  BY <1>1, <1>3 DEF Working, Raised, CallOf
<1> QED BY <1>3, <1>4, OutsideStep

LEMMA PutCallStep ==
  ASSUME IndInv, NEW t \in Threads, PutCall(t), KeepsHistory
  PROVE  IndInv'
<1>1. PICK e \in Exts, b \in Bodies : Call(t, "put", e, b, "begin")
  BY DEF PutCall
<1>2. thread[t].pc = "idle" /\ UNCHANGED <<committed, view, inTxn, lock>>
  BY DEF PutCall
<1> QED BY <1>1, <1>2, CallStep

LEMMA DeleteCallStep ==
  ASSUME IndInv, NEW t \in Threads, DeleteCall(t), KeepsHistory
  PROVE  IndInv'
<1>1. PICK e \in Exts : Call(t, "delete", e, NoBody, "begin")
  BY DEF DeleteCall
<1>2. thread[t].pc = "idle" /\ UNCHANGED <<committed, view, inTxn, lock>>
  BY DEF DeleteCall
<1> QED BY <1>1, <1>2, CallStep

LEMMA BadArgumentStep ==
  ASSUME IndInv, NEW t \in Threads, BadArgument(t), KeepsHistory
  PROVE  IndInv'
<1>1. thread[t].pc = "idle" /\ Goto(t, "raised") /\ UNCHANGED <<committed, view, inTxn, lock>>
      /\ "raised" \in Pcs
  BY DEF BadArgument, Pcs, WorkingPcs, WritingPcs
<1>2. thread[t].op = "none"
  BY <1>1 DEF IndInv, CallInv, CallOk, PutPcs
<1>3. /\ thread' \in [Threads -> ThreadState]
      /\ \A u \in Threads \ {t} : thread'[u] = thread[u]
      /\ thread'[t].pc = "raised" /\ thread'[t].op = "none"
  BY <1>1, <1>2, GotoFields DEF IndInv, Types
<1>4. ~Working(t) /\ ~Working(t)' /\ Raised(t)' /\ CallOf(t)
  BY <1>1, <1>3 DEF Working, Raised, CallOf
<1> QED BY <1>1, <1>3, <1>4, OutsideStep

\* A delete of a doc that is not there answers at once.
LEMMA NothingThereStep ==
  ASSUME IndInv, NEW t \in Threads, DeleteBegin(t), ~Stored(view, thread[t].ext), KeepsHistory
  PROVE  IndInv'
<1>1. thread[t].pc = "begin" /\ thread' = [thread EXCEPT ![t] = Idle("none")]
      /\ UNCHANGED <<committed, view, inTxn, lock>>
  BY DEF DeleteBegin
<1>2. /\ thread' \in [Threads -> ThreadState] /\ thread'[t] = Idle("none")
      /\ \A u \in Threads \ {t} : thread'[u] = thread[u]
  BY <1>1, IdleFields DEF IndInv, Types
<1>3. ~Working(t) /\ ~Working(t)' /\ ~Raised(t) /\ CallOf(t)
  BY <1>1, <1>2, IdleFields DEF Working, Raised, CallOf
<1> QED BY <1>1, <1>2, <1>3, OutsideStep

\* A call takes the lock: its thread is the only one at work, and unless a
\* rollback is due the connection sees what is on disk.
LEMMA LockStep ==
  ASSUME IndInv, NEW t \in Threads, NEW next \in WritingPcs \ {"keep", "commit"},
         thread[t].pc = "begin", lock = NoOne, lock' = t, Goto(t, next),
         UNCHANGED <<committed, view, inTxn>>, KeepsHistory,
         next \in PutPcs => thread[t].op = "put",
         next \in {"bury", "cascade"} => thread[t].op = "delete",
         view = committed => Progress(t)'
  PROVE  IndInv'
<1>1. /\ thread' \in [Threads -> ThreadState]
      /\ \A u \in Threads \ {t} : thread'[u] = thread[u]
      /\ thread'[t].pc = next /\ thread'[t].op = thread[t].op
      /\ thread'[t].ext = thread[t].ext /\ thread'[t].body = thread[t].body
      /\ thread'[t].reply = thread[t].reply
  BY GotoFields DEF IndInv, Types, Pcs, WorkingPcs, WritingPcs
<1>2. Types' /\ CrossedInv' /\ (~crossed' => ~crossed) /\ interposed' = interposed
  BY <1>1, CrossedKept DEF IndInv, Types, KeepsHistory, KeepsCrossed
<1>3. Working(t)' /\ \A u \in Threads \ {t} : ~Working(u)' /\ ~Working(u)
  BY <1>1, SetFree DEF IndInv, Working, WorkingPcs, WritingPcs
<1>4. LockInv'
  BY <1>3 DEF LockInv
<1>5. CallInv'
  BY <1>1 DEF IndInv, CallInv, CallOk, PutPcs, WorkingPcs, WritingPcs, Raised
<1>6. TxnInv'
  <2>1. Writing(t)' /\ thread'[t].pc # "mark"
    BY <1>1 DEF Writing, WritingPcs
  <2>2. \A u \in Threads : thread'[u].pc # "mark"
    BY <1>3, <2>1 DEF Working
  <2> QED BY <1>3, <2>1, <2>2 DEF IndInv, TxnInv
<1>7. WritesInv'
  <2> SUFFICES ASSUME ~crossed', ~interposed'
               PROVE  WholeRows' /\ \A u \in Threads : Working(u)' => Progress(u)'
    BY DEF WritesInv
  <2>1. \A u \in Threads : ~Raised(u)'
    BY <1>2, ConstantsAssumption DEF CrossedInv, Crossing, Raised
  <2>2. \A u \in Threads : ~Raised(u) /\ ~Working(u)
    BY <1>1, <2>1, <1>3 DEF Raised, Working
  <2>3. view = committed
    BY <2>2, WritersWork DEF IndInv, TxnInv
  <2>4. WholeRows'
    BY <1>2 DEF IndInv, WritesInv, WholeRows
  <2> QED BY <1>3, <2>3, <2>4
<1> QED BY <1>2, <1>4, <1>5, <1>6, <1>7 DEF IndInv

LEMMA PutBeginStep ==
  ASSUME IndInv, NEW t \in Threads, PutBegin(t), KeepsHistory
  PROVE  IndInv'
<1> DEFINE e == thread[t].ext
           b == thread[t].body
           next == FirstStep(e, b)
<1>0. b \in Bodies
  BY DEF PutBegin, IndInv, CallInv, CallOk, PutPcs
<1>1. /\ thread[t].pc = "begin" /\ thread[t].op = "put" /\ lock = NoOne /\ lock' = t
      /\ Goto(t, next) /\ UNCHANGED <<committed, view, inTxn>>
  BY DEF PutBegin
<1>2. /\ ~Stored(view, e) => next = "insert"
      /\ Stored(view, e) /\ view.docs[e].body = b => next = "touch"
      /\ Stored(view, e) /\ view.docs[e].body # b => next = "read"
  BY <1>0, ConstantsAssumption DEF FirstStep, Stored
<1>3. next \in {"insert", "touch", "read"}
  BY <1>2
<1>4. next \in WritingPcs \ {"keep", "commit"} /\ next \notin {"bury", "cascade"}
  BY <1>3 DEF WritingPcs
<1> HIDE DEF next
<1>5. view = committed => Progress(t)'
  <2> SUFFICES ASSUME view = committed PROVE Progress(t)' OBVIOUS
  <2>1. thread'[t].pc = next /\ thread'[t].ext = e /\ thread'[t].body = b
    BY <1>1, <1>4, GotoFields DEF IndInv, Types, Pcs, WorkingPcs, WritingPcs
  <2> QED BY <1>1, <1>2, <1>3, <2>1 DEF Progress, Sees, Stored
<1> QED BY <1>1, <1>4, <1>5, LockStep DEF PutPcs

LEMMA DeleteBeginStep ==
  ASSUME IndInv, NEW t \in Threads, DeleteBegin(t), KeepsHistory
  PROVE  IndInv'
<1>1. CASE Stored(view, thread[t].ext)
  <2>1. /\ thread[t].pc = "begin" /\ thread[t].op = "delete" /\ lock = NoOne /\ lock' = t
        /\ Goto(t, "bury") /\ UNCHANGED <<committed, view, inTxn>>
    BY <1>1 DEF DeleteBegin
  <2>2. "bury" \in WritingPcs \ {"keep", "commit"} /\ "bury" \in Pcs
    BY DEF WorkingPcs, WritingPcs, Pcs
  <2>3. thread'[t].pc = "bury" /\ thread'[t].ext = thread[t].ext
    BY <2>1, <2>2, GotoFields DEF IndInv, Types
  <2>4. view = committed => Progress(t)'
    BY <1>1, <2>1, <2>3 DEF Progress, Sees, Stored
  <2> QED BY <2>1, <2>2, <2>4, LockStep DEF PutPcs
<1>2. CASE ~Stored(view, thread[t].ext)
  BY <1>2, NothingThereStep
<1> QED BY <1>1, <1>2

\* What a finished write leaves on disk.
LEMMA Finished ==
  ASSUME IndInv, NEW t \in Threads, Commit(t) \/ PutCommit(t), ~crossed, ~interposed
  PROVE  LET e == thread[t].ext
             b == thread[t].body
             was == committed.docs[e]
         IN /\ WholeRows /\ e \in Exts
            /\ thread[t].op = "put" =>
                 Sees(e, b, b, was.versions \cup Snapped(was.body, b), committed.tombs)
            /\ thread[t].op = "delete" =>
                 /\ Sees(e, NoBody, NoBody, {}, committed.tombs \cup {<<e, was.body>>})
                 /\ was.body # NoBody
<1>1. Working(t) /\ thread[t].pc \in {"store", "commit"}
  BY DEF Commit, PutCommit, Working
<1>2. thread[t].pc = "store" => thread[t].op = "put"
  BY DEF IndInv, CallInv, CallOk, PutPcs
<1>3. WholeRows /\ Progress(t)
  BY <1>1 DEF IndInv, WritesInv
<1> QED BY <1>1, <1>2, <1>3, CallFields DEF Progress

LEMMA FinishedIsWhole ==
  ASSUME IndInv, NEW t \in Threads, Commit(t) \/ PutCommit(t), ~crossed, ~interposed
  PROVE  WholeRows'
<1> SUFFICES ASSUME NEW f \in Exts
             PROVE  /\ committed'.docs[f].index = committed'.docs[f].body
                    /\ committed'.docs[f].body = NoBody => committed'.docs[f].versions = {}
  BY DEF WholeRows
<1> DEFINE e == thread[t].ext
<1>1. Working(t) /\ committed' = view
  BY DEF Commit, PutCommit, Working
<1>2. thread[t].op \in {"put", "delete"} /\ (thread[t].op = "put" => thread[t].body \in Bodies)
  BY <1>1, CallFields
<1>3. CASE f = e
  BY <1>1, <1>2, <1>3, Finished, ConstantsAssumption DEF Sees
<1>4. CASE f # e
  BY <1>1, <1>2, <1>4, Finished DEF Sees, WholeRows
<1> QED BY <1>3, <1>4

\* The thread in the lock answers and leaves it.
LEMMA AnswerStep ==
  ASSUME IndInv, NEW t \in Threads, Working(t), Answer(t), KeepsCrossed,
         stranded' \in BOOLEAN, inTxn' \in BOOLEAN, inTxn' => stranded',
         committed' = view \/ (UNCHANGED committed /\ ~Writing(t)),
         ~inTxn' => view = committed',
         ~crossed /\ ~interposed /\ WholeRows => WholeRows'
  PROVE  IndInv'
<1>1. lock' = NoOne /\ view' = view /\ thread' = [thread EXCEPT ![t] = Idle("ok")]
  BY DEF Answer
<1>2. /\ thread' \in [Threads -> ThreadState] /\ thread'[t] = Idle("ok")
      /\ \A u \in Threads \ {t} : thread'[u] = thread[u]
  BY <1>1, IdleFields DEF IndInv, Types
<1>3. Types' /\ CrossedInv' /\ (~crossed' => ~crossed) /\ interposed' = interposed
  BY <1>1, <1>2, CrossedKept DEF IndInv, Types, KeepsCrossed
<1>4. /\ \A u \in Threads : ~Working(u)' /\ ~Writing(u)'
      /\ \A u \in Threads \ {t} : ~Writing(u)
  BY <1>1, <1>2, IdleFields, Alone, WritersWork DEF IndInv, Working, Writing
<1>5. LockInv'
  BY <1>1, <1>4, ConstantsAssumption DEF LockInv
<1>6. CallInv'
  BY <1>2, IdleFields DEF IndInv, CallInv, CallOk, PutPcs, Raised
<1>7. TxnInv'
  <2>1. view' = committed' \/ \E u \in Threads : Raised(u)'
    <3>1. CASE committed' = view
      BY <1>1, <3>1
    <3>2. CASE UNCHANGED committed /\ ~Writing(t)
      <4>1. view = committed \/ \E u \in Threads : Raised(u)
        BY <1>4, <3>2 DEF IndInv, TxnInv
      <4> QED BY <1>1, <1>2, <3>2, <4>1 DEF Raised, Working
    <3> QED BY <3>1, <3>2
  <2>2. \A u \in Threads : thread'[u].pc # "mark"
    BY <1>4 DEF Working
  <2> QED BY <1>1, <2>1, <2>2 DEF TxnInv
<1>8. WritesInv'
  BY <1>3, <1>4 DEF IndInv, WritesInv
<1> QED BY <1>3, <1>5, <1>6, <1>7, <1>8 DEF IndInv

LEMMA CommitStep ==
  ASSUME IndInv, NEW t \in Threads, Commit(t), KeepsHistory
  PROVE  IndInv'
<1>1. Working(t) /\ Answer(t) /\ committed' = view /\ inTxn' = FALSE
  BY DEF Commit, Answer, Working
<1>2. stranded' \in BOOLEAN
  BY DEF KeepsHistory, IndInv, Types
<1> QED BY <1>1, <1>2, FinishedIsWhole, AnswerStep DEF KeepsHistory

LEMMA UnmarkedStep ==
  ASSUME IndInv, NEW t \in Threads, Unmarked(t), KeepsHistory
  PROVE  IndInv'
<1>1. Working(t) /\ ~Writing(t) /\ Answer(t) /\ UNCHANGED <<committed, inTxn>>
      /\ thread[t].pc = "mark"
  BY DEF Unmarked, Working, Writing
<1>2. inTxn = FALSE /\ view = committed
  BY <1>1 DEF IndInv, TxnInv, Types
<1>3. stranded' \in BOOLEAN
  BY DEF KeepsHistory, IndInv, Types
<1>4. WholeRows => WholeRows'
  BY <1>1 DEF WholeRows
<1> QED BY <1>1, <1>2, <1>3, <1>4, AnswerStep DEF KeepsHistory

LEMMA MarkCommitStep ==
  ASSUME IndInv, NEW t \in Threads, MarkCommit(t), KeepsHistory
  PROVE  IndInv'
<1>1. Working(t) /\ ~Writing(t) /\ Answer(t) /\ committed' = view /\ inTxn' = FALSE
  BY DEF MarkCommit, Working, Writing
<1>2. stranded' \in BOOLEAN
  BY DEF KeepsHistory, IndInv, Types
<1>3. ASSUME ~crossed, ~interposed, WholeRows PROVE WholeRows'
  <2>1. view = committed
    BY <1>1, <1>3, MarkSeesDisk
  <2> QED BY <1>1, <1>3, <2>1 DEF WholeRows
<1> QED BY <1>1, <1>2, <1>3, AnswerStep DEF KeepsHistory

LEMMA MarkSwallowedStep ==
  ASSUME IndInv, NEW t \in Threads, MarkSwallowed(t), KeepsCrossed, stranded' = inTxn
  PROVE  IndInv'
<1>1. Working(t) /\ ~Writing(t) /\ Answer(t) /\ UNCHANGED <<committed, inTxn>>
  BY DEF MarkSwallowed, Working, Writing
<1>2. inTxn \in BOOLEAN /\ (~inTxn => view = committed)
  BY DEF IndInv, TxnInv, Types
<1>3. WholeRows => WholeRows'
  BY <1>1 DEF WholeRows
<1> QED BY <1>1, <1>2, <1>3, AnswerStep

\* The commit of a new text keeps the lock.
LEMMA StoreStep ==
  ASSUME IndInv, NEW t \in Threads, PutCommit(t), KeepsHistory
  PROVE  IndInv'
<1>1. Working(t) /\ committed' = view /\ inTxn' = FALSE /\ Goto(t, "mark")
      /\ UNCHANGED <<view, lock>> /\ "mark" \in Pcs
  BY DEF PutCommit, Working, Pcs, WorkingPcs
<1>2. /\ thread' \in [Threads -> ThreadState]
      /\ \A u \in Threads \ {t} : thread'[u] = thread[u]
      /\ thread'[t].pc = "mark" /\ thread'[t].op = thread[t].op
      /\ thread'[t].ext = thread[t].ext /\ thread'[t].body = thread[t].body
      /\ thread'[t].reply = thread[t].reply
  BY <1>1, GotoFields DEF IndInv, Types
<1>3. Types' /\ CrossedInv' /\ (~crossed' => ~crossed) /\ interposed' = interposed
  BY <1>1, <1>2, CrossedKept DEF IndInv, Types, KeepsHistory, KeepsCrossed
<1>4. Working(t)' /\ \A u \in Threads \ {t} : ~Working(u) /\ ~Working(u)'
  BY <1>1, <1>2, Alone DEF IndInv, Working
<1>5. LockInv'
  BY <1>1, <1>4 DEF IndInv, LockInv
<1>6. CallInv'
  <2>1. CallOk(t)'
    BY <1>1, <1>2 DEF IndInv, CallInv, CallOk, PutPcs, Raised, Working
  <2>2. ASSUME NEW u \in Threads, u # t PROVE CallOk(u)'
    BY <1>2, <2>2 DEF IndInv, CallInv, CallOk, PutPcs, Raised
  <2> QED BY <2>1, <2>2 DEF CallInv
<1>7. TxnInv'
  BY <1>1 DEF TxnInv
<1>8. WritesInv'
  <2> SUFFICES ASSUME ~crossed', ~interposed'
               PROVE  WholeRows' /\ \A u \in Threads : Working(u)' => Progress(u)'
    BY DEF WritesInv
  <2>1. WholeRows'
    BY <1>3, FinishedIsWhole
  <2>2. Progress(t)'
    BY <1>2 DEF Progress
  <2> QED BY <1>4, <2>1, <2>2
<1> QED BY <1>3, <1>5, <1>6, <1>7, <1>8 DEF IndInv

\* The mark adds nothing to what the connection sees of docs' texts.
LEMMA MarkDuplicateStep ==
  ASSUME IndInv, NEW t \in Threads, MarkDuplicate(t), KeepsHistory
  PROVE  IndInv'
<1>1. /\ Working(t) /\ ~Writing(t) /\ view' = view /\ inTxn' = TRUE /\ Goto(t, "marked")
      /\ UNCHANGED <<committed, lock>> /\ "marked" \in Pcs
  BY DEF MarkDuplicate, Statement, Working, Writing, Pcs, WorkingPcs
<1>2. StaysIn(t) /\ thread'[t].pc = "marked"
  BY <1>1, GotoFields DEF StaysIn, IndInv, Types
<1>3. Progress(t)'
  BY <1>2 DEF Progress
<1> QED BY <1>1, <1>2, <1>3, InsideStep DEF PutPcs

LEMMA RaiseStep ==
  ASSUME IndInv, NEW t \in Threads, Raise(t), KeepsHistory
  PROVE  IndInv'
<1>1. Working(t) /\ lock' = NoOne /\ Goto(t, "raised") /\ UNCHANGED <<committed, view, inTxn>>
      /\ "raised" \in Pcs
  BY DEF Raise, Working, Pcs, WorkingPcs, WritingPcs
<1>2. /\ thread' \in [Threads -> ThreadState] /\ Raised(t)'
      /\ \A u \in Threads \ {t} : thread'[u] = thread[u]
      /\ thread'[t].op = thread[t].op /\ thread'[t].ext = thread[t].ext
      /\ thread'[t].body = thread[t].body /\ thread'[t].reply = thread[t].reply
  BY <1>1, GotoFields DEF IndInv, Types, Raised
<1>3. Types' /\ CrossedInv' /\ (~crossed' => ~crossed) /\ interposed' = interposed
  BY <1>1, <1>2, CrossedKept DEF IndInv, Types, KeepsHistory, KeepsCrossed
<1>4. \A u \in Threads : ~Working(u)'
  BY <1>1, <1>2, Alone DEF IndInv, Working, Raised
<1>5. LockInv'
  BY <1>1, <1>4, ConstantsAssumption DEF LockInv
<1>6. CallInv'
  BY <1>1, <1>2 DEF IndInv, CallInv, CallOk, PutPcs, Raised, Working
<1>7. TxnInv'
  <2>1. \A u \in Threads : thread'[u].pc # "mark"
    BY <1>4 DEF Working
  <2> QED BY <1>1, <1>2, <2>1 DEF IndInv, TxnInv
<1>8. WritesInv'
  BY <1>1, <1>3, <1>4 DEF IndInv, WritesInv, WholeRows
<1> QED BY <1>3, <1>5, <1>6, <1>7, <1>8 DEF IndInv

LEMMA FailedFields ==
  ASSUME IndInv, NEW t \in Threads, Raised(t), Failed(t)
  PROVE  /\ thread' \in [Threads -> ThreadState]
         /\ \A u \in Threads \ {t} : thread'[u] = thread[u]
         /\ CallOf(t) /\ ~Raised(t)' /\ ~Working(t)' /\ thread'[t].pc # "keep"
<1>1. CASE thread' = [thread EXCEPT ![t] = Idle("error")]
  <2>1. /\ thread' \in [Threads -> ThreadState] /\ thread'[t] = Idle("error")
        /\ \A u \in Threads \ {t} : thread'[u] = thread[u]
    BY <1>1, IdleFields DEF IndInv, Types
  <2> QED BY <2>1, IdleFields DEF Raised, Working, CallOf
<1>2. CASE /\ thread[t].op # "none" /\ thread[t].attempt < MaxAttempts
           /\ thread' = [thread EXCEPT ![t].pc = "begin", ![t].attempt = @ + 1]
  <2> DEFINE new == [thread[t] EXCEPT !.pc = "begin", !.attempt = @ + 1]
  <2>1. thread[t] \in ThreadState
    BY DEF IndInv, Types
  <2>2. thread[t].attempt + 1 \in 0..MaxAttempts /\ "begin" \in Pcs
    BY <1>2, <2>1, ConstantsAssumption DEF ThreadState, Pcs, WorkingPcs, WritingPcs
  <2>3. new \in ThreadState
    BY <2>1, <2>2 DEF ThreadState
  <2>4. /\ new.pc = "begin" /\ new.op = thread[t].op /\ new.ext = thread[t].ext
        /\ new.body = thread[t].body /\ new.reply = thread[t].reply
    BY <2>1 DEF ThreadState
  <2>5. thread' = [thread EXCEPT ![t] = new]
    BY <1>2
  <2> HIDE DEF new
  <2>6. /\ thread' \in [Threads -> ThreadState] /\ thread'[t] = new
        /\ \A u \in Threads \ {t} : thread'[u] = thread[u]
    BY <2>3, <2>5 DEF IndInv, Types
  <2>7. /\ thread[t].op \in {"put", "delete"} /\ thread[t].ext \in Exts
        /\ thread[t].op = "put" => thread[t].body \in Bodies
        /\ thread[t].reply = "none"
    BY <1>2, <2>1 DEF IndInv, CallInv, CallOk, PutPcs, ThreadState
  <2> QED BY <2>4, <2>6, <2>7 DEF Raised, Working, CallOf
<1> QED BY <1>1, <1>2 DEF Failed

LEMMA RollbackStep ==
  ASSUME IndInv, NEW t \in Threads, Rollback(t), KeepsHistory
  PROVE  IndInv'
<1>1. Raised(t) /\ Failed(t) /\ view' = committed /\ inTxn' = FALSE
      /\ UNCHANGED <<committed, lock>>
  BY DEF Rollback, Raised
<1>2. /\ thread' \in [Threads -> ThreadState]
      /\ \A u \in Threads \ {t} : thread'[u] = thread[u]
      /\ CallOf(t) /\ ~Raised(t)' /\ ~Working(t)' /\ thread'[t].pc # "keep"
  BY <1>1, FailedFields
<1>3. Types' /\ CrossedInv' /\ (~crossed' => ~crossed) /\ interposed' = interposed
  BY <1>1, <1>2, CrossedKept DEF IndInv, Types, KeepsHistory, KeepsCrossed
<1>4. \A u \in Threads : Working(u)' <=> Working(u)
  BY <1>1, <1>2 DEF Working, Raised
<1>5. LockInv'
  BY <1>1, <1>4 DEF IndInv, LockInv
<1>6. CallInv'
  BY <1>2 DEF IndInv, CallInv, CallOk, PutPcs, CallOf, Raised, Working
<1>7. TxnInv'
  BY <1>1 DEF TxnInv
<1>8. WritesInv'
  <2> SUFFICES ASSUME ~crossed', ~interposed'
               PROVE  WholeRows' /\ \A u \in Threads : ~Working(u)'
    BY DEF WritesInv
  <2>1. lock = NoOne
    BY <1>1, <1>3 DEF IndInv, CrossedInv, Crossing, Raised
  <2> QED BY <1>1, <1>3, <1>4, <2>1, SetFree DEF IndInv, WritesInv, WholeRows
<1> QED BY <1>3, <1>5, <1>6, <1>7, <1>8 DEF IndInv

\* The row another process writes.
ForeignRow(e, b) ==
  [body |-> b, index |-> b,
   versions |-> committed.docs[e].versions \cup ({committed.docs[e].body} \ {NoBody, b})]

LEMMA ForeignRowIs ==
  ASSUME IndInv, NEW e \in Exts, NEW b \in Bodies,
         committed' = [committed EXCEPT !.docs[e] = ForeignRow(e, b)]
  PROVE  /\ committed' \in Database
         /\ committed'.docs[e].body = b /\ committed'.docs[e].index = b
         /\ committed'.docs[e].versions =
              committed.docs[e].versions \cup Snapped(committed.docs[e].body, b)
         /\ \A f \in Exts \ {e} : committed'.docs[f] = committed.docs[f]
         /\ committed'.tombs = committed.tombs
<1>1. /\ ForeignRow(e, b) \in Doc
      /\ ForeignRow(e, b).body = b /\ ForeignRow(e, b).index = b
      /\ ForeignRow(e, b).versions =
           committed.docs[e].versions \cup Snapped(committed.docs[e].body, b)
  BY RowFields DEF IndInv, Types, ForeignRow, Doc, Snapped
<1> QED BY <1>1, WithRow DEF IndInv, Types

LEMMA ForeignPutStep ==
  ASSUME IndInv, ForeignPut, interposed' = (interposed \/ \E t \in Threads : Writing(t)),
         UNCHANGED <<stranded, crossed>>
  PROVE  IndInv'
<1>1. PICK e \in Exts, b \in Bodies :
        committed' = [committed EXCEPT !.docs[e] = ForeignRow(e, b)]
  BY DEF ForeignPut, ForeignRow
<1>2. view' = committed' /\ UNCHANGED <<inTxn, lock, thread>>
  BY DEF ForeignPut
<1>3. Types'
  BY <1>1, <1>2, ForeignRowIs DEF IndInv, Types
<1>4. LockInv' /\ CallInv' /\ CrossedInv'
  BY <1>2 DEF IndInv, LockInv, CallInv, CallOk, PutPcs, CrossedInv, Crossing, Working, Raised
<1>5. TxnInv'
  BY <1>2 DEF IndInv, TxnInv, Working, Writing, Raised
<1>6. WritesInv'
  <2> SUFFICES ASSUME ~crossed, ~interposed, \A u \in Threads : ~Writing(u)
               PROVE  WholeRows' /\ \A u \in Threads : Working(u)' => Progress(u)'
    BY DEF WritesInv, IndInv, Types
  <2>1. ASSUME NEW u \in Threads, Working(u)' PROVE Progress(u)'
    <3>1. thread'[u].pc \in {"mark", "marked"}
      BY <1>2, <2>1, WritersWork DEF Working
    <3> QED BY <3>1 DEF Progress
  <2>2. WholeRows'
    BY <1>1, ForeignRowIs, ConstantsAssumption DEF IndInv, WritesInv, WholeRows
  <2> QED BY <2>1, <2>2
<1> QED BY <1>3, <1>4, <1>5, <1>6 DEF IndInv

LEMMA CrashStep ==
  ASSUME IndInv, Crash, stranded' = FALSE, UNCHANGED <<crossed, interposed>>
  PROVE  IndInv'
<1>1. view' = committed /\ inTxn' = FALSE /\ lock' = NoOne /\ UNCHANGED committed
  BY DEF Crash
<1>2. \A t \in Threads : thread'[t] = Idle("none")
  BY DEF Crash
<1>3. Types'
  BY <1>1, IdleFields DEF Crash, IndInv, Types
<1>4. \A t \in Threads : ~Working(t)' /\ ~Raised(t)'
  BY <1>2, IdleFields DEF Working, Raised
<1>5. LockInv' /\ CallInv' /\ TxnInv' /\ CrossedInv'
  BY <1>1, <1>2, <1>4, IdleFields, ConstantsAssumption
     DEF LockInv, CallInv, CallOk, PutPcs, TxnInv, CrossedInv, Crossing, Raised, Working
<1>6. WritesInv'
  BY <1>1, <1>4 DEF IndInv, WritesInv, WholeRows
<1> QED BY <1>3, <1>5, <1>6 DEF IndInv
-----------------------------------------------------------------------------
(***************************************************************************)
(* The invariant.                                                          *)
(***************************************************************************)
LEMMA InitInv == Init => IndInv
<1> SUFFICES ASSUME Init PROVE IndInv
  OBVIOUS
<1>1. \A t \in Threads : thread[t] = Idle("none")
  BY DEF Init
<1>2. NoDoc \in Doc /\ NoDoc.body = NoBody /\ NoDoc.index = NoBody /\ NoDoc.versions = {}
  BY DEF NoDoc, Doc
<1>3. /\ committed \in Database
      /\ \A e \in Exts : committed.docs[e] = NoDoc
  BY <1>2 DEF Init, Database
<1>4. Types
  BY <1>3, IdleFields DEF Init, Types
<1>5. \A t \in Threads : ~Working(t) /\ ~Raised(t)
  BY <1>1, IdleFields DEF Working, Raised
<1>6. LockInv /\ CallInv /\ TxnInv /\ CrossedInv
  BY <1>1, <1>5, IdleFields, ConstantsAssumption
     DEF Init, LockInv, CallInv, CallOk, PutPcs, TxnInv, CrossedInv, Crossing, Raised, Working
<1>7. WritesInv
  BY <1>2, <1>3, <1>5 DEF WritesInv, WholeRows
<1> QED BY <1>4, <1>6, <1>7 DEF IndInv

LEMMA ThreadStep ==
  ASSUME IndInv, NEW t \in Threads, Put(t) \/ Delete(t) \/ Ending(t), KeepsHistory
  PROVE  IndInv'
<1>1. CASE Put(t)
  BY <1>1, PutCallStep, PutBeginStep, SnapshotReadStep, SnapshotWriteStep,
     UpdateRowStep, InsertRowStep, IndexRowStep, StoreStep, MarkDuplicateStep,
     UnmarkedStep, MarkCommitStep DEF Put
<1>2. CASE Delete(t)
  BY <1>2, DeleteCallStep, DeleteBeginStep, BuryStep, NothingToBuryStep, CascadeStep
     DEF Delete
<1>3. CASE Ending(t)
  BY <1>3, CommitStep, RaiseStep, BadArgumentStep, RollbackStep DEF Ending
<1> QED BY <1>1, <1>2, <1>3

LEMMA StutterStep == IndInv /\ UNCHANGED vars => IndInv'
<1> SUFFICES ASSUME IndInv, UNCHANGED vars PROVE IndInv'
  OBVIOUS
<1>1. Types' /\ LockInv' /\ CallInv'
  BY DEF vars, IndInv, Types, LockInv, CallInv, CallOk, PutPcs, Working, Raised
<1>2. TxnInv' /\ CrossedInv'
  BY DEF vars, IndInv, TxnInv, CrossedInv, Crossing, Working, Writing, Raised
<1>3. WholeRows' = WholeRows
  BY DEF vars, WholeRows
<1>4. ASSUME NEW t \in Threads
      PROVE  (Working(t)' <=> Working(t)) /\ (Progress(t) => Progress(t)')
  <2>1. thread'[t] = thread[t] /\ view' = view /\ committed' = committed
    BY DEF vars
  <2>2. ASSUME Progress(t) PROVE Progress(t)'
    BY <2>1, <2>2 DEF Progress, Sees
  <2> QED BY <2>1, <2>2 DEF Working
<1>5. WritesInv'
  BY <1>3, <1>4 DEF vars, IndInv, WritesInv
<1> QED BY <1>1, <1>2, <1>5 DEF IndInv

LEMMA NextInv == IndInv /\ [Next]_vars => IndInv'
<1> SUFFICES ASSUME IndInv, [Next]_vars PROVE IndInv'
  OBVIOUS
<1>1. CASE \E t \in Threads : (Put(t) \/ Delete(t) \/ Ending(t)) /\ KeepsHistory
  BY <1>1, ThreadStep
<1>2. CASE \E t \in Threads : MarkSwallowed(t) /\ stranded' = inTxn /\ KeepsCrossed
  BY <1>2, MarkSwallowedStep
<1>3. CASE /\ ForeignPut /\ interposed' = (interposed \/ \E t \in Threads : Writing(t))
           /\ UNCHANGED <<stranded, crossed>>
  BY <1>3, ForeignPutStep
<1>4. CASE Crash /\ stranded' = FALSE /\ UNCHANGED <<crossed, interposed>>
  BY <1>4, CrashStep
<1>5. CASE UNCHANGED vars
  BY <1>5, StutterStep
<1> QED BY <1>1, <1>2, <1>3, <1>4, <1>5 DEF Next, KeepsHistory, KeepsCrossed

LEMMA Invariance == Spec => []IndInv
BY InitInv, NextInv, PTL DEF Spec

LEMMA CrossedStays == ASSUME IndInv, [Next]_vars PROVE
  (~crossed' => ~crossed) /\ (~interposed' => ~interposed)
BY DEF Next, vars, IndInv, Types

-----------------------------------------------------------------------------
(***************************************************************************)
(* The theorems.                                                           *)
(***************************************************************************)

\* An answered put was stored by its commit.
LEMMA AnswerIsStored ==
  ASSUME IndInv, Next, NEW t \in Threads, ~crossed', ~interposed'
  PROVE  StoredAsAnswered(t)
<1> SUFFICES ASSUME CommitsPut(t)
             PROVE  /\ committed'.docs[thread[t].ext].body = thread[t].body
                    /\ committed'.docs[thread[t].ext].index = thread[t].body
  BY DEF StoredAsAnswered
<1>1. /\ Working(t) /\ lock = t /\ thread[t].reply = "none" /\ thread[t].op = "put"
      /\ thread[t].pc \in {"store", "commit"}
      /\ thread'[t].pc = "mark" \/ thread'[t].reply = "ok"
  BY DEF CommitsPut, Working, IndInv, LockInv, CallInv, CallOk
<1>2. ~Crash /\ ~ForeignPut
  BY <1>1, IdleFields DEF Crash, ForeignPut
<1>3. PICK u \in Threads : Put(u) \/ Delete(u) \/ Ending(u) \/ MarkSwallowed(u)
  BY <1>2 DEF Next
<1>4. u = t
  <2> SUFFICES ASSUME u # t PROVE thread'[t] = thread[t]
    BY <1>1
  <2>1. CASE Put(u)
    BY <2>1 DEF Put, PutCall, PutBegin, SnapshotRead, SnapshotWrite, UpdateRow, InsertRow,
                IndexRow, PutCommit, MarkDuplicate, Unmarked, MarkCommit, Answer, Statement,
                Call, Goto, IndInv, Types
  <2>2. CASE Delete(u)
    BY <2>2 DEF Delete, DeleteCall, DeleteBegin, Bury, NothingToBury, Cascade, Statement,
                Call, Goto, IndInv, Types
  <2>3. CASE Ending(u) \/ MarkSwallowed(u)
    BY <2>3 DEF Ending, Commit, Raise, BadArgument, Rollback, Failed, MarkSwallowed, Answer,
                Goto, IndInv, Types
  <2> QED BY <1>3, <2>1, <2>2, <2>3
<1>5. Commit(t) \/ PutCommit(t)
  <2>1. ~Raise(t)
    BY <1>1, GotoFields DEF Raise, IndInv, Types, Pcs
  <2> QED BY <1>1, <1>3, <1>4, <2>1
          DEF Put, PutCall, PutBegin, SnapshotRead, SnapshotWrite, UpdateRow, InsertRow,
              IndexRow, MarkDuplicate, Unmarked, MarkCommit, MarkSwallowed, Delete,
              DeleteCall, DeleteBegin, Bury, NothingToBury, Cascade, Ending, BadArgument,
              Rollback
<1>6. ~crossed /\ ~interposed
  BY CrossedStays
<1> QED BY <1>1, <1>5, <1>6, Finished DEF Commit, PutCommit, Sees

\* A transaction that outlives the calls holds the mark of a duplicate and
\* nothing of a write; what is on disk is never half a write; what a put
\* answered is stored - for any number of threads, whatever raises, until a lock
\* is taken with a rollback due or another process writes in the middle of a
\* call.
THEOREM WholeWrites == Spec => WritesAreWhole
<1>1. ASSUME IndInv PROVE TypeOK /\ StrandedHoldsAMark /\ NeverHalfAppliedUncrossed
  <2>1. TypeOK
    BY <1>1, Typed DEF IndInv
  <2>2. stranded \/ NoStrandedTxn
    BY <1>1 DEF IndInv, TxnInv, NoStrandedTxn, Working, Raised
  <2>3. (\A t \in Threads : thread[t].pc = "idle") => view = committed
    BY <1>1 DEF IndInv, TxnInv, Writing, Raised
  <2>4. NeverHalfAppliedUncrossed
    BY <1>1 DEF IndInv, WritesInv, WholeRows, NeverHalfAppliedUncrossed, Whole
  <2> QED BY <2>1, <2>2, <2>3, <2>4 DEF StrandedHoldsAMark
<1>2. IndInv /\ [Next]_vars =>
        [crossed' \/ interposed' \/ \A t \in Threads : StoredAsAnswered(t)]_vars
  BY AnswerIsStored
<1> QED BY <1>1, <1>2, Invariance, PTL
        DEF Spec, WritesAreWhole, AcknowledgedIsStoredUncrossed

LEMMA WriteIsNext ==
  ASSUME NEW f \in Exts, NEW c \in Bodies, Promise!Write(f, c)
  PROVE  Promise!Next
BY DEF Promise!Next

LEMMA DeleteIsNext ==
  ASSUME NEW f \in Exts, Promise!Delete(f)
  PROVE  Promise!Next
BY DEF Promise!Next

\* A commit is one write or one delete of the abstract store.
LEMMA CommitKeepsPromise ==
  ASSUME IndInv, NEW t \in Threads, Commit(t) \/ PutCommit(t), ~crossed, ~interposed
  PROVE  Promise!Next
<1>1. /\ committed' = view
      /\ thread[t].ext \in Exts
      /\ thread[t].op \in {"put", "delete"}
      /\ thread[t].op = "put" => thread[t].body \in Bodies
  BY CallFields DEF Commit, PutCommit, Working, PutPcs
<1>2. CASE thread[t].op = "put"
  <2>1. PICK e \in Exts, b \in Bodies : e = thread[t].ext /\ b = thread[t].body
    BY <1>1, <1>2
  <2>2. Sees(e, b, b, committed.docs[e].versions \cup Snapped(committed.docs[e].body, b),
             committed.tombs)
    BY <1>2, <2>1, Finished
  <2>3. Promise!Write(e, b)
    BY <1>1, <2>2 DEF Sees, Snapped, Promise!Write
  <2> QED BY <2>3, WriteIsNext
<1>3. CASE thread[t].op = "delete"
  <2>1. PICK e \in Exts : e = thread[t].ext
    BY <1>1
  <2>2. /\ Sees(e, NoBody, NoBody, {}, committed.tombs \cup {<<e, committed.docs[e].body>>})
        /\ committed.docs[e].body # NoBody
    BY <1>3, <2>1, Finished
  <2>3. Promise!Delete(e)
    BY <1>1, <2>2 DEF Sees, Promise!Delete
  <2> QED BY <2>3, DeleteIsNext
<1> QED BY <1>1, <1>2, <1>3

LEMMA ForeignKeepsPromise ==
  ASSUME IndInv, ForeignPut
  PROVE  Promise!Next
<1>1. PICK e \in Exts, b \in Bodies :
        committed' = [committed EXCEPT !.docs[e] = ForeignRow(e, b)]
  BY DEF ForeignPut, ForeignRow
<1>2. /\ committed'.docs[e].body = b
      /\ committed'.docs[e].versions =
           committed.docs[e].versions \cup Snapped(committed.docs[e].body, b)
      /\ \A f \in Exts \ {e} : committed'.docs[f] = committed.docs[f]
      /\ committed'.tombs = committed.tombs
  BY <1>1, ForeignRowIs
<1>3. Promise!Write(e, b)
  BY <1>2 DEF Snapped, Promise!Write
<1> QED BY <1>3, WriteIsNext

\* On disk, every step of the threads and of another process is one write or
\* one delete of OwnedDocs, or nothing, under the same exception: the body that
\* goes stays a version or a tombstone.
THEOREM PromiseHolds == Spec => PromiseKept
<1>1. Init => Promise!Init
  <2> SUFFICES ASSUME Init PROVE Promise!Init
    OBVIOUS
  <2>1. \A e \in Exts : committed.docs[e].body = NoBody /\ committed.docs[e].versions = {}
    BY DEF Init, NoDoc
  <2>2. committed.tombs = {}
    BY DEF Init
  <2> QED BY <2>1, <2>2 DEF Promise!Init
<1>2. IndInv /\ [Next]_vars =>
        [crossed' \/ interposed' \/ [Promise!Next]_(Promise!vars)]_vars
  <2> SUFFICES ASSUME IndInv, Next, ~crossed', ~interposed'
               PROVE  Promise!Next \/ UNCHANGED Promise!vars
    OBVIOUS
  <2>1. ~crossed /\ ~interposed
    BY CrossedStays
  <2>2. CASE ForeignPut
    BY <2>2, ForeignKeepsPromise
  <2>3. CASE \E t \in Threads : Commit(t) \/ PutCommit(t)
    BY <2>1, <2>3, CommitKeepsPromise
  <2>4. CASE UNCHANGED committed
    BY <2>4 DEF Promise!vars
  <2>5. ForeignPut \/ (\E t \in Threads : Commit(t) \/ PutCommit(t)) \/ UNCHANGED committed
    <3>1. ASSUME NEW t \in Threads, MarkCommit(t) PROVE UNCHANGED committed
      BY <2>1, <3>1, MarkSeesDisk DEF MarkCommit, Working, Writing
    <3> QED BY <3>1
        DEF Next, Put, PutCall, PutBegin, SnapshotRead, SnapshotWrite, UpdateRow, InsertRow,
            IndexRow, MarkDuplicate, Unmarked, MarkSwallowed, Delete, DeleteCall,
            DeleteBegin, Bury, NothingToBury, Cascade, Statement, Ending, Raise,
            BadArgument, Rollback, Crash
  <2> QED BY <2>2, <2>3, <2>4, <2>5
<1> QED BY <1>1, <1>2, Invariance, PTL DEF Spec, PromiseKept

-----------------------------------------------------------------------------
(***************************************************************************)
(* Opening the store: what a walk has to run, and the inductive invariant. *)
(***************************************************************************)
Plain == {"check", "create docs_new", "copy docs", "drop docs", "rename docs_new", "wipe",
          "backfill topics", "schema", "drop static docs", "drop static chunks",
          "create static docs", "create static chunks", "stamp"}
Statements ==
  [op : Plain, arg : {{}}] \cup [op : {"add"}, arg : SUBSET AllColumns]
  \cup [op : {"rebuild"}, arg : Layouts \ {None}] \cup [op : {"fill and purge"}, arg : SUBSET Docs]

\* The place of a step in the walk; chunk_provenance is a part of provenance.
Place(step) ==
  CASE step = "store_columns" -> 3
    [] step = "query_session" -> 4
    [] step = "query_used" -> 5
    [] step = "query_source" -> 6
    [] step = "query_budget" -> 7
    [] step = "chunk_hash" -> 8
    [] step = "chunker_version" -> 9
    [] step = "lifecycle" -> 10
    [] step = "canonical_topic" -> 11
    [] step = "importance" -> 12
    [] step = "run_metrics" -> 13
    [] step = "jobs_link" -> 14
    [] step = "provenance" -> 15
    [] step = "chunk_provenance" -> 15
    [] step = "drift" -> 16

StoreTyped(s) ==
  /\ s \in Store
  /\ s.topic \subseteq s.owned /\ s.owned \subseteq s.rows
  /\ "docs" \notin s.tables => s.rows = {} /\ "content" \notin s.cols

ProcsTyped ==
  /\ pc \in [Procs -> 0..Opened]
  /\ cfg \in [Procs -> Configs \cup {NoConfig}]
  /\ due \in [Procs -> Seq(Statements)]
  /\ \A p \in Procs : Opening(p) => due[p] # << >>
  /\ \A p \in Procs : pc[p] # 0 => cfg[p] \in Configs

WalkTyped == StoreTyped(db) /\ ProcsTyped

-----------------------------------------------------------------------------
Unindexed(s) == s.unique => "canonical_topic" \in s.cols

\* A vector table that is not there has no row; vec_chunks has no owner.
Tabled(s) ==
  /\ s.vecDocs.layout = None => s.vecDocs.rows = NoVec
  /\ s.vecChunks.layout = None => s.vecChunks.rows = NoVec
  /\ s.vecChunks.layout # "owner"

CopyFormed(s, op) ==
  /\ op = "copy docs" => s.scratch = "made" /\ s.scratchRows = {}
  /\ op = "drop docs" => s.scratch = "copied" /\ s.scratchRows = s.rows
  /\ op = "rename docs_new" => s.scratch = "copied" /\ "docs" \notin s.tables
  /\ op \notin {"copy docs", "drop docs", "rename docs_new"} => NoCopy(s)

Formed(s, op) ==
  /\ CopyFormed(s, op) /\ Tabled(s) /\ Unindexed(s)
  /\ op # "rename docs_new" => DocsFirst(s)
  /\ op # "backfill topics" => OneLive(s)
  /\ op # "drop static chunks" => StaticPaired(s)

\* What the steps before the n-th have left behind, by step.
SourceDone(s, n) == n > 1 => ("docs" \in s.tables => "source_id" \in s.cols)
DimDone(s, c, n) == n > 2 => (s.vecDocs.layout # None /\ s.vecDocs.dim # c.dim => s.rows # {})
AltersDone(s, n) ==
  \A step \in DOMAIN ColumnsOf :
    Place(step) < n /\ TableOf(step) \in s.tables => ToSet(ColumnsOf[step]) \subseteq s.cols
SchemaDone(s, n) ==
  n > 17 => s.tables = Tables /\ AllColumns \cup {"source_id"} \subseteq s.cols /\ s.unique
LayoutDone(s, n) ==
  /\ n > 17 => s.vecDocs.layout # None
  /\ n > 18 => s.vecDocs.layout # "flat"
  /\ n > 19 => s.vecDocs.layout # "partitioned"
  /\ n > 20 => s.vecDocs.layout # "model"
StaticDone(s, c, n) ==
  n > 21 => (c.static # 0 => s.staticDocs = c.static /\ s.staticChunks = c.static)
TextDone(s, n) ==
  n > 22 => (\A d \in s.rows : s.fts[d] = 1) /\ s.tags \cup s.chunks \subseteq s.rows

Done(s, c, n) ==
  /\ SourceDone(s, n) /\ DimDone(s, c, n) /\ AltersDone(s, n) /\ SchemaDone(s, n)
  /\ LayoutDone(s, n) /\ StaticDone(s, c, n) /\ TextDone(s, n)

Adding(s, n, w) ==
  /\ \A i \in DOMAIN w :
       /\ w[i].op = "add" /\ w[i].arg \cap s.cols = {}
       /\ \A x \in w[i].arg : \E step \in DOMAIN ColumnsOf :
            Place(step) = n /\ TableOf(step) \in s.tables /\ x \in ToSet(ColumnsOf[step])
  /\ \A i, j \in DOMAIN w : i # j => w[i].arg \cap w[j].arg = {}
  /\ \A step \in DOMAIN ColumnsOf : Place(step) = n /\ TableOf(step) \in s.tables =>
       \A x \in ToSet(ColumnsOf[step]) : x \in s.cols \/ \E i \in DOMAIN w : x \in w[i].arg

\* What may be left of a step that has decided to run some statements.
ToCreate == <<Stmt("create docs_new", {}), Stmt("copy docs", {}),
              Stmt("drop docs", {}), Stmt("rename docs_new", {})>>
ToCopy == <<Stmt("copy docs", {}), Stmt("drop docs", {}), Stmt("rename docs_new", {})>>
ToDrop == <<Stmt("drop docs", {}), Stmt("rename docs_new", {})>>
ToRename == <<Stmt("rename docs_new", {})>>
ToWipe == <<Stmt("wipe", {})>>
ToAddTopic == <<Stmt("add", {"canonical_topic"}), Stmt("backfill topics", {})>>
ToBackfill == <<Stmt("backfill topics", {})>>
ToSchema == <<Stmt("schema", {})>>
ToRelay(l) == <<Stmt("rebuild", l)>>
ToDropDocs == <<Stmt("drop static docs", {}), Stmt("drop static chunks", {}),
                Stmt("create static docs", {}), Stmt("create static chunks", {})>>
ToDropChunks == <<Stmt("drop static chunks", {}),
                  Stmt("create static docs", {}), Stmt("create static chunks", {})>>
ToMakeDocs == <<Stmt("create static docs", {}), Stmt("create static chunks", {})>>
ToMakeChunks == <<Stmt("create static chunks", {})>>
ToFill(ds) == <<Stmt("fill and purge", ds)>>
ToStamp == <<Stmt("stamp", {})>>

CopyLeft(s, w) ==
  \/ w = ToRename
  \/ w \in {ToCreate, ToCopy, ToDrop} /\ "docs" \in s.tables
TopicLeft(s, w) ==
  /\ "docs" \in s.tables
  /\ \/ w = ToAddTopic /\ "canonical_topic" \notin s.cols
     \/ w = ToBackfill /\ "canonical_topic" \in s.cols
StaticLeft(s, c, w) ==
  /\ c.static # 0
  /\ \/ w = ToDropDocs
     \/ w = ToDropChunks /\ s.staticDocs = 0
     \/ w = ToMakeDocs /\ s.staticDocs \in {0, c.static}
     \/ w = ToMakeChunks /\ s.staticDocs = c.static
FillLeft(s, w) ==
  \E ds \in SUBSET s.rows : /\ w = ToFill(ds)
                           /\ \A d \in s.rows : s.fts[d] = IF d \in ds THEN 0 ELSE 1

Left(s, c, n, w) ==
  \/ w = <<Check>>
  \/ n = 1 /\ CopyLeft(s, w)
  \/ n = 2 /\ w = ToWipe /\ Wipes(s, c) /\ "docs" \in s.tables
  \/ n \in 3..16 /\ n # 11 /\ Adding(s, n, w)
  \/ n = 11 /\ TopicLeft(s, w)
  \/ n = 17 /\ w = ToSchema
  \/ n = 18 /\ w = ToRelay("partitioned") /\ s.vecDocs.layout = "flat"
  \/ n = 19 /\ w = ToRelay("model") /\ s.vecDocs.layout = "partitioned"
  \/ n = 20 /\ w = ToRelay("owner") /\ s.vecDocs.layout = "model"
  \/ n = 21 /\ StaticLeft(s, c, w)
  \/ n = 22 /\ FillLeft(s, w)
  \/ n = 23 /\ w = ToStamp

\* What holds of the store once the statements w are what step n still has to run.
Onward(s, c, n, w) ==
  IF w = << >> THEN Done(s, c, n + 1) /\ Formed(s, "check")
  ELSE Left(s, c, n, w) /\ Done(s, c, n) /\ Formed(s, Head(w).op)

Calm == {"check", "schema", "create static docs", "create static chunks", "fill and purge", "stamp"}

AllCalm(w) == \A i \in DOMAIN w : w[i].op \in Calm

\* Every vector of what a store held is where it was.
Embedded(s, held) ==
  /\ held.vecDocs \subseteq held.rows /\ held.vecChunks \subseteq held.rows \cap s.chunks
  /\ \A d \in held.vecDocs : s.vecDocs.rows[d] # None
  /\ \A d \in held.vecChunks : s.vecChunks.rows[d] # None
Kept(s, held) ==
  /\ held.rows = s.rows \cup s.scratchRows
  /\ Embedded(s, held) /\ Filled(s, held.rows)

AloneOnStore == torn = {} /\ ~overlap
OneOpens ==
  /\ \A p, q \in Procs : pc[p] # 0 /\ pc[q] # 0 => cfg[p] = cfg[q]
  /\ \A p, q \in Procs : Opening(p) /\ Opening(q) => p = q
WalkInv ==
  /\ \A p \in Procs : Opening(p) =>
       /\ Left(db, cfg[p], pc[p], due[p]) /\ Done(db, cfg[p], pc[p])
       /\ Formed(db, Head(due[p]).op)
  /\ (\A p \in Procs : ~Opening(p)) => Formed(db, "check")
OpenInv ==
  \A p \in Procs : pc[p] = Opened =>
    /\ Done(db, cfg[p], Opened)
    /\ \A q \in Procs : Opening(q) => AllCalm(due[q])

Aligned == OneOpens /\ Kept(db, stored) /\ WalkInv /\ OpenInv
WalkIndInv == WalkTyped /\ (AloneOnStore => Aligned)

-----------------------------------------------------------------------------
(***************************************************************************)
(* The walk: its steps, the columns they add, the tables they look for.    *)
(***************************************************************************)
AlterNames ==
  {"store_columns", "query_session", "query_used", "query_source", "query_budget", "chunk_hash",
   "chunker_version", "lifecycle", "canonical_topic", "importance", "run_metrics", "jobs_link",
   "provenance", "chunk_provenance", "drift"}

\* The order of the walk.
LEMMA StepsAre ==
  /\ Len(Steps) = 23 /\ Opened = 24
  /\ Steps[1] = "multi_source"
  /\ Steps[2] = "embed_dim"
  /\ Steps[3] = "store_columns"
  /\ Steps[4] = "query_session"
  /\ Steps[5] = "query_used"
  /\ Steps[6] = "query_source"
  /\ Steps[7] = "query_budget"
  /\ Steps[8] = "chunk_hash"
  /\ Steps[9] = "chunker_version"
  /\ Steps[10] = "lifecycle"
  /\ Steps[11] = "canonical_topic"
  /\ Steps[12] = "importance"
  /\ Steps[13] = "run_metrics"
  /\ Steps[14] = "jobs_link"
  /\ Steps[15] = "provenance"
  /\ Steps[16] = "drift"
  /\ Steps[17] = "init_schema"
  /\ Steps[18] = "partition_vec"
  /\ Steps[19] = "vec_embed_model"
  /\ Steps[20] = "vec_owner"
  /\ Steps[21] = "static_vec"
  /\ Steps[22] = "docs_fts"
  /\ Steps[23] = "stamp"
BY DEF Steps, Alters, Rebuilds, Opened

\* The columns of each migration.
LEMMA ColumnsAre ==
  /\ DOMAIN ColumnsOf = AlterNames
  /\ ToSet(ColumnsOf["store_columns"]) = {"content", "ext_id", "kind", "origin"}
  /\ ToSet(ColumnsOf["query_session"]) = {"session_id"}
  /\ ToSet(ColumnsOf["query_used"]) = {"used"}
  /\ ToSet(ColumnsOf["query_source"]) = {"source"}
  /\ ToSet(ColumnsOf["query_budget"]) = {"budget_requested", "budget_used"}
  /\ ToSet(ColumnsOf["chunk_hash"]) = {"content_hash"}
  /\ ToSet(ColumnsOf["chunker_version"]) = {"chunker_version"}
  /\ ToSet(ColumnsOf["lifecycle"]) = {"lifecycle"}
  /\ ToSet(ColumnsOf["canonical_topic"]) = {"canonical_topic"}
  /\ ToSet(ColumnsOf["importance"]) = {"importance", "pinned", "lifecycle_changed_at"}
  /\ ToSet(ColumnsOf["run_metrics"]) = {"docs_changed", "phase_ms", "embed_cache_hits"}
  /\ ToSet(ColumnsOf["jobs_link"]) = {"job_id"}
  /\ ToSet(ColumnsOf["provenance"]) = {"source_url"}
  /\ ToSet(ColumnsOf["chunk_provenance"]) = {"anchor"}
  /\ ToSet(ColumnsOf["drift"]) = {"drift", "drift_reason"}
BY DEF ColumnsOf, AlterNames, ToSet

\* Every migration that adds columns has its place in the walk.
LEMMA PlacesAre ==
  /\ \A step \in AlterNames :
       /\ Place(step) \in 3..16
       /\ step = Steps[Place(step)] \/ (step = "chunk_provenance" /\ Place(step) = 15)
  /\ \A n \in 3..16 : Steps[n] \in AlterNames /\ Place(Steps[n]) = n
<1>1. /\ Place("store_columns") = 3
      /\ Place("query_session") = 4
      /\ Place("query_used") = 5
      /\ Place("query_source") = 6
      /\ Place("query_budget") = 7
      /\ Place("chunk_hash") = 8
      /\ Place("chunker_version") = 9
      /\ Place("lifecycle") = 10
      /\ Place("canonical_topic") = 11
      /\ Place("importance") = 12
      /\ Place("run_metrics") = 13
      /\ Place("jobs_link") = 14
      /\ Place("provenance") = 15
      /\ Place("drift") = 16
      /\ Place("chunk_provenance") = 15
  BY DEF Place
<1>2. ASSUME NEW step \in AlterNames
      PROVE  /\ Place(step) \in 3..16
             /\ step = Steps[Place(step)] \/ (step = "chunk_provenance" /\ Place(step) = 15)
  <2>1. Place(step) \in 3..16
    BY <1>1 DEF AlterNames
  <2>2. step # "chunk_provenance" => step = Steps[Place(step)]
    BY <1>1, StepsAre DEF AlterNames
  <2> QED BY <1>1, <2>1, <2>2
<1>3. ASSUME NEW n \in 3..16 PROVE Steps[n] \in AlterNames /\ Place(Steps[n]) = n
  <2>1. n \in {3, 4, 5, 6, 7, 8, 9, 10, 11, 12, 13, 14, 15, 16}
    OBVIOUS
  <2> QED BY <1>1, <2>1, StepsAre DEF AlterNames
<1> QED BY <1>2, <1>3

\* The table each of them looks for.
LEMMA TablesAre ==
  \A step \in AlterNames :
    TableOf(step) = CASE step \in {"query_session", "query_source", "query_budget"} -> "mcp_queries"
                      [] step = "query_used" -> "mcp_query_results"
                      [] step \in {"chunk_hash", "chunker_version", "chunk_provenance"} -> "chunks"
                      [] step \in {"run_metrics", "jobs_link"} -> "index_runs"
                      [] step \in {"store_columns", "lifecycle", "canonical_topic", "importance",
                                   "provenance", "drift"} -> "docs"
BY DEF AlterNames, TableOf

LEMMA TableIn == \A step \in AlterNames : TableOf(step) \in Tables
BY TablesAre DEF AlterNames, Tables

HomeOf(x) ==
  CASE x \in {"session_id", "source", "budget_requested", "budget_used"} -> "mcp_queries"
    [] x = "used" -> "mcp_query_results"
    [] x \in {"content_hash", "chunker_version", "anchor"} -> "chunks"
    [] x \in {"docs_changed", "phase_ms", "embed_cache_hits", "job_id"} -> "index_runs"
    [] OTHER -> "docs"

\* Every column is in one table.
LEMMA HomesAre ==
  \A step \in AlterNames : \A x \in ToSet(ColumnsOf[step]) : HomeOf(x) = TableOf(step)
<1> SUFFICES ASSUME NEW step \in AlterNames, NEW x \in ToSet(ColumnsOf[step])
             PROVE  HomeOf(x) = TableOf(step)
  OBVIOUS
<1> QED BY ColumnsAre, TablesAre DEF AlterNames, HomeOf

\* A column of some table is one a migration of that table adds.
LEMMA InColumns ==
  /\ \A t, x : x \in ColumnsIn(t) <=>
       \E step \in AlterNames : TableOf(step) = t /\ x \in ToSet(ColumnsOf[step])
  /\ \A x : x \in AllColumns <=> \E step \in AlterNames : x \in ToSet(ColumnsOf[step])
BY ColumnsAre DEF ColumnsIn, AllColumns

\* The columns of a migration are in its table and in no other.
LEMMA OneTable ==
  /\ \A t, x : x \in ColumnsIn(t) => HomeOf(x) = t /\ x \in AllColumns
  /\ \A x \in AllColumns : HomeOf(x) \in Tables /\ x \in ColumnsIn(HomeOf(x))
  /\ \A step \in AlterNames :
       /\ ToSet(ColumnsOf[step]) \subseteq AllColumns
       /\ ToSet(ColumnsOf[step]) \subseteq ColumnsIn(TableOf(step))
BY InColumns, HomesAre, TableIn

LEMMA SomeColumns ==
  /\ "content" \in ColumnsIn("docs") /\ "canonical_topic" \in ColumnsIn("docs")
  /\ {"kind", "content", "canonical_topic", "lifecycle"} \subseteq AllColumns
  /\ "canonical_topic" \notin ColumnsIn("chunks") /\ "content" \notin ColumnsIn("chunks")
  /\ "source_id" \notin AllColumns
  /\ Indexed \subseteq AllColumns \cup {"source_id"}
<1>1. /\ "store_columns" \in AlterNames /\ "canonical_topic" \in AlterNames
      /\ "lifecycle" \in AlterNames /\ "query_session" \in AlterNames
      /\ "query_used" \in AlterNames /\ "query_source" \in AlterNames
      /\ "chunk_hash" \in AlterNames
  BY DEF AlterNames
<1>2. /\ TableOf("store_columns") = "docs" /\ TableOf("canonical_topic") = "docs"
  BY <1>1, TablesAre
<1>3. /\ {"ext_id", "kind", "content", "canonical_topic", "lifecycle"} \subseteq AllColumns
      /\ {"session_id", "source", "used", "content_hash"} \subseteq AllColumns
  BY <1>1, InColumns, ColumnsAre
<1>4. "content" \in ColumnsIn("docs") /\ "canonical_topic" \in ColumnsIn("docs")
  BY <1>1, <1>2, InColumns, ColumnsAre
<1>5. "source_id" \notin AllColumns
  BY InColumns, ColumnsAre DEF AlterNames
<1> QED BY <1>3, <1>4, <1>5, OneTable DEF Indexed

\* Each migration names its columns in a non-empty list without repeats.
LEMMA ColumnSeqs ==
  \A step \in AlterNames :
    /\ \E n \in Nat \ {0} : DOMAIN ColumnsOf[step] = 1..n
    /\ \A i \in DOMAIN ColumnsOf[step] : ColumnsOf[step][i] \in ToSet(ColumnsOf[step])
    /\ \A i, j \in DOMAIN ColumnsOf[step] : ColumnsOf[step][i] = ColumnsOf[step][j] => i = j
<1>0. /\ ColumnsOf["store_columns"] = <<"content", "ext_id", "kind", "origin">>
      /\ ColumnsOf["query_session"] = <<"session_id">>
      /\ ColumnsOf["query_used"] = <<"used">>
      /\ ColumnsOf["query_source"] = <<"source">>
      /\ ColumnsOf["query_budget"] = <<"budget_requested", "budget_used">>
      /\ ColumnsOf["chunk_hash"] = <<"content_hash">>
      /\ ColumnsOf["chunker_version"] = <<"chunker_version">>
      /\ ColumnsOf["lifecycle"] = <<"lifecycle">>
      /\ ColumnsOf["canonical_topic"] = <<"canonical_topic">>
      /\ ColumnsOf["importance"] = <<"importance", "pinned", "lifecycle_changed_at">>
      /\ ColumnsOf["run_metrics"] = <<"docs_changed", "phase_ms", "embed_cache_hits">>
      /\ ColumnsOf["jobs_link"] = <<"job_id">>
      /\ ColumnsOf["provenance"] = <<"source_url">>
      /\ ColumnsOf["chunk_provenance"] = <<"anchor">>
      /\ ColumnsOf["drift"] = <<"drift", "drift_reason">>
  BY DEF ColumnsOf
<1>1. ASSUME NEW step \in AlterNames PROVE \E n \in Nat \ {0} : DOMAIN ColumnsOf[step] = 1..n
  <2>1. \E n \in {1, 2, 3, 4} : DOMAIN ColumnsOf[step] = 1..n
    BY <1>0 DEF AlterNames
  <2> QED BY <2>1
<1>2. ASSUME NEW step \in AlterNames,
             NEW i \in DOMAIN ColumnsOf[step], NEW j \in DOMAIN ColumnsOf[step],
             ColumnsOf[step][i] = ColumnsOf[step][j]
      PROVE  i = j
  BY <1>0, <1>2 DEF AlterNames
<1> QED BY <1>1, <1>2 DEF ToSet

\* A set of numbers that is not empty has a least one.
LEMMA LeastNat ==
  ASSUME NEW S, S \subseteq Nat, S # {}
  PROVE  \E n \in S : \A m \in S : n <= m
<1> DEFINE R == OpToRel(<, Nat)
<1>1. \E n \in S : \A m \in S : <<m, n>> \notin R
  <2>1. IsWellFoundedOn(R, Nat)
    BY NatLessThanWellFounded, Zenon
  <2> HIDE DEF R
  <2> QED BY <2>1, WFMin
<1>2. \A m, n \in Nat : <<m, n>> \in R <=> m < n
  BY DEF OpToRel
<1> HIDE DEF R
<1>3. PICK n \in S : \A m \in S : <<m, n>> \notin R
  BY <1>1
<1>4. ASSUME NEW m \in S PROVE n <= m
  <2>1. m \in Nat /\ n \in Nat /\ <<m, n>> \notin R
    BY <1>3
  <2> QED BY <2>1, <1>2
<1> QED BY <1>3, <1>4

Bounded(f, k) == \E m \in Nat : \A i \in 1..k : f[i] <= m

\* A list of numbers is bounded.
LEMMA ListsAreBounded ==
  ASSUME NEW n \in Nat, NEW f, \A i \in 1..n : f[i] \in Nat
  PROVE  Bounded(f, n)
<1> DEFINE Bad == {k \in 0..n : ~Bounded(f, k)}
<1> SUFFICES ASSUME Bad # {} PROVE FALSE
  OBVIOUS
<1>1. PICK k \in Bad : \A j \in Bad : k <= j
  <2>1. Bad \subseteq Nat
    OBVIOUS
  <2> HIDE DEF Bad
  <2> QED BY <2>1, LeastNat
<1>2. k \in 0..n /\ ~Bounded(f, k)
  OBVIOUS
<1>3. Bounded(f, 0)
  <2>1. \A i \in 1..0 : f[i] <= 0
    OBVIOUS
  <2> QED BY <2>1 DEF Bounded
<1>4. k - 1 \in 0..n /\ ~(k <= k - 1)
  BY <1>2, <1>3
<1>5. Bounded(f, k - 1)
  BY <1>1, <1>4
<1>6. PICK m \in Nat : \A i \in 1..(k - 1) : f[i] <= m
  BY <1>5 DEF Bounded
<1>7. f[k] \in Nat
  BY <1>2, <1>4
<1>8. ASSUME NEW i \in 1..k PROVE f[i] <= m + f[k]
  <2>1. CASE i = k
    BY <1>7, <2>1
  <2>2. CASE i # k
    <3>1. i \in 1..(k - 1) /\ i \in 1..n
      BY <1>2, <2>2
    <3>2. f[i] <= m /\ f[i] \in Nat
      BY <3>1, <1>6
    <3> QED BY <3>2, <1>7
  <2> QED BY <2>1, <2>2
<1>9. m + f[k] \in Nat
  BY <1>7
<1> QED BY <1>2, <1>8, <1>9 DEF Bounded

LEMMA DocsAreBounded == \E n \in Nat : \A d \in Docs : d <= n
<1>1. PICK n \in Nat : ExistsBijection(1..n, Docs)
  BY DocsAreIds, FS_NatBijection
<1>2. PICK f \in [1..n -> Docs] : \A d \in Docs : \E i \in 1..n : f[i] = d
  BY <1>1 DEF ExistsBijection, Bijection, Surjection
<1>3. \A i \in 1..n : f[i] \in Nat
  BY <1>2, DocsAreIds
<1>4. Bounded(f, n)
  BY <1>3, ListsAreBounded
<1> QED BY <1>2, <1>4 DEF Bounded

\* Of several docs one is the newest.
LEMMA NewestIn ==
  ASSUME NEW ds \in SUBSET Docs, ds # {}
  PROVE  Newest(ds) \in ds
<1> DEFINE Bounds == {n \in Nat : \A d \in ds : d <= n}
<1>1. PICK n \in Bounds : \A m \in Bounds : n <= m
  BY DocsAreBounded, LeastNat
<1>2. n \in Nat /\ \A d \in ds : d <= n /\ d \in Nat
  BY DocsAreIds
<1>3. n \in ds
  <2>1. CASE n = 0
    BY <1>2, <2>1
  <2>2. CASE n # 0
    <3>1. n - 1 \in Nat /\ n - 1 \notin Bounds
      BY <1>1, <1>2, <2>2
    <3>2. PICK d \in ds : ~(d <= n - 1)
      BY <3>1
    <3> QED BY <1>2, <3>2
  <2> QED BY <2>1, <2>2
<1>4. \E d \in ds : \A e \in ds : e <= d
  BY <1>2, <1>3
<1> QED BY <1>4 DEF Newest

\* What the schema script leaves as the columns.
LEMMA WithTablesIs ==
  ASSUME NEW s
  PROVE  \A x : x \in WithTables(s) <=>
           \/ x \in s.cols \/ \E u \in Tables \ s.tables : x \in ColumnsIn(u)
           \/ "docs" \notin s.tables /\ x = "source_id"
<1> DEFINE new == UNION {ColumnsIn(u) : u \in Tables \ s.tables}
           id == IF Has(s, "docs") THEN {} ELSE {"source_id"}
<1>1. \A x : x \in new <=> \E u \in Tables \ s.tables : x \in ColumnsIn(u)
  OBVIOUS
<1>2. \A x : x \in id <=> "docs" \notin s.tables /\ x = "source_id"
  BY DEF Has
<1>3. WithTables(s) = s.cols \cup new \cup id
  BY DEF WithTables
<1> HIDE DEF new, id
<1> QED BY <1>1, <1>2, <1>3

-----------------------------------------------------------------------------
(***************************************************************************)
(* What each statement changes, and what it leaves alone.                  *)
(***************************************************************************)
SameSchema(s, t) == t.tables = s.tables /\ t.cols = s.cols /\ t.unique = s.unique
SameRows(s, t) == t.rows = s.rows /\ t.owned = s.owned /\ t.topic = s.topic /\ t.live = s.live
SameCopy(s, t) == t.scratch = s.scratch /\ t.scratchRows = s.scratchRows
SameVecs(s, t) == t.vecDocs = s.vecDocs /\ t.vecChunks = s.vecChunks
SameText(s, t) == t.chunks = s.chunks /\ t.tags = s.tags /\ t.fts = s.fts
SameStatic(s, t) == t.staticDocs = s.staticDocs /\ t.staticChunks = s.staticChunks

\* Counting a doc once more in docs_fts keeps it a count.
LEMMA CountsStay ==
  ASSUME NEW f \in [Docs -> Nat], NEW ds
  PROVE  [d \in Docs |-> IF d \in ds THEN f[d] + 1 ELSE f[d]] \in [Docs -> Nat]
<1>1. \A d \in Docs : f[d] \in Nat /\ f[d] + 1 \in Nat
  OBVIOUS
<1> QED BY <1>1

Started(s, t) ==
  /\ SameSchema(s, t) /\ SameRows(s, t) /\ SameVecs(s, t) /\ SameText(s, t) /\ SameStatic(s, t)
  /\ t.stamp = s.stamp
  /\ t.scratch = "made" /\ t.scratchRows = s.scratchRows

LEMMA CreateCopyIs ==
  ASSUME NEW s \in Store, NEW c \in Configs, NEW st \in Statements, st.op = "create docs_new",
         NEW t, t = After(s, st, c)
  PROVE  t \in Store /\ Started(s, t)
BY DEF After, Store,
   SameSchema, SameRows, SameCopy, SameVecs, SameText, SameStatic, Started

Copied(s, t) ==
  /\ SameSchema(s, t) /\ SameRows(s, t) /\ SameVecs(s, t) /\ SameText(s, t) /\ SameStatic(s, t)
  /\ t.stamp = s.stamp
  /\ t.scratch = "copied" /\ t.scratchRows = s.rows

LEMMA CopyIs ==
  ASSUME NEW s \in Store, NEW c \in Configs, NEW st \in Statements, st.op = "copy docs",
         NEW t, t = After(s, st, c)
  PROVE  t \in Store /\ Copied(s, t)
BY DEF After, Store,
   SameSchema, SameRows, SameCopy, SameVecs, SameText, SameStatic, Copied

Dropped(s, t) ==
  /\ SameCopy(s, t) /\ SameVecs(s, t) /\ SameText(s, t) /\ SameStatic(s, t)
  /\ t.stamp = s.stamp
  /\ t.tables = s.tables \ {"docs"} /\ t.cols = s.cols \ (ColumnsIn("docs") \cup {"source_id"})
  /\ ~t.unique /\ t.rows = {} /\ t.owned = {} /\ t.topic = {} /\ t.live = {}

LEMMA DropIs ==
  ASSUME NEW s \in Store, NEW c \in Configs, NEW st \in Statements, st.op = "drop docs",
         NEW t, t = After(s, st, c)
  PROVE  t \in Store /\ Dropped(s, t)
BY DEF After, Store,
   SameSchema, SameRows, SameCopy, SameVecs, SameText, SameStatic, Dropped

Renamed(s, t) ==
  /\ SameVecs(s, t) /\ SameText(s, t) /\ SameStatic(s, t) /\ t.stamp = s.stamp
  /\ t.tables = s.tables \cup {"docs"} /\ t.cols = s.cols \cup {"source_id"} /\ t.unique = s.unique
  /\ t.rows = s.scratchRows /\ t.live = s.scratchRows /\ t.owned = s.owned /\ t.topic = s.topic
  /\ t.scratch = None /\ t.scratchRows = {}

LEMMA RenameIs ==
  ASSUME NEW s \in Store, NEW c \in Configs, NEW st \in Statements, st.op = "rename docs_new",
         NEW t, t = After(s, st, c)
  PROVE  t \in Store /\ Renamed(s, t)
BY DEF After, Store, Tables,
   SameSchema, SameRows, SameCopy, SameVecs, SameText, SameStatic, Renamed

Wiped(s, t) ==
  /\ SameRows(s, t) /\ SameCopy(s, t) /\ SameStatic(s, t) /\ t.stamp = s.stamp
  /\ t.tables = s.tables \ {"chunks"} /\ t.cols = s.cols \ ColumnsIn("chunks")
     /\ t.unique = s.unique
  /\ t.vecDocs = NoTable /\ t.vecChunks = NoTable
  /\ t.chunks = {} /\ t.tags = s.tags /\ t.fts = s.fts

LEMMA WipeIs ==
  ASSUME NEW s \in Store, NEW c \in Configs, NEW st \in Statements, st.op = "wipe",
         NEW t, t = After(s, st, c)
  PROVE  t \in Store /\ Wiped(s, t)
BY DEF After, Store, NoTable, NoVec, VecTable, Layouts,
   SameSchema, SameRows, SameCopy, SameVecs, SameText, SameStatic, Wiped

Added(s, t, st) ==
  /\ SameRows(s, t) /\ SameCopy(s, t) /\ SameVecs(s, t) /\ SameText(s, t) /\ SameStatic(s, t)
  /\ t.stamp = s.stamp
  /\ t.tables = s.tables /\ t.cols = s.cols \cup st.arg /\ t.unique = s.unique

LEMMA AddIs ==
  ASSUME NEW s \in Store, NEW c \in Configs, NEW st \in Statements, st.op = "add",
         NEW t, t = After(s, st, c)
  PROVE  t \in Store /\ Added(s, t, st)
BY DEF After, Store, Statements, Plain,
   SameSchema, SameRows, SameCopy, SameVecs, SameText, SameStatic, Added

TopicsFilled(s, t) ==
  /\ SameCopy(s, t) /\ SameVecs(s, t) /\ SameText(s, t) /\ SameStatic(s, t)
  /\ t.stamp = s.stamp
  /\ t.tables = s.tables /\ t.cols = s.cols /\ t.unique
  /\ t.rows = s.rows /\ t.owned = s.owned /\ t.topic = s.owned
  /\ \A d, e \in t.owned \cap t.live : d = e

LEMMA BackfillIs ==
  ASSUME NEW s \in Store, NEW c \in Configs, NEW st \in Statements, st.op = "backfill topics",
         NEW t, t = After(s, st, c)
  PROVE  t \in Store /\ TopicsFilled(s, t)
<1> DEFINE rivals == s.owned \cap s.live
           live == IF rivals = {} THEN s.live ELSE (s.live \ rivals) \cup {Newest(rivals)}
<1>1. live \in SUBSET Docs /\ \A d, e \in s.owned \cap live : d = e
  <2>1. s.owned \in SUBSET Docs /\ s.live \in SUBSET Docs
    BY DEF Store
  <2>2. rivals # {} => Newest(rivals) \in rivals
    BY <2>1, NewestIn
  <2>3. CASE rivals = {}
    BY <2>1, <2>3
  <2>4. CASE rivals # {}
    <3>1. s.owned \cap live \subseteq {Newest(rivals)}
      BY <2>4
    <3> QED BY <2>1, <2>2, <2>4, <3>1
  <2> QED BY <2>3, <2>4
<1>2. t = [s EXCEPT !.topic = s.owned, !.unique = TRUE, !.live = live]
  BY DEF After, Backfilled
<1> HIDE DEF live
<1> QED BY <1>1, <1>2 DEF Store, SameCopy, SameVecs, SameText, SameStatic, TopicsFilled

SchemaMade(s, t, c) ==
  /\ SameRows(s, t) /\ SameCopy(s, t) /\ SameText(s, t) /\ SameStatic(s, t)
  /\ t.stamp = s.stamp
  /\ t.tables = Tables /\ t.cols = WithTables(s) /\ t.unique
  /\ t.vecDocs = CreatedIfMissing(s.vecDocs, "owner", c)
  /\ t.vecChunks = CreatedIfMissing(s.vecChunks, "model", c)

LEMMA SchemaIs ==
  ASSUME NEW s \in Store, NEW c \in Configs, NEW st \in Statements, st.op = "schema",
         NEW t, t = After(s, st, c)
  PROVE  t \in Store /\ SchemaMade(s, t, c)
<1>1. WithTables(s) \in SUBSET (AllColumns \cup {"source_id"})
  <2>1. s.cols \subseteq AllColumns \cup {"source_id"}
    BY DEF Store
  <2> QED BY <2>1, WithTablesIs, OneTable
<1>2. /\ CreatedIfMissing(s.vecDocs, "owner", c) \in VecTable
      /\ CreatedIfMissing(s.vecChunks, "model", c) \in VecTable
  BY ConfigsAreSet DEF CreatedIfMissing, Store, VecTable, Layouts, NoVec
<1>3. t = [s EXCEPT !.tables = Tables, !.cols = WithTables(s), !.unique = TRUE,
                    !.vecDocs = CreatedIfMissing(s.vecDocs, "owner", c),
                    !.vecChunks = CreatedIfMissing(s.vecChunks, "model", c)]
  BY DEF After, Initialised, Store
<1>4. Tables \in SUBSET Tables
  OBVIOUS
<1> DEFINE cols == WithTables(s)
           vd == CreatedIfMissing(s.vecDocs, "owner", c)
           vc == CreatedIfMissing(s.vecChunks, "model", c)
<1> HIDE DEF cols, vd, vc
<1>5. /\ t = [s EXCEPT !.tables = Tables, !.cols = cols, !.unique = TRUE,
                       !.vecDocs = vd, !.vecChunks = vc]
      /\ cols \in SUBSET (AllColumns \cup {"source_id"}) /\ vd \in VecTable /\ vc \in VecTable
  BY <1>1, <1>2, <1>3 DEF cols, vd, vc
<1>6. /\ t \in Store /\ SameRows(s, t) /\ SameCopy(s, t) /\ SameText(s, t) /\ SameStatic(s, t)
      /\ t.stamp = s.stamp /\ t.tables = Tables /\ t.cols = cols /\ t.unique
      /\ t.vecDocs = vd /\ t.vecChunks = vc
  BY <1>4, <1>5 DEF Store, SameRows, SameCopy, SameText, SameStatic
<1> QED BY <1>6 DEF cols, vd, vc, SchemaMade

Relaid(s, t, st, c) ==
  /\ SameSchema(s, t) /\ SameRows(s, t) /\ SameCopy(s, t) /\ SameText(s, t) /\ SameStatic(s, t)
  /\ t.stamp = s.stamp
  /\ t.vecDocs.layout = st.arg /\ t.vecDocs.dim = c.dim
  /\ st.arg # "owner" => t.vecChunks.layout = st.arg /\ t.vecChunks.dim = c.dim
  /\ st.arg = "owner" => t.vecChunks = s.vecChunks
  /\ \A d \in s.rows : /\ t.vecDocs.rows[d] = s.vecDocs.rows[d]
                       /\ d \in s.chunks => t.vecChunks.rows[d] = s.vecChunks.rows[d]

LEMMA RebuildIs ==
  ASSUME NEW s \in Store, NEW c \in Configs, NEW st \in Statements, st.op = "rebuild",
         NEW t, t = After(s, st, c)
  PROVE  t \in Store /\ Relaid(s, t, st, c)
<1> DEFINE docsTable == [layout |-> st.arg, dim |-> c.dim,
                         rows |-> IF st.arg = "partitioned" THEN Joined(s.vecDocs, s.rows)
                                  ELSE s.vecDocs.rows]
           chunkTable == [layout |-> st.arg, dim |-> c.dim,
                          rows |-> IF st.arg = "partitioned"
                                   THEN Joined(s.vecChunks, s.chunks \cap s.rows)
                                   ELSE s.vecChunks.rows]
           chunks == IF st.arg = "owner" THEN s.vecChunks ELSE chunkTable
<1>1. /\ s.vecDocs \in VecTable /\ s.vecChunks \in VecTable
      /\ s.vecDocs.rows \in [Docs -> Models \cup {None}]
      /\ s.vecChunks.rows \in [Docs -> Models \cup {None}]
      /\ s.rows \in SUBSET Docs
  BY DEF Store, VecTable
<1>2. st.arg \in Layouts /\ c.dim \in Nat
  BY ConfigsAreSet DEF Statements, Plain
<1>3. /\ Joined(s.vecDocs, s.rows) \in [Docs -> Models \cup {None}]
      /\ Joined(s.vecChunks, s.chunks \cap s.rows) \in [Docs -> Models \cup {None}]
  BY <1>1 DEF Joined
<1>4. docsTable \in VecTable /\ chunkTable \in VecTable /\ chunks \in VecTable
  BY <1>1, <1>2, <1>3 DEF VecTable
<1>5. \A d \in s.rows : docsTable.rows[d] = s.vecDocs.rows[d]
  BY <1>1 DEF Joined
<1>6. \A d \in s.rows : d \in s.chunks => chunks.rows[d] = s.vecChunks.rows[d]
  BY <1>1 DEF Joined
<1>7. t = [s EXCEPT !.vecDocs = docsTable, !.vecChunks = chunks]
  BY DEF After, Rebuilt, Store
<1>8. /\ docsTable.layout = st.arg /\ docsTable.dim = c.dim
      /\ st.arg # "owner" => chunks.layout = st.arg /\ chunks.dim = c.dim
      /\ st.arg = "owner" => chunks = s.vecChunks
  OBVIOUS
<1> HIDE DEF docsTable, chunks
<1>9. t.vecDocs = docsTable /\ t.vecChunks = chunks
  BY <1>7 DEF Store
<1> QED BY <1>4, <1>5, <1>6, <1>7, <1>8, <1>9
        DEF Store, SameSchema, SameRows, SameCopy, SameText, SameStatic, Relaid

StaticDocsDropped(s, t) ==
  /\ SameSchema(s, t) /\ SameRows(s, t) /\ SameCopy(s, t) /\ SameVecs(s, t) /\ SameText(s, t)
  /\ t.stamp = s.stamp
  /\ t.staticDocs = 0 /\ t.staticChunks = s.staticChunks

LEMMA DropStaticDocsIs ==
  ASSUME NEW s \in Store, NEW c \in Configs, NEW st \in Statements, st.op = "drop static docs",
         NEW t, t = After(s, st, c)
  PROVE  t \in Store /\ StaticDocsDropped(s, t)
BY DEF After, Store,
   SameSchema, SameRows, SameCopy, SameVecs, SameText, SameStatic, StaticDocsDropped

StaticChunksDropped(s, t) ==
  /\ SameSchema(s, t) /\ SameRows(s, t) /\ SameCopy(s, t) /\ SameVecs(s, t) /\ SameText(s, t)
  /\ t.stamp = s.stamp
  /\ t.staticChunks = 0 /\ t.staticDocs = s.staticDocs

LEMMA DropStaticChunksIs ==
  ASSUME NEW s \in Store, NEW c \in Configs, NEW st \in Statements, st.op = "drop static chunks",
         NEW t, t = After(s, st, c)
  PROVE  t \in Store /\ StaticChunksDropped(s, t)
BY DEF After, Store,
   SameSchema, SameRows, SameCopy, SameVecs, SameText, SameStatic, StaticChunksDropped

StaticDocsMade(s, t, c) ==
  /\ SameSchema(s, t) /\ SameRows(s, t) /\ SameCopy(s, t) /\ SameVecs(s, t) /\ SameText(s, t)
  /\ t.stamp = s.stamp
  /\ t.staticDocs = (IF s.staticDocs = 0 THEN c.static ELSE s.staticDocs)
  /\ t.staticChunks = s.staticChunks

LEMMA CreateStaticDocsIs ==
  ASSUME NEW s \in Store, NEW c \in Configs, NEW st \in Statements, st.op = "create static docs",
         NEW t, t = After(s, st, c)
  PROVE  t \in Store /\ StaticDocsMade(s, t, c)
BY ConfigsAreSet DEF After, Store,
   SameSchema, SameRows, SameCopy, SameVecs, SameText, SameStatic, StaticDocsMade

StaticChunksMade(s, t, c) ==
  /\ SameSchema(s, t) /\ SameRows(s, t) /\ SameCopy(s, t) /\ SameVecs(s, t) /\ SameText(s, t)
  /\ t.stamp = s.stamp
  /\ t.staticChunks = (IF s.staticChunks = 0 THEN c.static ELSE s.staticChunks)
  /\ t.staticDocs = s.staticDocs

LEMMA CreateStaticChunksIs ==
  ASSUME NEW s \in Store, NEW c \in Configs, NEW st \in Statements, st.op = "create static chunks",
         NEW t, t = After(s, st, c)
  PROVE  t \in Store /\ StaticChunksMade(s, t, c)
BY ConfigsAreSet DEF After, Store,
   SameSchema, SameRows, SameCopy, SameVecs, SameText, SameStatic, StaticChunksMade

FilledAndPurged(s, t, st) ==
  /\ SameSchema(s, t) /\ SameRows(s, t) /\ SameCopy(s, t) /\ SameStatic(s, t)
  /\ t.stamp = s.stamp
  /\ t.vecDocs = s.vecDocs
  /\ t.chunks = s.chunks \cap s.rows /\ t.tags = s.tags \cap s.rows
  /\ t.vecChunks.layout = s.vecChunks.layout /\ t.vecChunks.dim = s.vecChunks.dim
  /\ \A d \in s.rows : t.vecChunks.rows[d] = s.vecChunks.rows[d]
  /\ s.vecChunks.rows = NoVec => t.vecChunks.rows = NoVec
  /\ \A d \in Docs : t.fts[d] = IF d \in st.arg THEN s.fts[d] + 1 ELSE s.fts[d]

LEMMA FillIs ==
  ASSUME NEW s \in Store, NEW c \in Configs, NEW st \in Statements, st.op = "fill and purge",
         NEW t, t = After(s, st, c)
  PROVE  t \in Store /\ FilledAndPurged(s, t, st)
<1> DEFINE fts == [d \in Docs |-> IF d \in st.arg THEN s.fts[d] + 1 ELSE s.fts[d]]
           vecs == [s.vecChunks EXCEPT
                      !.rows = [d \in Docs |-> IF d \in s.chunks \ s.rows THEN None
                                               ELSE s.vecChunks.rows[d]]]
<1>1. s.vecChunks \in VecTable /\ s.rows \in SUBSET Docs /\ s.fts \in [Docs -> Nat]
  BY DEF Store
<1>2. /\ fts \in [Docs -> Nat] /\ vecs \in VecTable
      /\ vecs.layout = s.vecChunks.layout /\ vecs.dim = s.vecChunks.dim
      /\ \A d \in s.rows : vecs.rows[d] = s.vecChunks.rows[d]
      /\ s.vecChunks.rows = NoVec => vecs.rows = NoVec
  <2> DEFINE rows == [d \in Docs |-> IF d \in s.chunks \ s.rows THEN None
                                   ELSE s.vecChunks.rows[d]]
  <2>1. s.vecChunks.rows \in [Docs -> Models \cup {None}]
    BY <1>1 DEF VecTable
  <2>2. rows \in [Docs -> Models \cup {None}] /\ \A d \in s.rows : rows[d] = s.vecChunks.rows[d]
    BY <1>1, <2>1
  <2>3. vecs = [s.vecChunks EXCEPT !.rows = rows]
    OBVIOUS
  <2>4. fts \in [Docs -> Nat]
    BY <1>1, CountsStay
  <2>6. s.vecChunks.rows = NoVec => rows = NoVec
    BY DEF NoVec
  <2> HIDE DEF rows, vecs, fts
  <2>5. vecs \in VecTable /\ vecs.layout = s.vecChunks.layout /\ vecs.dim = s.vecChunks.dim
        /\ vecs.rows = rows
    BY <1>1, <2>2, <2>3 DEF VecTable
  <2> QED BY <2>2, <2>4, <2>5, <2>6
<1>3. t = [s EXCEPT !.fts = fts, !.tags = s.tags \cap s.rows, !.chunks = s.chunks \cap s.rows,
                    !.vecChunks = vecs]
  BY DEF After, Purged, Store
<1>4. \A d \in Docs : fts[d] = IF d \in st.arg THEN s.fts[d] + 1 ELSE s.fts[d]
  OBVIOUS
<1> HIDE DEF fts, vecs
<1>5. s.tags \cap s.rows \in SUBSET Docs /\ s.chunks \cap s.rows \in SUBSET Docs
  BY <1>1
<1>6. /\ t \in Store /\ t.fts = fts /\ t.tags = s.tags \cap s.rows
      /\ t.chunks = s.chunks \cap s.rows /\ t.vecChunks = vecs
      /\ t.vecDocs = s.vecDocs /\ t.stamp = s.stamp
      /\ SameSchema(s, t) /\ SameRows(s, t) /\ SameCopy(s, t) /\ SameStatic(s, t)
  <2>0. fts \in [Docs -> Nat] /\ vecs \in VecTable
    BY <1>2
  <2>1. t \in Store
    BY <1>3, <1>5, <2>0 DEF Store
  <2>2. /\ t.fts = fts /\ t.tags = s.tags \cap s.rows
        /\ t.chunks = s.chunks \cap s.rows /\ t.vecChunks = vecs
        /\ t.vecDocs = s.vecDocs /\ t.stamp = s.stamp
    BY <1>3 DEF Store
  <2>3. SameSchema(s, t) /\ SameRows(s, t) /\ SameCopy(s, t) /\ SameStatic(s, t)
    BY <1>3 DEF Store, SameSchema, SameRows, SameCopy, SameStatic
  <2> QED BY <2>1, <2>2, <2>3
<1> QED BY <1>2, <1>4, <1>6 DEF Store, SameSchema, SameRows, SameCopy, SameStatic, FilledAndPurged

Stamped(s, t, c) ==
  /\ SameSchema(s, t) /\ SameRows(s, t) /\ SameCopy(s, t) /\ SameVecs(s, t) /\ SameText(s, t)
  /\ SameStatic(s, t)
  /\ t.stamp = c.model

LEMMA StampIs ==
  ASSUME NEW s \in Store, NEW c \in Configs, NEW st \in Statements, st.op = "stamp",
         NEW t, t = After(s, st, c)
  PROVE  t \in Store /\ Stamped(s, t, c)
BY ConfigsAreSet DEF After, Store,
   SameSchema, SameRows, SameCopy, SameVecs, SameText, SameStatic, Stamped

-----------------------------------------------------------------------------
(***************************************************************************)
(* What a migration decides to run.                                        *)
(***************************************************************************)
\* A statement is one of the four kinds.
LEMMA StatementIs ==
  \A st \in Statements :
    /\ st.op \in Plain \cup {"add", "rebuild", "fill and purge"}
    /\ st.op = "add" => st.arg \subseteq AllColumns
    /\ st.op = "fill and purge" => st.arg \subseteq Docs
    /\ st.op = "rebuild" => st.arg \in Layouts
BY DEF Statements, Plain

\* What the statements the migrations decide on are.
LEMMA StmtIs ==
  /\ \A op, arg : Stmt(op, arg).op = op /\ Stmt(op, arg).arg = arg
  /\ \A op \in Plain : Stmt(op, {}) \in Statements
  /\ \A xs : xs \subseteq AllColumns => Stmt("add", xs) \in Statements
  /\ \A xs : xs \subseteq Docs => Stmt("fill and purge", xs) \in Statements
  /\ \A l : l \in Layouts \ {None} => Stmt("rebuild", l) \in Statements
BY DEF Stmt, Statements

LEMMA CheckIs == Check = Stmt("check", {}) /\ Check \in Statements /\ Check.op = "check"
BY StmtIs DEF Check, Plain

\* What each step of the walk decides, by its place.
LEMMA DecideIs ==
  ASSUME NEW s, NEW c
  PROVE  /\ Decide(s, Steps[1], c) = MultiSource(s)
         /\ Decide(s, Steps[2], c) = IF Wipes(s, c) THEN <<Stmt("wipe", {})>> ELSE << >>
         /\ \A n \in 3..16 : n \notin {11, 15, 16} =>
              Decide(s, Steps[n], c) = AddColumns(s, Steps[n])
         /\ Decide(s, Steps[11], c) = CanonicalTopic(s)
         /\ Decide(s, Steps[15], c) = Provenance(s)
         /\ Decide(s, Steps[16], c) = Drift(s)
         /\ Decide(s, Steps[17], c) = <<Stmt("schema", {})>>
         /\ Decide(s, Steps[18], c) = PartitionVec(s)
         /\ Decide(s, Steps[19], c) = VecEmbedModel(s)
         /\ Decide(s, Steps[20], c) = VecOwner(s)
         /\ Decide(s, Steps[21], c) = StaticVec(s, c)
         /\ Decide(s, Steps[22], c) = <<Stmt("fill and purge", Unfilled(s))>>
         /\ Decide(s, Steps[23], c) = Stamp(s, c)
<1>1. ASSUME NEW n \in 3..16, n \notin {11, 15, 16}
      PROVE  Decide(s, Steps[n], c) = AddColumns(s, Steps[n])
  <2>1. n \in {3, 4, 5, 6, 7, 8, 9, 10, 12, 13, 14}
    BY <1>1
  <2>2. Steps[n] \in AlterNames \ {"canonical_topic", "provenance", "drift"}
    BY <2>1, StepsAre DEF AlterNames
  <2> QED BY <2>2 DEF Decide, AlterNames
<1> QED BY <1>1, StepsAre DEF Decide

\* AddColumns names an ALTER per column, or nothing when all are there.
LEMMA AddColumnsIs ==
  ASSUME NEW s, NEW step \in AlterNames, NEW w, w = AddColumns(s, step)
  PROVE  /\ w \in Seq(Statements)
         /\ w = << >> =>
              (TableOf(step) \in s.tables => ToSet(ColumnsOf[step]) \subseteq s.cols)
         /\ w # << >> =>
              /\ TableOf(step) \in s.tables
              /\ DOMAIN w = DOMAIN ColumnsOf[step]
              /\ \A i \in DOMAIN w :
                   w[i] = Stmt("add", {ColumnsOf[step][i]} \ s.cols)
<1>1. PICK n \in Nat \ {0} : DOMAIN ColumnsOf[step] = 1..n
  BY ColumnSeqs
<1>2. \A i \in 1..n : {ColumnsOf[step][i]} \ s.cols \subseteq AllColumns
  BY <1>1, ColumnSeqs, OneTable
<1> DEFINE adds == [i \in 1..n |-> Stmt("add", {ColumnsOf[step][i]} \ s.cols)]
<1>3. \A i \in 1..n : adds[i] \in Statements
  BY <1>2, StmtIs
<1>4. adds \in Seq(Statements) /\ adds # << >>
  <2>1. n \in Nat /\ 1 \in 1..n
    OBVIOUS
  <2>2. adds \in [1..n -> Statements] /\ DOMAIN adds = 1..n
    BY <1>3
  <2> HIDE DEF adds
  <2>3. adds \in Seq(Statements)
    BY <2>1, <2>2, Zenon, SeqDef
  <2>4. adds # << >>
    BY <2>1, <2>2
  <2> QED BY <2>3, <2>4
<1>5. w = IF Has(s, TableOf(step)) /\ Missing(s, step) # {} THEN adds ELSE << >>
  BY <1>1 DEF AddColumns
<1>6. << >> \in Seq(Statements)
  OBVIOUS
<1> HIDE DEF adds
<1> QED BY <1>1, <1>4, <1>5, <1>6 DEF Has, Missing, adds

\* A migration decides on statements.
LEMMA DecideTyped ==
  ASSUME NEW s \in Store, NEW c \in Configs, NEW n \in 1..23
  PROVE  Decide(s, Steps[n], c) \in Seq(Statements)
<1>0. \A op \in Plain : Stmt(op, {}) \in Statements
  BY StmtIs
<1>1. /\ Stmt("create docs_new", {}) \in Statements /\ Stmt("copy docs", {}) \in Statements
      /\ Stmt("drop docs", {}) \in Statements /\ Stmt("rename docs_new", {}) \in Statements
      /\ Stmt("wipe", {}) \in Statements /\ Stmt("schema", {}) \in Statements
      /\ Stmt("backfill topics", {}) \in Statements /\ Stmt("stamp", {}) \in Statements
      /\ Stmt("drop static docs", {}) \in Statements
      /\ Stmt("drop static chunks", {}) \in Statements
      /\ Stmt("create static docs", {}) \in Statements
      /\ Stmt("create static chunks", {}) \in Statements
  BY <1>0 DEF Plain
<1>2. /\ \A x \in Statements : <<x>> \in Seq(Statements)
      /\ \A x, y \in Statements : <<x, y>> \in Seq(Statements)
      /\ \A x, y, z, w \in Statements : <<x, y, z, w>> \in Seq(Statements)
  <2>1. ASSUME NEW x \in Statements, NEW y \in Statements, NEW z \in Statements,
               NEW w \in Statements
        PROVE  /\ <<x>> \in Seq(Statements) /\ <<x, y>> \in Seq(Statements)
               /\ <<x, y, z, w>> \in Seq(Statements)
    OBVIOUS
  <2> QED BY <2>1
<1>3. << >> \in Seq(Statements)
  OBVIOUS
<1>4. CASE n = 1
  <2> DEFINE q == <<Stmt("create docs_new", {}), Stmt("copy docs", {}),
                    Stmt("drop docs", {}), Stmt("rename docs_new", {})>>
  <2>1. q \in Seq(Statements)
    BY <1>1, <1>2
  <2>2. Decide(s, Steps[n], c) \in {q, << >>}
    BY <1>4, DecideIs DEF MultiSource
  <2> HIDE DEF q
  <2> QED BY <1>3, <2>1, <2>2
<1>5. CASE n = 2
  <2>1. Decide(s, Steps[n], c) \in {<<Stmt("wipe", {})>>, << >>}
    BY <1>5, DecideIs
  <2> QED BY <1>1, <1>2, <1>3, <2>1
<1>6. CASE n \in 3..16 /\ n \notin {11, 15, 16}
  <2>1. Decide(s, Steps[n], c) = AddColumns(s, Steps[n]) /\ Steps[n] \in AlterNames
    BY <1>6, DecideIs, PlacesAre
  <2> QED BY <2>1, AddColumnsIs
<1>7. CASE n = 11
  <2>1. Stmt("add", {"canonical_topic"}) \in Statements
    BY StmtIs, SomeColumns
  <2>2. Decide(s, Steps[n], c) \in
          {<<Stmt("add", {"canonical_topic"}), Stmt("backfill topics", {})>>, << >>}
    BY <1>7, DecideIs DEF CanonicalTopic
  <2>3. <<Stmt("add", {"canonical_topic"}), Stmt("backfill topics", {})>> \in Seq(Statements)
    BY <1>1, <1>2, <2>1
  <2> QED BY <1>3, <2>2, <2>3
<1>8. CASE n = 15
  <2>1. /\ Missing(s, "provenance") \subseteq AllColumns
        /\ Missing(s, "chunk_provenance") \subseteq AllColumns
    BY OneTable DEF Missing, AlterNames
  <2> DEFINE todo == Missing(s, "provenance") \cup
                       (IF Has(s, "chunks") THEN Missing(s, "chunk_provenance") ELSE {})
  <2>2. todo \subseteq AllColumns
    BY <2>1
  <2> HIDE DEF todo
  <2>3. Stmt("add", todo) \in Statements
    BY <2>2, StmtIs
  <2>4. AddTogether(s, todo) \in Seq(Statements)
    BY <1>2, <1>3, <2>3 DEF AddTogether
  <2> QED BY <1>8, <2>4, DecideIs DEF Provenance, todo
<1>9. CASE n = 16
  <2>1. Missing(s, "drift") \subseteq AllColumns
    BY OneTable DEF Missing, AlterNames
  <2>2. Stmt("add", Missing(s, "drift")) \in Statements
    BY <2>1, StmtIs
  <2> QED BY <1>2, <1>3, <1>9, <2>2, DecideIs DEF Drift, AddTogether
<1>10. CASE n = 17
  <2>1. <<Stmt("schema", {})>> \in Seq(Statements)
    BY <1>1, <1>2
  <2>2. Decide(s, Steps[n], c) = <<Stmt("schema", {})>>
    BY <1>10, DecideIs
  <2> QED BY <2>1, <2>2
<1>11. CASE n \in {18, 19, 20}
  <2>1. /\ Stmt("rebuild", "partitioned") \in Statements
        /\ Stmt("rebuild", "model") \in Statements /\ Stmt("rebuild", "owner") \in Statements
    <3>1. {"partitioned", "model", "owner"} \subseteq Layouts \ {None}
      BY DEF Layouts, None
    <3> QED BY <3>1, StmtIs
  <2>2. Decide(s, Steps[n], c) \in {<<Stmt("rebuild", "partitioned")>>,
          <<Stmt("rebuild", "model")>>, <<Stmt("rebuild", "owner")>>, << >>}
    <3>1. Decide(s, Steps[n], c) \in {PartitionVec(s), VecEmbedModel(s), VecOwner(s)}
      BY <1>11, DecideIs
    <3> QED BY <3>1 DEF PartitionVec, VecEmbedModel, VecOwner, RebuildTo
  <2> QED BY <1>2, <1>3, <2>1, <2>2
<1>12. CASE n = 21
  <2> DEFINE d2 == <<Stmt("drop static docs", {}), Stmt("drop static chunks", {})>>
             c2 == <<Stmt("create static docs", {}), Stmt("create static chunks", {})>>
  <2>1. d2 \in Seq(Statements) /\ c2 \in Seq(Statements)
    BY <1>1, <1>2
  <2>2. StaticVec(s, c) \in {<< >>, << >> \o c2, d2 \o c2}
    BY DEF StaticVec
  <2> HIDE DEF d2, c2
  <2>3. << >> \o c2 \in Seq(Statements) /\ d2 \o c2 \in Seq(Statements)
    BY <2>1
  <2>4. Decide(s, Steps[n], c) = StaticVec(s, c)
    BY <1>12, DecideIs
  <2> QED BY <1>3, <2>2, <2>3, <2>4
<1>13. CASE n = 22
  <2>1. Unfilled(s) \subseteq Docs
    BY DEF Unfilled, Store
  <2>2. Stmt("fill and purge", Unfilled(s)) \in Statements
    BY <2>1, StmtIs
  <2> QED BY <1>2, <1>13, <2>2, DecideIs
<1>14. CASE n = 23
  BY <1>1, <1>2, <1>3, <1>14, DecideIs DEF Stamp
<1> QED BY <1>4, <1>5, <1>6, <1>7, <1>8, <1>9, <1>10, <1>11, <1>12, <1>13, <1>14

-----------------------------------------------------------------------------
(***************************************************************************)
(* Every step of a process keeps the store well typed.                     *)
(***************************************************************************)
\* A statement SQLite accepts leaves a well-typed store.
LEMMA AfterTyped ==
  ASSUME NEW s, StoreTyped(s), NEW c \in Configs, NEW st \in Statements,
         st.op # "check", ~Fails(s, st, c), NEW t, t = After(s, st, c)
  PROVE  StoreTyped(t)
<1>0. /\ s \in Store /\ s.topic \subseteq s.owned /\ s.owned \subseteq s.rows
      /\ "docs" \notin s.tables => s.rows = {} /\ "content" \notin s.cols
  BY DEF StoreTyped
<1>1. "content" \in ColumnsIn("docs") /\ "content" \notin ColumnsIn("chunks") /\ "docs" \in Tables
  BY SomeColumns DEF Tables
<1>2. SUFFICES /\ t \in Store /\ t.topic \subseteq t.owned /\ t.owned \subseteq t.rows
               /\ "docs" \notin t.tables => t.rows = {} /\ "content" \notin t.cols
  BY DEF StoreTyped
<1>3. CASE st.op \in {"create docs_new", "copy docs"}
  <2>1. t \in Store /\ SameSchema(s, t) /\ SameRows(s, t)
    BY <1>0, <1>3, CreateCopyIs, CopyIs DEF Started, Copied
  <2> QED BY <1>0, <2>1 DEF SameSchema, SameRows
<1>4. CASE st.op \in {"drop static docs", "drop static chunks"}
  <2>1. t \in Store /\ SameSchema(s, t) /\ SameRows(s, t)
    BY <1>0, <1>4, DropStaticDocsIs, DropStaticChunksIs
       DEF StaticDocsDropped, StaticChunksDropped
  <2> QED BY <1>0, <2>1 DEF SameSchema, SameRows
<1>5. CASE st.op \in {"create static docs", "create static chunks"}
  <2>1. t \in Store /\ SameSchema(s, t) /\ SameRows(s, t)
    BY <1>0, <1>5, CreateStaticDocsIs, CreateStaticChunksIs
       DEF StaticDocsMade, StaticChunksMade
  <2> QED BY <1>0, <2>1 DEF SameSchema, SameRows
<1>6. CASE st.op \in {"fill and purge", "stamp", "rebuild"}
  <2>1. t \in Store /\ SameSchema(s, t) /\ SameRows(s, t)
    BY <1>0, <1>6, FillIs, StampIs, RebuildIs DEF FilledAndPurged, Stamped, Relaid
  <2> QED BY <1>0, <2>1 DEF SameSchema, SameRows
<1>7. CASE st.op = "drop docs"
  <2>1. t \in Store /\ Dropped(s, t)
    BY <1>0, <1>7, DropIs
  <2> QED BY <1>1, <2>1 DEF Dropped
<1>8. CASE st.op = "rename docs_new"
  <2>1. s.rows = {}
    BY <1>0, <1>8 DEF Fails, Has
  <2>2. t \in Store /\ Renamed(s, t)
    BY <1>0, <1>8, RenameIs
  <2> QED BY <1>0, <2>1, <2>2 DEF Renamed
<1>9. CASE st.op = "wipe"
  <2>1. t \in Store /\ Wiped(s, t)
    BY <1>0, <1>9, WipeIs
  <2> QED BY <1>0, <2>1 DEF Wiped, SameRows
<1>10. CASE st.op = "add"
  <2>1. "docs" \notin s.tables => "content" \notin st.arg
    BY <1>1, <1>10 DEF Fails
  <2>2. t \in Store /\ Added(s, t, st)
    BY <1>0, <1>10, AddIs
  <2> QED BY <1>0, <2>1, <2>2 DEF Added, SameRows
<1>11. CASE st.op = "backfill topics"
  <2>1. t \in Store /\ TopicsFilled(s, t)
    BY <1>0, <1>11, BackfillIs
  <2> QED BY <1>0, <2>1 DEF TopicsFilled
<1>12. CASE st.op = "schema"
  <2>1. t \in Store /\ SchemaMade(s, t, c)
    BY <1>0, <1>12, SchemaIs
  <2> QED BY <1>0, <1>1, <2>1 DEF SchemaMade, SameRows
<1>13. /\ st.op \in Plain \cup {"add", "rebuild", "fill and purge"}
  BY StatementIs
<1> QED BY <1>3, <1>4, <1>5, <1>6, <1>7, <1>8, <1>9, <1>10, <1>11, <1>12, <1>13 DEF Plain

\* So does a write of an open process,
LEMMA WriteTyped ==
  ASSUME NEW p \in Procs, NEW d \in Docs, NEW owned \in BOOLEAN,
         WalkTyped, Write(p, d, owned)
  PROVE  StoreTyped(db')
<1>1. /\ db \in Store /\ db.topic \subseteq db.owned /\ db.owned \subseteq db.rows
      /\ "docs" \notin db.tables => db.rows = {} /\ "content" \notin db.cols
  BY DEF WalkTyped, StoreTyped
<1>2. "docs" \in db.tables
  BY <1>1, SomeColumns DEF Write
<1>3. cfg[p].model \in Models
  BY ConfigsAreSet, StepsAre DEF WalkTyped, ProcsTyped, Write
<1> DEFINE own == IF owned THEN db.owned \cup {d} ELSE db.owned
           topics == IF owned THEN db.topic \cup {d} ELSE db.topic
           fts == [db.fts EXCEPT ![d] = 1]
           vd == [db.vecDocs EXCEPT !.rows[d] = cfg[p].model]
           vc == [db.vecChunks EXCEPT !.rows[d] = cfg[p].model]
<1>4. /\ own \in SUBSET Docs /\ topics \in SUBSET Docs /\ topics \subseteq own
      /\ own \subseteq db.rows \cup {d}
  BY <1>1 DEF Store
<1>5. fts \in [Docs -> Nat]
  BY <1>1 DEF Store
<1>6. vd \in VecTable /\ vc \in VecTable
  BY <1>1, <1>3 DEF Store, VecTable
<1>7. db' = [db EXCEPT !.rows = db.rows \cup {d}, !.live = db.live \cup {d},
                       !.owned = own, !.topic = topics,
                       !.chunks = db.chunks \cup {d}, !.tags = db.tags \cup {d}, !.fts = fts,
                       !.vecDocs = vd, !.vecChunks = vc]
  BY <1>1 DEF Write, Store
<1> HIDE DEF own, topics, fts, vd, vc
<1>8. db' \in Store
  BY <1>1, <1>4, <1>5, <1>6, <1>7 DEF Store
<1>9. /\ db'.topic = topics /\ db'.owned = own /\ db'.rows = db.rows \cup {d}
      /\ db'.tables = db.tables
  BY <1>1, <1>7 DEF Store
<1> QED BY <1>2, <1>4, <1>8, <1>9 DEF StoreTyped

\* and a rebuild of the vector tables.
LEMMA RebuildTyped ==
  ASSUME NEW p \in Procs, WalkTyped, Rebuild(p)
  PROVE  StoreTyped(db')
<1>1. db \in Store /\ StoreTyped(db)
  BY DEF WalkTyped, StoreTyped
<1>2. cfg[p].model \in Models /\ cfg[p].dim \in Nat
  <2>1. pc[p] = Opened
    BY DEF Rebuild
  <2>2. pc[p] # 0
    BY <2>1, StepsAre
  <2>3. cfg[p] \in Configs
    BY <2>2 DEF WalkTyped, ProcsTyped
  <2> QED BY <2>3, ConfigsAreSet
<1> DEFINE made(ds) == [d \in Docs |-> IF d \in ds THEN cfg[p].model ELSE None]
           vd == [layout |-> "owner", dim |-> cfg[p].dim, rows |-> made(db.rows)]
           vc == [layout |-> "model", dim |-> cfg[p].dim, rows |-> made(db.chunks)]
<1>3. vd \in VecTable /\ vc \in VecTable
  BY <1>2 DEF VecTable, Layouts
<1>4. db' = [db EXCEPT !.vecDocs = vd, !.vecChunks = vc, !.stamp = cfg[p].model]
  BY DEF Rebuild
<1> HIDE DEF vd, vc
<1>5. db' \in Store
  BY <1>1, <1>2, <1>3, <1>4 DEF Store
<1>6. SameRows(db, db') /\ SameSchema(db, db')
  BY <1>1, <1>4 DEF Store, SameRows, SameSchema
<1> QED BY <1>1, <1>5, <1>6 DEF StoreTyped, SameRows, SameSchema

\* Where a process is: not running, in one of the 23 steps, or open.
LEMMA OpeningIs ==
  ASSUME NEW p \in Procs, ProcsTyped
  PROVE  /\ Opening(p) <=> pc[p] \in 1..23
         /\ pc[p] \in 0..24 /\ (pc[p] = Opened <=> pc[p] = 24)
         /\ pc[p] = 0 \/ Opening(p) \/ pc[p] = Opened
BY StepsAre DEF Opening, ProcsTyped

\* A process in the walk has something due.
LEMMA HeadIs ==
  ASSUME NEW p \in Procs, ProcsTyped, Opening(p)
  PROVE  /\ due[p] \in Seq(Statements) /\ due[p] # << >>
         /\ Head(due[p]) \in Statements /\ Tail(due[p]) \in Seq(Statements)
         /\ cfg[p] \in Configs
<1>1. due[p] \in Seq(Statements) /\ due[p] # << >>
  BY DEF ProcsTyped
<1>2. pc[p] # 0
  BY OpeningIs
<1>3. cfg[p] \in Configs
  BY <1>2 DEF ProcsTyped
<1> QED BY <1>1, <1>3

\* Advance moves one process, and only when nothing is left of its step.
LEMMA AdvanceIs ==
  ASSUME NEW p \in Procs, ProcsTyped, Opening(p), NEW rest \in Seq(Statements),
         Advance(p, rest), cfg' = cfg
  PROVE  /\ ProcsTyped'
         /\ \A q \in Procs : q # p => pc'[q] = pc[q] /\ due'[q] = due[q]
         /\ rest = << >> => /\ pc'[p] = pc[p] + 1
                            /\ pc[p] = 23 => due'[p] = << >>
                            /\ pc[p] # 23 => due'[p] = <<Check>>
         /\ rest # << >> => pc'[p] = pc[p] /\ due'[p] = rest
<1> DEFINE n == IF rest = << >> THEN pc[p] + 1 ELSE pc[p]
           w == IF rest # << >> THEN rest ELSE IF pc[p] = 23 THEN << >> ELSE <<Check>>
<1>1. pc[p] \in 1..23 /\ Len(Steps) = 23 /\ Opened = 24
  BY OpeningIs, StepsAre
<1>2. pc \in [Procs -> 0..24] /\ due \in [Procs -> Seq(Statements)]
        /\ cfg \in [Procs -> Configs \cup {NoConfig}]
  BY <1>1 DEF ProcsTyped
<1>3. <<Check>> \in Seq(Statements) /\ << >> \in Seq(Statements) /\ <<Check>> # << >>
  BY CheckIs
<1>4. n \in 1..24 /\ w \in Seq(Statements) /\ (n \in 1..23 => w # << >>)
  <2>1. CASE rest = << >>
    <3>1. /\ n = pc[p] + 1
          /\ pc[p] = 23 => w = << >>
          /\ pc[p] # 23 => w = <<Check>>
      BY <2>1
    <3> HIDE DEF n, w
    <3>2. CASE pc[p] = 23
      BY <1>3, <3>1, <3>2
    <3>3. CASE pc[p] # 23
      <4>1. n \in 1..24
        <5>1. \A k \in 1..23 : k + 1 \in 1..24
          OBVIOUS
        <5> QED BY <1>1, <3>1, <5>1, Zenon
      <4>2. w = <<Check>>
        BY <3>1, <3>3
      <4> QED BY <1>3, <4>1, <4>2
    <3> QED BY <3>2, <3>3
  <2>2. CASE rest # << >>
    <3>1. n = pc[p] /\ w = rest
      BY <2>2
    <3> HIDE DEF n, w
    <3> QED BY <1>1, <2>2, <3>1
  <2> QED BY <2>1, <2>2
<1>5. pc' = [pc EXCEPT ![p] = n] /\ due' = [due EXCEPT ![p] = w]
  BY <1>1 DEF Advance
<1>6. /\ rest = << >> => n = pc[p] + 1 /\ (pc[p] = 23 => w = << >>) /\ (pc[p] # 23 => w = <<Check>>)
      /\ rest # << >> => n = pc[p] /\ w = rest
  OBVIOUS
<1> HIDE DEF n, w
<1>7. /\ pc' \in [Procs -> 0..24] /\ due' \in [Procs -> Seq(Statements)]
      /\ pc'[p] = n /\ due'[p] = w
      /\ \A q \in Procs : q # p => pc'[q] = pc[q] /\ due'[q] = due[q]
  BY <1>2, <1>4, <1>5
<1>8. \A q \in Procs : pc'[q] \in 1..23 => due'[q] # << >>
  <2>1. \A q \in Procs : pc[q] \in 1..23 => due[q] # << >>
    BY <1>1 DEF ProcsTyped, Opening
  <2> QED BY <1>4, <1>7, <2>1
<1>9. \A q \in Procs : pc'[q] # 0 => cfg'[q] \in Configs
  <2> SUFFICES ASSUME NEW q \in Procs, pc'[q] # 0 PROVE cfg[q] \in Configs
    OBVIOUS
  <2>1. pc[q] # 0
    <3>1. CASE q = p
      <4>1. \A k \in 1..23 : k # 0
        OBVIOUS
      <4> QED BY <1>1, <3>1, <4>1, Zenon
    <3>2. CASE q # p
      BY <1>7, <3>2
    <3> QED BY <3>1, <3>2
  <2> QED BY <2>1 DEF ProcsTyped
<1>10. ProcsTyped'
  BY <1>1, <1>2, <1>7, <1>8, <1>9 DEF ProcsTyped, Opening
<1> QED BY <1>6, <1>7, <1>10

\* A process that leaves outside HalfDone tears nothing.
LEMMA LeaveIs ==
  ASSUME NEW p \in Procs, ProcsTyped, Leave(p)
  PROVE  /\ ProcsTyped' /\ pc'[p] = 0
         /\ \A q \in Procs : q # p => pc'[q] = pc[q] /\ due'[q] = due[q] /\ cfg'[q] = cfg[q]
         /\ torn' = {} =>
              torn = {} /\ (Opening(p) => Head(due[p]).op \notin HalfDone)
<1>1. Opened = 24 /\ Len(Steps) = 23
  BY StepsAre
<1>2. pc \in [Procs -> 0..24] /\ due \in [Procs -> Seq(Statements)]
        /\ cfg \in [Procs -> Configs \cup {NoConfig}]
  BY <1>1 DEF ProcsTyped
<1>3. << >> \in Seq(Statements)
  OBVIOUS
<1>4. /\ pc' = [pc EXCEPT ![p] = 0] /\ due' = [due EXCEPT ![p] = << >>]
      /\ cfg' = [cfg EXCEPT ![p] = NoConfig]
  BY DEF Leave
<1>5. /\ pc' \in [Procs -> 0..24] /\ due' \in [Procs -> Seq(Statements)]
      /\ cfg' \in [Procs -> Configs \cup {NoConfig}] /\ pc'[p] = 0
      /\ \A q \in Procs : q # p => pc'[q] = pc[q] /\ due'[q] = due[q] /\ cfg'[q] = cfg[q]
  BY <1>2, <1>3, <1>4
<1>6. /\ \A q \in Procs : pc'[q] \in 1..23 => due'[q] # << >>
      /\ \A q \in Procs : pc'[q] # 0 => cfg'[q] \in Configs
  <2>1. /\ \A q \in Procs : pc[q] \in 1..23 => due[q] # << >>
        /\ \A q \in Procs : pc[q] # 0 => cfg[q] \in Configs
    BY <1>1 DEF ProcsTyped, Opening
  <2> SUFFICES ASSUME NEW q \in Procs
               PROVE  /\ pc'[q] \in 1..23 => due'[q] # << >>
                      /\ pc'[q] # 0 => cfg'[q] \in Configs
    OBVIOUS
  <2>2. CASE q = p
    BY <1>5, <2>2
  <2>3. CASE q # p
    BY <1>5, <2>1, <2>3
  <2> QED BY <2>2, <2>3
<1>7. ProcsTyped'
  BY <1>1, <1>5, <1>6 DEF ProcsTyped, Opening
<1>8. torn' = IF Opening(p) /\ Head(due[p]).op \in HalfDone THEN torn \cup {Step(p)} ELSE torn
  BY DEF Leave
<1>9. torn' = {} => torn = {} /\ (Opening(p) => Head(due[p]).op \notin HalfDone)
  BY <1>8
<1> QED BY <1>5, <1>7, <1>9

\* A process that starts is at the first check.
LEMMA OpenIs ==
  ASSUME NEW p \in Procs, NEW c \in Configs, ProcsTyped, Open(p, c)
  PROVE  /\ ProcsTyped' /\ pc[p] = 0 /\ pc'[p] = 1 /\ due'[p] = <<Check>> /\ cfg'[p] = c
         /\ \A q \in Procs : q # p => pc'[q] = pc[q] /\ due'[q] = due[q] /\ cfg'[q] = cfg[q]
<1>1. Opened = 24 /\ Len(Steps) = 23
  BY StepsAre
<1>2. pc \in [Procs -> 0..24] /\ due \in [Procs -> Seq(Statements)]
        /\ cfg \in [Procs -> Configs \cup {NoConfig}]
  BY <1>1 DEF ProcsTyped
<1>3. <<Check>> \in Seq(Statements) /\ <<Check>> # << >>
  BY CheckIs
<1>4. /\ pc[p] = 0 /\ pc' = [pc EXCEPT ![p] = 1] /\ due' = [due EXCEPT ![p] = <<Check>>]
      /\ cfg' = [cfg EXCEPT ![p] = c]
  BY DEF Open
<1>5. /\ pc' \in [Procs -> 0..24] /\ due' \in [Procs -> Seq(Statements)]
      /\ cfg' \in [Procs -> Configs \cup {NoConfig}]
      /\ pc'[p] = 1 /\ due'[p] = <<Check>> /\ cfg'[p] = c
      /\ \A q \in Procs : q # p => pc'[q] = pc[q] /\ due'[q] = due[q] /\ cfg'[q] = cfg[q]
  BY <1>2, <1>3, <1>4
<1>6. /\ \A q \in Procs : pc'[q] \in 1..23 => due'[q] # << >>
      /\ \A q \in Procs : pc'[q] # 0 => cfg'[q] \in Configs
  <2>1. /\ \A q \in Procs : pc[q] \in 1..23 => due[q] # << >>
        /\ \A q \in Procs : pc[q] # 0 => cfg[q] \in Configs
    BY <1>1 DEF ProcsTyped, Opening
  <2> QED BY <1>3, <1>5, <2>1
<1>7. ProcsTyped'
  BY <1>1, <1>5, <1>6 DEF ProcsTyped, Opening
<1> QED BY <1>4, <1>5, <1>7

LEMMA SameProcs ==
  ASSUME ProcsTyped, UNCHANGED <<pc, due, cfg>>
  PROVE  ProcsTyped'
BY DEF ProcsTyped, Opening

LEMMA DecidesTyped ==
  ASSUME NEW p \in Procs, WalkTyped, Decides(p)
  PROVE  WalkTyped' /\ Decide(db, Step(p), cfg[p]) \in Seq(Statements)
<1>1. /\ Opening(p) /\ Advance(p, Decide(db, Step(p), cfg[p])) /\ db' = db /\ cfg' = cfg
  BY DEF Decides
<1>2. pc[p] \in 1..23 /\ cfg[p] \in Configs /\ db \in Store
  BY <1>1, OpeningIs, HeadIs DEF WalkTyped, StoreTyped
<1>3. Decide(db, Step(p), cfg[p]) \in Seq(Statements)
  BY <1>2, DecideTyped DEF Step
<1>4. ProcsTyped'
  BY <1>1, <1>3, AdvanceIs DEF WalkTyped
<1>5. StoreTyped(db)'
  BY <1>1 DEF WalkTyped, StoreTyped
<1> QED BY <1>3, <1>4, <1>5 DEF WalkTyped

LEMMA RunsTyped ==
  ASSUME NEW p \in Procs, WalkTyped, Runs(p)
  PROVE  WalkTyped'
<1>1. /\ Opening(p) /\ Head(due[p]) # Check /\ ~Fails(db, Head(due[p]), cfg[p])
      /\ db' = After(db, Head(due[p]), cfg[p]) /\ Advance(p, Tail(due[p])) /\ cfg' = cfg
  BY DEF Runs
<1>2. cfg[p] \in Configs /\ Head(due[p]) \in Statements /\ Tail(due[p]) \in Seq(Statements)
  BY <1>1, HeadIs DEF WalkTyped
<1>3. Head(due[p]).op # "check"
  BY <1>1, <1>2, CheckIs, StmtIs DEF Statements, Stmt, Plain
<1>4. StoreTyped(db')
  BY <1>1, <1>2, <1>3, AfterTyped DEF WalkTyped
<1>5. ProcsTyped'
  BY <1>1, <1>2, AdvanceIs DEF WalkTyped
<1> QED BY <1>4, <1>5 DEF WalkTyped, StoreTyped

-----------------------------------------------------------------------------
(***************************************************************************)
(* The statements of a step, one after the other.                          *)
(***************************************************************************)
\* The first of a literal list and the rest of it.
LEMMA HeadOf ==
  /\ \A x : <<x>> # << >> /\ Head(<<x>>) = x /\ Tail(<<x>>) = << >>
  /\ \A x, y : <<x, y>> # << >> /\ Head(<<x, y>>) = x /\ Tail(<<x, y>>) = <<y>>
  /\ \A x, y, z : <<x, y, z>> # << >> /\ Head(<<x, y, z>>) = x /\ Tail(<<x, y, z>>) = <<y, z>>
  /\ \A x, y, z, u : <<x, y, z, u>> # << >> /\ Head(<<x, y, z, u>>) = x
     /\ Tail(<<x, y, z, u>>) = <<y, z, u>>
OBVIOUS

\* The first statement of each list, and the list that is left after it.
LEMMA ListsAre ==
  /\ ToCreate # << >> /\ Head(ToCreate) = Stmt("create docs_new", {}) /\ Tail(ToCreate) = ToCopy
  /\ ToCopy # << >> /\ Head(ToCopy) = Stmt("copy docs", {}) /\ Tail(ToCopy) = ToDrop
  /\ ToDrop # << >> /\ Head(ToDrop) = Stmt("drop docs", {}) /\ Tail(ToDrop) = ToRename
  /\ ToRename # << >> /\ Head(ToRename) = Stmt("rename docs_new", {}) /\ Tail(ToRename) = << >>
  /\ ToWipe # << >> /\ Head(ToWipe) = Stmt("wipe", {}) /\ Tail(ToWipe) = << >>
  /\ ToAddTopic # << >> /\ Head(ToAddTopic) = Stmt("add", {"canonical_topic"})
     /\ Tail(ToAddTopic) = ToBackfill
  /\ ToBackfill # << >> /\ Head(ToBackfill) = Stmt("backfill topics", {})
     /\ Tail(ToBackfill) = << >>
  /\ ToSchema # << >> /\ Head(ToSchema) = Stmt("schema", {}) /\ Tail(ToSchema) = << >>
  /\ ToDropDocs # << >> /\ Head(ToDropDocs) = Stmt("drop static docs", {})
     /\ Tail(ToDropDocs) = ToDropChunks
  /\ ToDropChunks # << >> /\ Head(ToDropChunks) = Stmt("drop static chunks", {})
     /\ Tail(ToDropChunks) = ToMakeDocs
  /\ ToMakeDocs # << >> /\ Head(ToMakeDocs) = Stmt("create static docs", {})
     /\ Tail(ToMakeDocs) = ToMakeChunks
  /\ ToMakeChunks # << >> /\ Head(ToMakeChunks) = Stmt("create static chunks", {})
     /\ Tail(ToMakeChunks) = << >>
  /\ ToStamp # << >> /\ Head(ToStamp) = Stmt("stamp", {}) /\ Tail(ToStamp) = << >>
  /\ \A l : ToRelay(l) # << >> /\ Head(ToRelay(l)) = Stmt("rebuild", l) /\ Tail(ToRelay(l)) = << >>
  /\ \A ds : ToFill(ds) # << >> /\ Head(ToFill(ds)) = Stmt("fill and purge", ds)
     /\ Tail(ToFill(ds)) = << >>
<1>1. ToCreate # << >> /\ Head(ToCreate) = Stmt("create docs_new", {}) /\ Tail(ToCreate) = ToCopy
  <2> DEFINE x == Stmt("create docs_new", {})
             y == Stmt("copy docs", {})
             z == Stmt("drop docs", {})
             u == Stmt("rename docs_new", {})
  <2>1. ToCreate = <<x, y, z, u>> /\ ToCopy = <<y, z, u>>
    BY DEF ToCreate, ToCopy
  <2> HIDE DEF x, y, z, u
  <2>2. ToCreate # << >> /\ Head(ToCreate) = x /\ Tail(ToCreate) = ToCopy
    BY <2>1, HeadOf
  <2> QED BY <2>2 DEF x
<1>2. ToCopy # << >> /\ Head(ToCopy) = Stmt("copy docs", {}) /\ Tail(ToCopy) = ToDrop
  <2> DEFINE x == Stmt("copy docs", {})
             y == Stmt("drop docs", {})
             z == Stmt("rename docs_new", {})
  <2>1. ToCopy = <<x, y, z>> /\ ToDrop = <<y, z>>
    BY DEF ToCopy, ToDrop
  <2> HIDE DEF x, y, z
  <2>2. ToCopy # << >> /\ Head(ToCopy) = x /\ Tail(ToCopy) = ToDrop
    BY <2>1, HeadOf
  <2> QED BY <2>2 DEF x
<1>3. ToDrop # << >> /\ Head(ToDrop) = Stmt("drop docs", {}) /\ Tail(ToDrop) = ToRename
  BY HeadOf DEF ToDrop, ToRename
<1>4. ToRename # << >> /\ Head(ToRename) = Stmt("rename docs_new", {}) /\ Tail(ToRename) = << >>
  BY HeadOf DEF ToRename
<1>5. ToWipe # << >> /\ Head(ToWipe) = Stmt("wipe", {}) /\ Tail(ToWipe) = << >>
  BY HeadOf DEF ToWipe
<1>6. ToAddTopic # << >> /\ Head(ToAddTopic) = Stmt("add", {"canonical_topic"})
        /\ Tail(ToAddTopic) = ToBackfill
  BY HeadOf DEF ToAddTopic, ToBackfill
<1>7. ToBackfill # << >> /\ Head(ToBackfill) = Stmt("backfill topics", {})
        /\ Tail(ToBackfill) = << >>
  BY HeadOf DEF ToBackfill
<1>8. ToSchema # << >> /\ Head(ToSchema) = Stmt("schema", {}) /\ Tail(ToSchema) = << >>
  BY HeadOf DEF ToSchema
<1>9. ToDropDocs # << >> /\ Head(ToDropDocs) = Stmt("drop static docs", {})
        /\ Tail(ToDropDocs) = ToDropChunks
  <2> DEFINE x == Stmt("drop static docs", {})
             y == Stmt("drop static chunks", {})
             z == Stmt("create static docs", {})
             u == Stmt("create static chunks", {})
  <2>1. ToDropDocs = <<x, y, z, u>> /\ ToDropChunks = <<y, z, u>>
    BY DEF ToDropDocs, ToDropChunks
  <2> HIDE DEF x, y, z, u
  <2>2. ToDropDocs # << >> /\ Head(ToDropDocs) = x /\ Tail(ToDropDocs) = ToDropChunks
    BY <2>1, HeadOf
  <2> QED BY <2>2 DEF x
<1>10. ToDropChunks # << >> /\ Head(ToDropChunks) = Stmt("drop static chunks", {})
         /\ Tail(ToDropChunks) = ToMakeDocs
  <2> DEFINE x == Stmt("drop static chunks", {})
             y == Stmt("create static docs", {})
             z == Stmt("create static chunks", {})
  <2>1. ToDropChunks = <<x, y, z>> /\ ToMakeDocs = <<y, z>>
    BY DEF ToDropChunks, ToMakeDocs
  <2> HIDE DEF x, y, z
  <2>2. ToDropChunks # << >> /\ Head(ToDropChunks) = x /\ Tail(ToDropChunks) = ToMakeDocs
    BY <2>1, HeadOf
  <2> QED BY <2>2 DEF x
<1>11. ToMakeDocs # << >> /\ Head(ToMakeDocs) = Stmt("create static docs", {})
         /\ Tail(ToMakeDocs) = ToMakeChunks
  BY HeadOf DEF ToMakeDocs, ToMakeChunks
<1>12. ToMakeChunks # << >> /\ Head(ToMakeChunks) = Stmt("create static chunks", {})
         /\ Tail(ToMakeChunks) = << >>
  BY HeadOf DEF ToMakeChunks
<1>13. ToStamp # << >> /\ Head(ToStamp) = Stmt("stamp", {}) /\ Tail(ToStamp) = << >>
  BY HeadOf DEF ToStamp
<1>14. \A x : ToRelay(x) # << >> /\ Head(ToRelay(x)) = Stmt("rebuild", x)
         /\ Tail(ToRelay(x)) = << >>
  BY HeadOf DEF ToRelay
<1>15. \A x : ToFill(x) # << >> /\ Head(ToFill(x)) = Stmt("fill and purge", x)
         /\ Tail(ToFill(x)) = << >>
  BY HeadOf DEF ToFill
<1> QED BY <1>1, <1>2, <1>3, <1>4, <1>5, <1>6, <1>7, <1>8, <1>9, <1>10, <1>11, <1>12, <1>13,
      <1>14, <1>15

\* What the first statement of each list does.
LEMMA OpsAre ==
  /\ Head(ToCreate).op = "create docs_new"
  /\ Head(ToCopy).op = "copy docs"
  /\ Head(ToDrop).op = "drop docs"
  /\ Head(ToRename).op = "rename docs_new"
  /\ Head(ToWipe).op = "wipe"
  /\ Head(ToAddTopic).op = "add"
  /\ Head(ToBackfill).op = "backfill topics"
  /\ Head(ToSchema).op = "schema"
  /\ Head(ToDropDocs).op = "drop static docs"
  /\ Head(ToDropChunks).op = "drop static chunks"
  /\ Head(ToMakeDocs).op = "create static docs"
  /\ Head(ToMakeChunks).op = "create static chunks"
  /\ Head(ToStamp).op = "stamp"
  /\ \A l : Head(ToRelay(l)).op = "rebuild" /\ Head(ToRelay(l)).arg = l
  /\ \A ds : Head(ToFill(ds)).op = "fill and purge" /\ Head(ToFill(ds)).arg = ds
  /\ Head(ToAddTopic).arg = {"canonical_topic"}
<1>1. Head(ToCreate).op = "create docs_new"
  BY ListsAre, StmtIs
<1>2. Head(ToCopy).op = "copy docs"
  BY ListsAre, StmtIs
<1>3. Head(ToDrop).op = "drop docs"
  BY ListsAre, StmtIs
<1>4. Head(ToRename).op = "rename docs_new"
  BY ListsAre, StmtIs
<1>5. Head(ToWipe).op = "wipe"
  BY ListsAre, StmtIs
<1>6. Head(ToAddTopic).op = "add"
  BY ListsAre, StmtIs
<1>7. Head(ToBackfill).op = "backfill topics"
  BY ListsAre, StmtIs
<1>8. Head(ToSchema).op = "schema"
  BY ListsAre, StmtIs
<1>9. Head(ToDropDocs).op = "drop static docs"
  BY ListsAre, StmtIs
<1>10. Head(ToDropChunks).op = "drop static chunks"
  BY ListsAre, StmtIs
<1>11. Head(ToMakeDocs).op = "create static docs"
  BY ListsAre, StmtIs
<1>12. Head(ToMakeChunks).op = "create static chunks"
  BY ListsAre, StmtIs
<1>13. Head(ToStamp).op = "stamp"
  BY ListsAre, StmtIs
<1>14. ASSUME NEW x PROVE Head(ToRelay(x)).op = "rebuild" /\ Head(ToRelay(x)).arg = x
  <2>1. Head(ToRelay(x)) = Stmt("rebuild", x)
    BY ListsAre
  <2> QED BY <2>1, StmtIs
<1>15. ASSUME NEW x PROVE Head(ToFill(x)).op = "fill and purge" /\ Head(ToFill(x)).arg = x
  <2>1. Head(ToFill(x)) = Stmt("fill and purge", x)
    BY ListsAre
  <2> QED BY <2>1, StmtIs
<1>16. Head(ToAddTopic).arg = {"canonical_topic"}
  BY ListsAre, StmtIs
<1> QED BY <1>1, <1>2, <1>3, <1>4, <1>5, <1>6, <1>7, <1>8, <1>9, <1>10, <1>11, <1>12, <1>13,
      <1>14, <1>15, <1>16

\* Only what a step adds to Done has to be shown at its end.
LEMMA DoneNext ==
  ASSUME NEW s, NEW c, NEW n \in 1..23, Done(s, c, n)
  PROVE  /\ n = 1 /\ SourceDone(s, 2) => Done(s, c, 2)
         /\ n = 2 /\ DimDone(s, c, 3) => Done(s, c, 3)
         /\ n \in 3..16 /\ AltersDone(s, n + 1) => Done(s, c, n + 1)
         /\ n = 17 /\ SchemaDone(s, 18) /\ LayoutDone(s, 18) => Done(s, c, 18)
         /\ n \in 18..20 /\ LayoutDone(s, n + 1) => Done(s, c, n + 1)
         /\ n = 21 /\ StaticDone(s, c, 22) => Done(s, c, 22)
         /\ n = 22 /\ TextDone(s, 23) => Done(s, c, 23)
         /\ n = 23 => Done(s, c, 24)
<1> USE DEF Done
<1>0. \A step \in AlterNames : Place(step) \in 3..16
  BY PlacesAre
<1>1. ASSUME n # 2, n \notin 3..16 PROVE AltersDone(s, n + 1)
  BY <1>0, <1>1, ColumnsAre DEF AltersDone
<1>1a. ASSUME n = 2 PROVE AltersDone(s, 3)
  BY <1>0, <1>1a, ColumnsAre DEF AltersDone
<1>2. n # 1 => SourceDone(s, n + 1)
  BY DEF SourceDone
<1>3. n # 2 => DimDone(s, c, n + 1)
  BY DEF DimDone
<1>4. n # 17 => SchemaDone(s, n + 1)
  BY DEF SchemaDone
<1>5. n \notin 17..20 => LayoutDone(s, n + 1)
  BY DEF LayoutDone
<1>6. n # 21 => StaticDone(s, c, n + 1)
  BY DEF StaticDone
<1>7. n # 22 => TextDone(s, n + 1)
  BY DEF TextDone
<1> QED BY <1>1, <1>1a, <1>2, <1>3, <1>4, <1>5, <1>6, <1>7

\* A step whose columns have no table, or are all there.
LEMMA AlterIsDone ==
  ASSUME NEW s, NEW c, NEW n \in 3..16, Done(s, c, n),
         TableOf(Steps[n]) \in s.tables => ToSet(ColumnsOf[Steps[n]]) \subseteq s.cols,
         n = 15 /\ "chunks" \in s.tables => ToSet(ColumnsOf["chunk_provenance"]) \subseteq s.cols
  PROVE  Done(s, c, n + 1)
<1>1. AltersDone(s, n + 1)
  <2> SUFFICES ASSUME NEW step \in AlterNames, Place(step) < n + 1, TableOf(step) \in s.tables
               PROVE  ToSet(ColumnsOf[step]) \subseteq s.cols
    BY ColumnsAre DEF AltersDone
  <2>1. CASE Place(step) < n
    BY <2>1, ColumnsAre DEF Done, AltersDone
  <2>2. CASE Place(step) = n
    <3>1. step = Steps[n] \/ (step = "chunk_provenance" /\ n = 15)
      BY <2>2, PlacesAre
    <3>2. TableOf("chunk_provenance") = "chunks"
      BY TablesAre DEF AlterNames
    <3> QED BY <3>1, <3>2
  <2> QED BY <2>1, <2>2, PlacesAre
<1> QED BY <1>1, DoneNext

-----------------------------------------------------------------------------
(***************************************************************************)
(* A migration that decides has something to run, or is done.              *)
(***************************************************************************)
CopyOps == {"copy docs", "drop docs", "rename docs_new"}

\* A store between two migrations is as the statements outside the copy need it.
LEMMA FormedStays ==
  ASSUME NEW s, Formed(s, "check"), NEW op, op \notin CopyOps
  PROVE  Formed(s, op)
BY DEF Formed, CopyFormed, CopyOps

LEMMA HeadAt ==
  ASSUME NEW w \in Seq(Statements), w # << >>
  PROVE  1 \in DOMAIN w /\ Head(w) = w[1]
OBVIOUS

\* Columns added one by one, or in one transaction.
LEMMA AddingIs ==
  ASSUME NEW s, NEW c, NEW n \in 3..16, n # 11, NEW w \in Seq(Statements), w # << >>,
         Adding(s, n, w), Done(s, c, n), Formed(s, "check")
  PROVE  Onward(s, c, n, w)
<1>1. Head(w).op = "add"
  BY HeadAt DEF Adding
<1>2. Formed(s, Head(w).op)
  BY <1>1, FormedStays DEF CopyOps
<1>3. Left(s, c, n, w)
  BY DEF Left
<1> QED BY <1>2, <1>3 DEF Onward

\* The migrations that add columns one ALTER at a time.
LEMMA DecideAdds ==
  ASSUME NEW s \in Store, NEW c \in Configs, NEW n \in 3..16, n \notin {11, 15, 16},
         Done(s, c, n), Formed(s, "check"), NEW w, w = Decide(s, Steps[n], c)
  PROVE  Onward(s, c, n, w)
<1> DEFINE step == Steps[n]
<1>1. step \in AlterNames /\ Place(step) = n
  BY PlacesAre
<1>2. w = AddColumns(s, step)
  BY DecideIs
<1> HIDE DEF step
<1>3. /\ w \in Seq(Statements)
      /\ w = << >> =>
           (TableOf(step) \in s.tables => ToSet(ColumnsOf[step]) \subseteq s.cols)
      /\ w # << >> =>
           /\ TableOf(step) \in s.tables
           /\ DOMAIN w = DOMAIN ColumnsOf[step]
           /\ \A i \in DOMAIN w : w[i] = Stmt("add", {ColumnsOf[step][i]} \ s.cols)
  BY <1>1, <1>2, AddColumnsIs
<1>4. CASE w = << >>
  <2>1. Done(s, c, n + 1)
    BY <1>3, <1>4, AlterIsDone DEF step
  <2> QED BY <1>4, <2>1 DEF Onward
<1>5. CASE w # << >>
  <2>1. \A i \in DOMAIN w : w[i].op = "add" /\ w[i].arg = {ColumnsOf[step][i]} \ s.cols
    <3> SUFFICES ASSUME NEW i \in DOMAIN w
                 PROVE  w[i].op = "add" /\ w[i].arg = {ColumnsOf[step][i]} \ s.cols
      OBVIOUS
    <3> DEFINE col == {ColumnsOf[step][i]} \ s.cols
    <3>1. w[i] = Stmt("add", col)
      BY <1>3, <1>5
    <3> HIDE DEF col
    <3>2. Stmt("add", col).op = "add" /\ Stmt("add", col).arg = col
      BY DEF Stmt
    <3>3. w[i].op = "add" /\ w[i].arg = col
      BY <3>1, <3>2, Zenon
    <3> QED BY <3>3 DEF col
  <2>2. \A i \in DOMAIN w : ColumnsOf[step][i] \in ToSet(ColumnsOf[step])
    BY <1>1, <1>3, <1>5, ColumnSeqs
  <2>3. \A i \in DOMAIN w : \A x \in w[i].arg : \E other \in DOMAIN ColumnsOf :
          /\ Place(other) = n /\ TableOf(other) \in s.tables
          /\ x \in ToSet(ColumnsOf[other])
    BY <1>1, <1>3, <1>5, <2>1, <2>2, ColumnsAre
  <2>4. \A i, j \in DOMAIN w : i # j => w[i].arg \cap w[j].arg = {}
    BY <1>1, <1>3, <1>5, <2>1, ColumnSeqs
  <2>5. \A other \in DOMAIN ColumnsOf : Place(other) = n => other = step
    BY PlacesAre, ColumnsAre DEF step
  <2>6. \A x \in ToSet(ColumnsOf[step]) : \E i \in DOMAIN w : x = ColumnsOf[step][i]
    BY <1>3, <1>5 DEF ToSet
  <2>7. Adding(s, n, w)
    BY <2>1, <2>3, <2>4, <2>5, <2>6 DEF Adding
  <2> QED BY <1>3, <1>5, <2>7, AddingIs
<1> QED BY <1>4, <1>5

\* provenance and drift: all the columns, or none.
LEMMA DecideAddsTogether ==
  ASSUME NEW s \in Store, NEW c \in Configs, NEW n \in {15, 16},
         Done(s, c, n), Formed(s, "check"), NEW todo \in SUBSET AllColumns,
         todo \cap s.cols = {},
         "docs" \notin s.tables => n = 16 \/ "chunks" \notin s.tables,
         \A x \in todo : \E step \in AlterNames :
           /\ Place(step) = n /\ TableOf(step) \in s.tables \cup {"docs"}
           /\ x \in ToSet(ColumnsOf[step]),
         \A step \in AlterNames : Place(step) = n /\ TableOf(step) \in s.tables =>
           ToSet(ColumnsOf[step]) \subseteq s.cols \cup todo,
         TableOf(Steps[n]) = "docs",
         NEW w, w = AddTogether(s, todo)
  PROVE  Onward(s, c, n, w)
<1>1. CASE ~(Has(s, "docs") /\ todo # {})
  <2>1. w = << >>
    BY <1>1 DEF AddTogether
  <2>2. TableOf(Steps[n]) \in s.tables => ToSet(ColumnsOf[Steps[n]]) \subseteq s.cols
    <3> SUFFICES ASSUME "docs" \in s.tables PROVE ToSet(ColumnsOf[Steps[n]]) \subseteq s.cols
      OBVIOUS
    <3>1. todo = {}
      BY <1>1 DEF Has
    <3>2. Steps[n] \in AlterNames /\ Place(Steps[n]) = n
      BY PlacesAre
    <3> QED BY <3>1, <3>2
  <2>3. n = 15 /\ "chunks" \in s.tables => ToSet(ColumnsOf["chunk_provenance"]) \subseteq s.cols
    <3> SUFFICES ASSUME n = 15, "chunks" \in s.tables
                 PROVE  ToSet(ColumnsOf["chunk_provenance"]) \subseteq s.cols
      OBVIOUS
    <3>1. "docs" \in s.tables
      OBVIOUS
    <3>2. todo = {}
      BY <1>1, <3>1 DEF Has
    <3>3. "chunk_provenance" \in AlterNames /\ TableOf("chunk_provenance") = "chunks"
          /\ Place("chunk_provenance") = 15
      BY TablesAre DEF AlterNames, Place
    <3> QED BY <3>2, <3>3
  <2>4. Done(s, c, n + 1)
    BY <2>2, <2>3, AlterIsDone
  <2> QED BY <2>1, <2>4 DEF Onward
<1>2. CASE Has(s, "docs") /\ todo # {}
  <2>1. w = <<Stmt("add", todo)>>
    BY <1>2 DEF AddTogether
  <2>2. /\ DOMAIN w = {1} /\ w[1].op = "add" /\ w[1].arg = todo
    BY <2>1 DEF Stmt
  <2>3. w \in Seq(Statements) /\ w # << >>
    <3>1. Stmt("add", todo) \in Statements
      BY StmtIs
    <3> QED BY <2>1, <3>1
  <2>4. \A step \in DOMAIN ColumnsOf : Place(step) = n /\ TableOf(step) \in s.tables =>
          \A x \in ToSet(ColumnsOf[step]) : x \in s.cols \/ x \in todo
    BY ColumnsAre
  <2>5. \A x \in todo : \E step \in DOMAIN ColumnsOf :
          Place(step) = n /\ TableOf(step) \in s.tables /\ x \in ToSet(ColumnsOf[step])
    BY <1>2, ColumnsAre DEF Has
  <2>6. Adding(s, n, w)
    BY <2>2, <2>4, <2>5 DEF Adding
  <2> QED BY <2>3, <2>6, AddingIs
<1> QED BY <1>1, <1>2

LEMMA JoinEmpty ==
  ASSUME NEW x, NEW y
  PROVE  << >> \o <<x, y>> = <<x, y>>
<1>1. <<x,y>> \in Seq({x,y})
  OBVIOUS
<1> QED BY <1>1, ConcatEmptySeq
LEMMA JoinPairs ==
  ASSUME NEW x, NEW y, NEW z, NEW u
  PROVE  <<x, y>> \o <<z, u>> = <<x, y, z, u>>
<1> DEFINE S == {x,y,z,u} a == <<x,y>> b == <<z,u>> c == <<x,y,z,u>>
<1>1. a \in Seq(S) /\ b \in Seq(S) /\ c \in Seq(S) /\ Len(a) = 2 /\ Len(b) = 2 /\ Len(c) = 4
  OBVIOUS
<1>2. a[1] = x /\ a[2] = y /\ b[1] = z /\ b[2] = u /\ c[1] = x /\ c[2] = y /\ c[3] = z /\ c[4] = u
  OBVIOUS
<1> HIDE DEF S, a, b, c
<1>3. (a \o b) \in Seq(S) /\ Len(a \o b) = 4
   /\ \A i \in 1..4 : (a \o b)[i] = IF i <= 2 THEN a[i] ELSE b[i-2]
  <2>1. (a \o b) \in Seq(S)
    BY <1>1, ConcatProperties
  <2>3. Len(a \o b) = Len(a) + Len(b)
    BY <1>1, ConcatProperties
  <2>2. \A i \in 1..(Len(a) + Len(b)) : (a \o b)[i] = IF i <= Len(a) THEN a[i] ELSE b[i - Len(a)]
    BY <1>1, ConcatProperties
  <2>4. Len(a \o b) = 4
    BY <1>1, <2>3
  <2> QED BY <1>1, <2>1, <2>2, <2>4
<1>4. \A i \in 1..4 : (a \o b)[i] = c[i]
  <2>1. \A i \in 1..4 : i = 1 \/ i = 2 \/ i = 3 \/ i = 4
    OBVIOUS
  <2> QED BY <1>2, <1>3, <2>1
<1>5. a \o b = c
  BY <1>1, <1>3, <1>4, SeqEqual
<1> QED BY <1>5 DEF a, b, c

\* provenance: two tables in one transaction.
LEMMA DecideProvenance ==
  ASSUME NEW s \in Store, NEW c \in Configs, Done(s, c, 15), Formed(s, "check"),
         NEW w, w = Decide(s, Steps[15], c)
  PROVE  Onward(s, c, 15, w)
<1> DEFINE todo == Missing(s, "provenance") \cup
                     (IF Has(s, "chunks") THEN Missing(s, "chunk_provenance") ELSE {})
<1>1. w = AddTogether(s, todo)
  BY DecideIs DEF Provenance
<1>2. /\ "provenance" \in AlterNames /\ "chunk_provenance" \in AlterNames
      /\ TableOf("provenance") = "docs" /\ TableOf("chunk_provenance") = "chunks"
      /\ Steps[15] = "provenance"
  BY TablesAre, StepsAre DEF AlterNames
<1>3. /\ ToSet(ColumnsOf["provenance"]) \subseteq AllColumns \cap ColumnsIn("docs")
      /\ ToSet(ColumnsOf["chunk_provenance"]) \subseteq AllColumns \cap ColumnsIn("chunks")
  BY <1>2, OneTable
<1>4. todo \in SUBSET AllColumns /\ todo \cap s.cols = {}
  BY <1>3 DEF Missing
<1>5. \A x \in todo : \E step \in AlterNames :
        /\ Place(step) = 15 /\ TableOf(step) \in s.tables \cup {"docs"}
        /\ x \in ToSet(ColumnsOf[step])
  <2>1. Place("provenance") = 15 /\ Place("chunk_provenance") = 15
    BY DEF Place
  <2> QED BY <1>2, <2>1 DEF Missing, Has
<1>6. \A step \in AlterNames : Place(step) = 15 /\ TableOf(step) \in s.tables =>
        ToSet(ColumnsOf[step]) \subseteq s.cols \cup todo
  <2>1. \A step \in AlterNames : Place(step) = 15 => step \in {"provenance", "chunk_provenance"}
    BY <1>2, PlacesAre
  <2>2. ToSet(ColumnsOf["provenance"]) \subseteq s.cols \cup todo
    BY DEF Missing
  <2>3. "chunks" \in s.tables => ToSet(ColumnsOf["chunk_provenance"]) \subseteq s.cols \cup todo
    BY DEF Missing, Has
  <2> QED BY <1>2, <2>1, <2>2, <2>3
<1>7. "docs" \notin s.tables => "chunks" \notin s.tables
  BY DEF Formed, DocsFirst
<1> HIDE DEF todo
<1> QED BY <1>1, <1>2, <1>4, <1>5, <1>6, <1>7, DecideAddsTogether

LEMMA DecideDrift ==
  ASSUME NEW s \in Store, NEW c \in Configs, Done(s, c, 16), Formed(s, "check"),
         NEW w, w = Decide(s, Steps[16], c)
  PROVE  Onward(s, c, 16, w)
<1> DEFINE todo == Missing(s, "drift")
<1>1. w = AddTogether(s, todo)
  BY DecideIs DEF Drift
<1>2. /\ "drift" \in AlterNames /\ TableOf("drift") = "docs" /\ Steps[16] = "drift"
  BY TablesAre, StepsAre DEF AlterNames
<1>3. ToSet(ColumnsOf["drift"]) \subseteq AllColumns \cap ColumnsIn("docs")
  BY <1>2, OneTable
<1>4. todo \in SUBSET AllColumns /\ todo \cap s.cols = {}
  BY <1>3 DEF Missing
<1>5. \A x \in todo : \E step \in AlterNames :
        /\ Place(step) = 16 /\ TableOf(step) \in s.tables \cup {"docs"}
        /\ x \in ToSet(ColumnsOf[step])
  <2>1. Place("drift") = 16
    BY DEF Place
  <2> QED BY <1>2, <2>1 DEF Missing
<1>6. \A step \in AlterNames : Place(step) = 16 /\ TableOf(step) \in s.tables =>
        ToSet(ColumnsOf[step]) \subseteq s.cols \cup todo
  <2>1. \A step \in AlterNames : Place(step) = 16 => step = "drift"
    BY <1>2, PlacesAre
  <2>2. ToSet(ColumnsOf["drift"]) \subseteq s.cols \cup todo
    BY DEF Missing
  <2> QED BY <2>1, <2>2
<1> HIDE DEF todo
<1> QED BY <1>1, <1>2, <1>4, <1>5, <1>6, DecideAddsTogether

\* multi_source: the copy of docs.
LEMMA DecideSource ==
  ASSUME NEW s \in Store, NEW c \in Configs, Done(s, c, 1), Formed(s, "check"),
         NEW w, w = Decide(s, Steps[1], c)
  PROVE  Onward(s, c, 1, w)
<1>1. w = MultiSource(s)
  BY DecideIs
<1>2. CASE Has(s, "docs") /\ "source_id" \notin s.cols
  <2>1. w = ToCreate
    BY <1>1, <1>2 DEF MultiSource, ToCreate
  <2>2. Left(s, c, 1, w)
    BY <1>2, <2>1 DEF Left, CopyLeft, Has
  <2>3. w # << >> /\ Head(w).op = "create docs_new"
    BY <2>1, ListsAre, OpsAre
  <2>4. Formed(s, Head(w).op)
    BY <2>3, FormedStays DEF CopyOps
  <2> QED BY <2>2, <2>3, <2>4 DEF Onward
<1>3. CASE ~(Has(s, "docs") /\ "source_id" \notin s.cols)
  <2>1. w = << >>
    BY <1>1, <1>3 DEF MultiSource
  <2>2. Done(s, c, 2)
    BY <1>3, DoneNext DEF SourceDone, Has
  <2> QED BY <2>1, <2>2 DEF Onward
<1> QED BY <1>2, <1>3

\* embed_dim: the wipe of an empty store.
LEMMA DecideWipe ==
  ASSUME NEW s \in Store, NEW c \in Configs, Done(s, c, 2), Formed(s, "check"),
         NEW w, w = Decide(s, Steps[2], c)
  PROVE  Onward(s, c, 2, w)
<1>1. w = IF Wipes(s, c) THEN ToWipe ELSE << >>
  BY DecideIs DEF ToWipe
<1>2. CASE Wipes(s, c)
  <2>1. w = ToWipe /\ w # << >> /\ Head(w).op = "wipe"
    BY <1>1, <1>2, ListsAre, OpsAre
  <2>2. "docs" \in s.tables
    BY <1>2 DEF Wipes, Formed, DocsFirst
  <2>3. Left(s, c, 2, w)
    BY <1>2, <2>1, <2>2 DEF Left
  <2>4. Formed(s, Head(w).op)
    BY <2>1, FormedStays DEF CopyOps
  <2> QED BY <2>1, <2>3, <2>4 DEF Onward
<1>3. CASE ~Wipes(s, c)
  <2>1. w = << >>
    BY <1>1, <1>3
  <2>2. Done(s, c, 3)
    BY <1>3, DoneNext DEF DimDone, Wipes
  <2> QED BY <2>1, <2>2 DEF Onward
<1> QED BY <1>2, <1>3

\* canonical_topic: the column, then its backfill.
LEMMA DecideTopic ==
  ASSUME NEW s \in Store, NEW c \in Configs, Done(s, c, 11), Formed(s, "check"),
         NEW w, w = Decide(s, Steps[11], c)
  PROVE  Onward(s, c, 11, w)
<1>1. w = CanonicalTopic(s)
  BY DecideIs
<1>2. /\ "canonical_topic" \in AlterNames /\ TableOf("canonical_topic") = "docs"
      /\ ToSet(ColumnsOf["canonical_topic"]) = {"canonical_topic"}
      /\ Steps[11] = "canonical_topic"
  BY TablesAre, ColumnsAre, StepsAre DEF AlterNames
<1>3. CASE Has(s, "docs") /\ Missing(s, "canonical_topic") # {}
  <2>1. w = ToAddTopic
    BY <1>1, <1>3 DEF CanonicalTopic, ToAddTopic
  <2>2. w # << >> /\ Head(w).op = "add"
    BY <2>1, ListsAre, OpsAre
  <2>3. TopicLeft(s, w)
    BY <1>2, <1>3, <2>1 DEF TopicLeft, Has, Missing
  <2>4. Left(s, c, 11, w)
    BY <2>3 DEF Left
  <2>5. Formed(s, Head(w).op)
    BY <2>2, FormedStays DEF CopyOps
  <2> QED BY <2>2, <2>4, <2>5 DEF Onward
<1>4. CASE ~(Has(s, "docs") /\ Missing(s, "canonical_topic") # {})
  <2>1. w = << >>
    BY <1>1, <1>4 DEF CanonicalTopic
  <2>2. Done(s, c, 12)
    BY <1>2, <1>4, AlterIsDone DEF Has, Missing
  <2> QED BY <2>1, <2>2 DEF Onward
<1> QED BY <1>3, <1>4

\* init_schema: the script, whatever there is.
LEMMA DecideSchema ==
  ASSUME NEW s \in Store, NEW c \in Configs, Done(s, c, 17), Formed(s, "check"),
         NEW w, w = Decide(s, Steps[17], c)
  PROVE  Onward(s, c, 17, w)
<1>1. w = ToSchema
  BY DecideIs DEF ToSchema
<1>2. w # << >> /\ Head(w).op = "schema"
  BY <1>1, ListsAre, OpsAre
<1>3. Left(s, c, 17, w)
  BY <1>1 DEF Left
<1>4. Formed(s, Head(w).op)
  BY <1>2, FormedStays DEF CopyOps
<1> QED BY <1>2, <1>3, <1>4 DEF Onward

\* partition_vec, vec_embed_model, vec_owner: one layout to the next.
LEMMA DecideLayout ==
  ASSUME NEW s \in Store, NEW c \in Configs, NEW n \in 18..20, Done(s, c, n), Formed(s, "check"),
         NEW w, w = Decide(s, Steps[n], c)
  PROVE  Onward(s, c, n, w)
<1>1. PICK to \in {"partitioned", "model", "owner"}, from \in {"flat", "partitioned", "model"} :
        /\ w = IF s.vecDocs.layout = from THEN ToRelay(to) ELSE << >>
        /\ n = 18 => to = "partitioned" /\ from = "flat"
        /\ n = 19 => to = "model" /\ from = "partitioned"
        /\ n = 20 => to = "owner" /\ from = "model"
  <2>1. LayoutDone(s, n)
    BY DEF Done
  <2>2. CASE n = 18
    <3>1. w = IF s.vecDocs.layout = "flat" THEN ToRelay("partitioned") ELSE << >>
      BY <2>2, DecideIs DEF PartitionVec, RebuildTo, ToRelay
    <3> QED BY <2>2, <3>1
  <2>3. CASE n = 19
    <3>1. s.vecDocs.layout # "flat"
      BY <2>1, <2>3 DEF LayoutDone
    <3>2. w = IF s.vecDocs.layout = "partitioned" THEN ToRelay("model") ELSE << >>
      BY <2>3, <3>1, DecideIs DEF VecEmbedModel, RebuildTo, ToRelay
    <3> QED BY <2>3, <3>2
  <2>4. CASE n = 20
    <3>1. s.vecDocs.layout # "flat" /\ s.vecDocs.layout # "partitioned"
      BY <2>1, <2>4 DEF LayoutDone
    <3>2. w = IF s.vecDocs.layout = "model" THEN ToRelay("owner") ELSE << >>
      BY <2>4, <3>1, DecideIs DEF VecOwner, RebuildTo, ToRelay
    <3> QED BY <2>4, <3>2
  <2> QED BY <2>2, <2>3, <2>4
<1>2. CASE s.vecDocs.layout = from
  <2>1. w = ToRelay(to)
    BY <1>1, <1>2
  <2>2. w # << >> /\ Head(w).op = "rebuild"
    <3>1. ToRelay(to) # << >> /\ Head(ToRelay(to)).op = "rebuild"
      BY ListsAre, OpsAre
    <3> QED BY <2>1, <3>1
  <2>3. Left(s, c, n, w)
    BY <1>1, <1>2, <2>1 DEF Left
  <2>4. Formed(s, Head(w).op)
    BY <2>2, FormedStays DEF CopyOps
  <2> QED BY <2>2, <2>3, <2>4 DEF Onward
<1>3. CASE s.vecDocs.layout # from
  <2>1. w = << >>
    BY <1>1, <1>3
  <2>2. LayoutDone(s, n + 1)
    BY <1>1, <1>3 DEF LayoutDone, Done
  <2>3. Done(s, c, n + 1)
    BY <2>2, DoneNext
  <2> QED BY <2>1, <2>3 DEF Onward
<1> QED BY <1>2, <1>3

\* static_vec: the pair of another dimension is dropped.
LEMMA DecideStatic ==
  ASSUME NEW s \in Store, NEW c \in Configs, Done(s, c, 21), Formed(s, "check"),
         NEW w, w = Decide(s, Steps[21], c)
  PROVE  Onward(s, c, 21, w)
<1>1. w = StaticVec(s, c)
  BY DecideIs
<1>2. CASE c.static = 0
  <2>1. w = << >>
    BY <1>1, <1>2 DEF StaticVec
  <2>2. Done(s, c, 22)
    BY <1>2, DoneNext DEF StaticDone
  <2> QED BY <2>1, <2>2 DEF Onward
<1> DEFINE x == Stmt("drop static docs", {})
           y == Stmt("drop static chunks", {})
           z == Stmt("create static docs", {})
           u == Stmt("create static chunks", {})
<1>3. /\ ToMakeDocs = <<z, u>> /\ ToDropDocs = <<x, y, z, u>>
      /\ StaticVec(s, c) = IF c.static = 0 THEN << >>
           ELSE (IF s.staticDocs \in {0, c.static} THEN << >> ELSE <<x, y>>) \o <<z, u>>
  BY DEF ToMakeDocs, ToDropDocs, StaticVec
<1> HIDE DEF x, y, z, u
<1>4. c.static # 0 => w = IF s.staticDocs \in {0, c.static} THEN ToMakeDocs ELSE ToDropDocs
  BY <1>1, <1>3, JoinEmpty, JoinPairs
<1>5. CASE c.static # 0 /\ s.staticDocs \in {0, c.static}
  <2>1. w = ToMakeDocs /\ w # << >> /\ Head(w).op = "create static docs"
    BY <1>4, <1>5, ListsAre, OpsAre
  <2>2. Left(s, c, 21, w)
    BY <1>5, <2>1 DEF Left, StaticLeft
  <2>3. Formed(s, Head(w).op)
    BY <2>1, FormedStays DEF CopyOps
  <2> QED BY <2>1, <2>2, <2>3 DEF Onward
<1>6. CASE c.static # 0 /\ s.staticDocs \notin {0, c.static}
  <2>1. w = ToDropDocs /\ w # << >> /\ Head(w).op = "drop static docs"
    BY <1>4, <1>6, ListsAre, OpsAre
  <2>2. Left(s, c, 21, w)
    BY <1>6, <2>1 DEF Left, StaticLeft
  <2>3. Formed(s, Head(w).op)
    BY <2>1, FormedStays DEF CopyOps
  <2> QED BY <2>1, <2>2, <2>3 DEF Onward
<1> QED BY <1>2, <1>5, <1>6

\* docs_fts: every row, or none when it was filled before.
LEMMA DecideFill ==
  ASSUME NEW s \in Store, NEW c \in Configs, Done(s, c, 22), Formed(s, "check"),
         NEW held, Kept(s, held), NEW w, w = Decide(s, Steps[22], c)
  PROVE  Onward(s, c, 22, w)
<1>1. w = ToFill(Unfilled(s))
  BY DecideIs DEF ToFill
<1>2. w # << >> /\ Head(w).op = "fill and purge"
  <2>1. ToFill(Unfilled(s)) # << >> /\ Head(ToFill(Unfilled(s))).op = "fill and purge"
    BY ListsAre, OpsAre
  <2> QED BY <1>1, <2>1
<1>3. Unfilled(s) \in SUBSET s.rows
  BY DEF Unfilled
<1>4. \A d \in s.rows : s.fts[d] = IF d \in Unfilled(s) THEN 0 ELSE 1
  <2>1. \A d \in s.rows : d \in Docs /\ s.fts[d] \in Nat
    BY DEF Store
  <2> QED BY <2>1 DEF Kept, Filled, Unfilled
<1>5. FillLeft(s, w)
  BY <1>1, <1>3, <1>4 DEF FillLeft
<1>6. Left(s, c, 22, w)
  BY <1>5 DEF Left
<1>7. Formed(s, Head(w).op)
  BY <1>2, FormedStays DEF CopyOps
<1> QED BY <1>2, <1>6, <1>7 DEF Onward

\* stamp: the model a store without one was made by.
LEMMA DecideStamp ==
  ASSUME NEW s \in Store, NEW c \in Configs, Done(s, c, 23), Formed(s, "check"),
         NEW w, w = Decide(s, Steps[23], c)
  PROVE  Onward(s, c, 23, w)
<1>1. w = Stamp(s, c)
  BY DecideIs
<1>2. CASE w = << >>
  BY <1>2, DoneNext DEF Onward
<1>3. CASE w # << >>
  <2>0. w = ToStamp
    BY <1>1, <1>3 DEF Stamp, ToStamp
  <2>1. w = ToStamp /\ Head(w).op = "stamp"
    BY <2>0, ListsAre, OpsAre
  <2>2. Left(s, c, 23, w)
    BY <2>1 DEF Left
  <2>3. Formed(s, Head(w).op)
    BY <2>1, FormedStays DEF CopyOps
  <2> QED BY <1>3, <2>2, <2>3 DEF Onward
<1> QED BY <1>2, <1>3

\* Whatever step a process reads the schema for, it goes on from there.
LEMMA DecideOnward ==
  ASSUME NEW s \in Store, NEW c \in Configs, NEW n \in 1..23, Done(s, c, n), Formed(s, "check"),
         NEW held, Kept(s, held)
  PROVE  Onward(s, c, n, Decide(s, Steps[n], c))
<1> DEFINE w == Decide(s, Steps[n], c)
<1>1. n \in 3..16 /\ n \notin {11, 15, 16} => Onward(s, c, n, w)
  BY DecideAdds
<1>2. n \in 18..20 => Onward(s, c, n, w)
  BY DecideLayout
<1>3. /\ n = 1 => Onward(s, c, n, w)
      /\ n = 2 => Onward(s, c, n, w)
      /\ n = 11 => Onward(s, c, n, w)
      /\ n = 15 => Onward(s, c, n, w)
      /\ n = 16 => Onward(s, c, n, w)
  BY DecideSource, DecideWipe, DecideTopic, DecideProvenance, DecideDrift
<1>4. /\ n = 17 => Onward(s, c, n, w)
      /\ n = 21 => Onward(s, c, n, w)
      /\ n = 22 => Onward(s, c, n, w)
      /\ n = 23 => Onward(s, c, n, w)
  BY DecideSchema, DecideStatic, DecideFill, DecideStamp
<1> HIDE DEF w
<1>5. Onward(s, c, n, w)
  BY <1>1, <1>2, <1>3, <1>4
<1> QED BY <1>5 DEF w

\* No check raises on a store between two migrations.
LEMMA ChecksPass ==
  ASSUME NEW s, NEW c, NEW n \in 1..23, Formed(s, "check")
  PROVE  ~CheckFails(s, Steps[n], c)
BY DEF CheckFails, Formed, DocsFirst, Has

-----------------------------------------------------------------------------
(***************************************************************************)
(* A statement that runs leads to the next one, or ends its step.          *)
(***************************************************************************)
\* What a statement leaves of the steps that are done.
LEMMA DoneStays ==
  ASSUME NEW s, NEW t, NEW c, NEW n \in 1..24, Done(s, c, n), SameSchema(s, t), t.rows = s.rows,
         t.vecDocs.layout = s.vecDocs.layout, t.vecDocs.dim = s.vecDocs.dim,
         n > 21 => SameStatic(s, t), n > 22 => SameText(s, t)
  PROVE  Done(t, c, n)
<1>1. SourceDone(t, n) /\ AltersDone(t, n) /\ SchemaDone(t, n)
  BY DEF Done, SourceDone, AltersDone, SchemaDone, SameSchema
<1>2. DimDone(t, c, n) /\ LayoutDone(t, n)
  BY DEF Done, DimDone, LayoutDone
<1>3. StaticDone(t, c, n)
  BY DEF Done, StaticDone, SameStatic
<1>4. TextDone(t, n)
  BY DEF Done, TextDone, SameText
<1> QED BY <1>1, <1>2, <1>3, <1>4 DEF Done

\* Nothing is done before the first step.
LEMMA DoneAtFirst ==
  ASSUME NEW s, NEW c
  PROVE  Done(s, c, 1)
<1>1. \A step \in AlterNames : ~(Place(step) < 1)
  BY PlacesAre
<1> QED BY <1>1, ColumnsAre
        DEF Done, SourceDone, DimDone, AltersDone, SchemaDone, LayoutDone, StaticDone, TextDone

LEMMA HeadIn ==
  ASSUME NEW w \in Seq(Statements), w # << >>
  PROVE  Head(w) \in Statements /\ Tail(w) \in Seq(Statements)
OBVIOUS

\* A step with nothing left to run is done.
LEMMA StepEnds ==
  ASSUME NEW s, NEW c, NEW n, NEW m, m = n + 1, Done(s, c, m), Formed(s, "check"),
         NEW w, w = << >>
  PROVE  Onward(s, c, n, w)
BY DEF Onward

LEMMA StepGoesOn ==
  ASSUME NEW s, NEW c, NEW n, NEW w, w # << >>, Left(s, c, n, w), Done(s, c, n),
         Formed(s, Head(w).op)
  PROVE  Onward(s, c, n, w)
BY DEF Onward

\* A statement that moves no row, vector or text loses none.
LEMMA KeptStays ==
  ASSUME NEW s, NEW t, NEW held, Kept(s, held), SameVecs(s, t), SameText(s, t),
         t.rows \cup t.scratchRows = held.rows
  PROVE  Kept(t, held)
BY DEF Kept, Embedded, Filled, SameVecs, SameText

\* A statement w starts with: what is to be shown of it.
RunsOn(s, c, n, w, held) ==
  /\ ~Fails(s, Head(w), c)
  /\ Onward(After(s, Head(w), c), c, n, Tail(w)) /\ Kept(After(s, Head(w), c), held)

\* The copy of docs, statement by statement: docs_new is created,
LEMMA CreateCopyRuns ==
  ASSUME NEW s, StoreTyped(s), NEW c \in Configs, NEW w \in Seq(Statements), w = ToCreate,
         CopyLeft(s, w), Formed(s, Head(w).op), NEW held, Kept(s, held)
  PROVE  RunsOn(s, c, 1, w, held)
<1> DEFINE t == After(s, Head(w), c)
<1>1. /\ w # << >> /\ Head(w).op = "create docs_new" /\ Tail(w) = ToCopy
      /\ ToCopy # << >> /\ Head(ToCopy).op = "copy docs"
  BY ListsAre, OpsAre
<1>0. Head(w) \in Statements
  BY <1>1, HeadIn
<1>2. NoCopy(s) /\ Tabled(s) /\ Unindexed(s) /\ DocsFirst(s) /\ OneLive(s) /\ StaticPaired(s)
  BY <1>1 DEF Formed, CopyFormed
<1>3. ~Fails(s, Head(w), c)
  BY <1>1, <1>2 DEF Fails, NoCopy
<1>4. s \in Store
  BY DEF StoreTyped
<1>5. Started(s, t)
  BY <1>0, <1>1, <1>4, CreateCopyIs
<1> HIDE DEF t
<1>6. "docs" \in s.tables
  BY <1>1, ListsAre, OpsAre DEF CopyLeft
<1>7. Left(t, c, 1, Tail(w))
  BY <1>1, <1>5, <1>6 DEF Left, CopyLeft, Started, SameSchema
<1>8. Formed(t, "copy docs")
  BY <1>2, <1>5 DEF Formed, CopyFormed, NoCopy, Tabled, Unindexed, DocsFirst, OneLive,
     StaticPaired, Started, SameSchema, SameRows, SameVecs, SameStatic
<1>9. Kept(t, held)
  <2>1. t.rows \cup t.scratchRows = held.rows
    BY <1>5 DEF Started, SameRows, Kept
  <2> QED BY <1>5, <2>1, KeptStays DEF Started
<1>10. Onward(t, c, 1, Tail(w))
  BY <1>1, <1>7, <1>8, DoneAtFirst DEF Onward
<1> QED BY <1>3, <1>9, <1>10 DEF RunsOn, t

\* filled,
LEMMA CopyRuns ==
  ASSUME NEW s, StoreTyped(s), NEW c \in Configs, NEW w \in Seq(Statements), w = ToCopy,
         CopyLeft(s, w), Formed(s, Head(w).op), NEW held, Kept(s, held)
  PROVE  RunsOn(s, c, 1, w, held)
<1> DEFINE t == After(s, Head(w), c)
<1>1. /\ w # << >> /\ Head(w).op = "copy docs" /\ Tail(w) = ToDrop
      /\ ToDrop # << >> /\ Head(ToDrop).op = "drop docs"
  BY ListsAre, OpsAre
<1>0. Head(w) \in Statements
  BY <1>1, HeadIn
<1>2. /\ s.scratch = "made" /\ s.scratchRows = {}
      /\ Tabled(s) /\ Unindexed(s) /\ DocsFirst(s) /\ OneLive(s) /\ StaticPaired(s)
  BY <1>1 DEF Formed, CopyFormed
<1>3. "docs" \in s.tables
  BY <1>1, ListsAre, OpsAre DEF CopyLeft
<1>4. ~Fails(s, Head(w), c)
  BY <1>1, <1>2, <1>3 DEF Fails, Has
<1>5. s \in Store
  BY DEF StoreTyped
<1>6. Copied(s, t)
  BY <1>0, <1>1, <1>5, CopyIs
<1> HIDE DEF t
<1>7. Left(t, c, 1, Tail(w))
  BY <1>1, <1>3, <1>6 DEF Left, CopyLeft, Copied, SameSchema
<1>8. Formed(t, "drop docs")
  BY <1>2, <1>6 DEF Formed, CopyFormed, Tabled, Unindexed, DocsFirst, OneLive,
     StaticPaired, Copied, SameSchema, SameRows, SameVecs, SameStatic
<1>9. Kept(t, held)
  <2>1. t.rows \cup t.scratchRows = held.rows
    BY <1>2, <1>6 DEF Copied, SameRows, Kept
  <2> QED BY <1>6, <2>1, KeptStays DEF Copied
<1>10. Onward(t, c, 1, Tail(w))
  BY <1>1, <1>7, <1>8, DoneAtFirst DEF Onward
<1> QED BY <1>4, <1>9, <1>10 DEF RunsOn, t

\* docs is dropped once every row is in the copy,
LEMMA DropRuns ==
  ASSUME NEW s, StoreTyped(s), NEW c \in Configs, NEW w \in Seq(Statements), w = ToDrop,
         CopyLeft(s, w), Formed(s, Head(w).op), NEW held, Kept(s, held)
  PROVE  RunsOn(s, c, 1, w, held)
<1> DEFINE t == After(s, Head(w), c)
<1>1. /\ w # << >> /\ Head(w).op = "drop docs" /\ Tail(w) = ToRename
      /\ ToRename # << >> /\ Head(ToRename).op = "rename docs_new"
  BY ListsAre, OpsAre
<1>0. Head(w) \in Statements
  BY <1>1, HeadIn
<1>2. /\ s.scratch = "copied" /\ s.scratchRows = s.rows /\ Tabled(s) /\ StaticPaired(s)
  BY <1>1 DEF Formed, CopyFormed
<1>3. "docs" \in s.tables
  BY <1>1, ListsAre, OpsAre DEF CopyLeft
<1>4. ~Fails(s, Head(w), c)
  BY <1>1, <1>3 DEF Fails, Has
<1>5. s \in Store
  BY DEF StoreTyped
<1>6. Dropped(s, t)
  BY <1>0, <1>1, <1>5, DropIs
<1> HIDE DEF t
<1>7. Left(t, c, 1, Tail(w))
  BY <1>1 DEF Left, CopyLeft
<1>8. Formed(t, "rename docs_new")
  <2>1. "canonical_topic" \notin t.cols
    BY <1>6, SomeColumns DEF Dropped
  <2> QED BY <1>2, <1>6, <2>1 DEF Formed, CopyFormed, Tabled, Unindexed, OneLive,
          StaticPaired, Dropped, SameCopy, SameVecs, SameStatic
<1>9. Kept(t, held)
  <2>1. t.rows \cup t.scratchRows = held.rows
    BY <1>2, <1>6 DEF Dropped, SameCopy, Kept
  <2> QED BY <1>6, <2>1, KeptStays DEF Dropped
<1>10. Onward(t, c, 1, Tail(w))
  BY <1>1, <1>7, <1>8, DoneAtFirst DEF Onward
<1> QED BY <1>4, <1>9, <1>10 DEF RunsOn, t

\* and the copy takes its name.
LEMMA RenameRuns ==
  ASSUME NEW s, StoreTyped(s), NEW c \in Configs, NEW w \in Seq(Statements), w = ToRename,
         Formed(s, Head(w).op), NEW held, Kept(s, held)
  PROVE  RunsOn(s, c, 1, w, held)
<1> DEFINE t == After(s, Head(w), c)
<1>1. /\ w # << >> /\ Head(w).op = "rename docs_new" /\ Tail(w) = << >>
  BY ListsAre, OpsAre
<1>0. Head(w) \in Statements
  BY <1>1, HeadIn
<1>2. /\ s.scratch = "copied" /\ "docs" \notin s.tables
      /\ Tabled(s) /\ Unindexed(s) /\ StaticPaired(s)
  BY <1>1 DEF Formed, CopyFormed
<1>3. s \in Store /\ s.rows = {} /\ s.topic = {} /\ s.owned = {}
  BY <1>2 DEF StoreTyped
<1>4. ~Fails(s, Head(w), c)
  BY <1>1, <1>2 DEF Fails, Has, None
<1>5. Renamed(s, t)
  BY <1>0, <1>1, <1>3, RenameIs
<1> HIDE DEF t
<1>6. Formed(t, "check")
  BY <1>2, <1>3, <1>5 DEF Formed, CopyFormed, NoCopy, Tabled, Unindexed, DocsFirst, OneLive,
     StaticPaired, Renamed, SameVecs, SameStatic
<1>7. Done(t, c, 2)
  <2>1. SourceDone(t, 2)
    BY <1>5 DEF SourceDone, Renamed
  <2> QED BY <2>1, DoneAtFirst, DoneNext
<1>8. Kept(t, held)
  <2>1. t.rows \cup t.scratchRows = held.rows
    BY <1>3, <1>5 DEF Renamed, Kept
  <2> QED BY <1>5, <2>1, KeptStays DEF Renamed
<1>9. Onward(t, c, 1, Tail(w))
  <2>1. 2 = 1 + 1
    OBVIOUS
  <2> QED BY <1>1, <1>6, <1>7, <2>1, StepEnds
<1> QED BY <1>4, <1>8, <1>9 DEF RunsOn, t

\* The wipe drops tables no doc has a row in.
LEMMA WipeRuns ==
  ASSUME NEW s, StoreTyped(s), NEW c \in Configs, NEW w \in Seq(Statements), w = ToWipe,
         Wipes(s, c), "docs" \in s.tables, Done(s, c, 2), Formed(s, Head(w).op),
         NEW held, Kept(s, held)
  PROVE  RunsOn(s, c, 2, w, held)
<1> DEFINE t == After(s, Head(w), c)
<1>1. /\ w # << >> /\ Head(w).op = "wipe" /\ Tail(w) = << >>
  BY ListsAre, OpsAre
<1>0. Head(w) \in Statements
  BY <1>1, HeadIn
<1>2. /\ NoCopy(s) /\ Tabled(s) /\ Unindexed(s) /\ DocsFirst(s) /\ OneLive(s) /\ StaticPaired(s)
  BY <1>1 DEF Formed, CopyFormed
<1>3. s \in Store /\ s.rows = {}
  BY DEF StoreTyped, Wipes
<1>4. ~Fails(s, Head(w), c)
  BY <1>1 DEF Fails, Has
<1>5. Wiped(s, t)
  BY <1>0, <1>1, <1>3, WipeIs
<1> HIDE DEF t
<1>6. "source_id" \notin ColumnsIn("chunks") /\ "canonical_topic" \notin ColumnsIn("chunks")
  BY SomeColumns, OneTable
<1>7. Formed(t, "check")
  <2>1. Tabled(t)
    BY <1>5 DEF Tabled, Wiped, NoTable, None
  <2>2. CopyFormed(t, "check") /\ Unindexed(t) /\ DocsFirst(t) /\ OneLive(t) /\ StaticPaired(t)
    BY <1>2, <1>5, <1>6 DEF CopyFormed, NoCopy, Unindexed, DocsFirst, OneLive,
       StaticPaired, Wiped, SameRows, SameCopy, SameStatic
  <2> QED BY <2>1, <2>2 DEF Formed
<1>8. Done(t, c, 3)
  <2>1. \A step \in AlterNames : ~(Place(step) < 2)
    BY PlacesAre
  <2>2. SourceDone(t, 2) /\ AltersDone(t, 2)
    BY <1>5, <1>6, <2>1, ColumnsAre DEF Done, SourceDone, AltersDone, Wiped
  <2>3. Done(t, c, 2)
    BY <2>2 DEF Done, DimDone, SchemaDone, LayoutDone, StaticDone, TextDone
  <2>4. DimDone(t, c, 3)
    BY <1>5 DEF DimDone, Wiped, NoTable
  <2> QED BY <2>3, <2>4, DoneNext
<1>9. Kept(t, held)
  <2>1. held.rows = {} /\ t.rows \cup t.scratchRows = held.rows
    BY <1>2, <1>3, <1>5 DEF Wiped, SameRows, SameCopy, Kept, NoCopy
  <2>2. held.vecDocs = {} /\ held.vecChunks = {}
    BY <2>1 DEF Kept, Embedded
  <2> QED BY <2>1, <2>2 DEF Kept, Embedded, Filled
<1>10. Onward(t, c, 2, Tail(w))
  <2>1. 3 = 2 + 1
    OBVIOUS
  <2> QED BY <1>1, <1>7, <1>8, <2>1, StepEnds
<1> QED BY <1>4, <1>9, <1>10 DEF RunsOn, t

LEMMA OwnStep ==
  /\ \A step \in AlterNames : "canonical_topic" \in ToSet(ColumnsOf[step]) => Place(step) = 11
  /\ \A x \in AllColumns : \E step \in AlterNames :
       Place(step) \in 3..16 /\ TableOf(step) = HomeOf(x) /\ x \in ToSet(ColumnsOf[step])
<1>1. \A step \in AlterNames : "canonical_topic" \in ToSet(ColumnsOf[step]) =>
        step = "canonical_topic"
  BY ColumnsAre DEF AlterNames
<1>2. Place("canonical_topic") = 11
  BY DEF Place
<1>3. \A x \in AllColumns : \E step \in AlterNames : x \in ToSet(ColumnsOf[step])
  BY InColumns
<1> QED BY <1>1, <1>2, <1>3, HomesAre, PlacesAre

\* More columns undo nothing that is done.
LEMMA DoneGrows ==
  ASSUME NEW s, NEW t, NEW c, NEW n \in 3..16, Done(s, c, n), t.tables = s.tables,
         s.cols \subseteq t.cols, t.rows = s.rows, t.vecDocs = s.vecDocs
  PROVE  Done(t, c, n)
<1>1. SourceDone(t, n) /\ DimDone(t, c, n)
  BY DEF Done, SourceDone, DimDone
<1>2. AltersDone(t, n)
  BY ColumnsAre DEF Done, AltersDone
<1> QED BY <1>1, <1>2 DEF Done, SchemaDone, LayoutDone, StaticDone, TextDone

\* An ALTER adds columns that are missing, and the others stay due.
LEMMA AddRuns ==
  ASSUME NEW s, StoreTyped(s), NEW c \in Configs, NEW n \in 3..16, n # 11,
         NEW w \in Seq(Statements), w # << >>,
         Adding(s, n, w), Done(s, c, n), Formed(s, Head(w).op), NEW held, Kept(s, held)
  PROVE  RunsOn(s, c, n, w, held)
<1> DEFINE st == Head(w)
           t == After(s, st, c)
<1>1. st = w[1] /\ 1 \in DOMAIN w /\ st \in Statements /\ st.op = "add"
  BY HeadAt, HeadIn DEF Adding
<1>2. /\ st.arg \cap s.cols = {}
      /\ \A x \in st.arg : \E step \in AlterNames :
           Place(step) = n /\ TableOf(step) \in s.tables /\ x \in ToSet(ColumnsOf[step])
  BY <1>1, ColumnsAre DEF Adding
<1>3. NoCopy(s) /\ Tabled(s) /\ Unindexed(s) /\ DocsFirst(s) /\ OneLive(s) /\ StaticPaired(s)
  BY <1>1 DEF Formed, CopyFormed
<1>4. s \in Store
  BY DEF StoreTyped
<1>5. \A x \in st.arg : HomeOf(x) \in s.tables /\ x # "canonical_topic"
  BY <1>2, OwnStep, HomesAre
<1>6. ~Fails(s, st, c)
  <2>1. \A u \in Tables \ s.tables : st.arg \cap ColumnsIn(u) = {}
    BY <1>5, OneTable
  <2> QED BY <1>1, <1>2, <2>1 DEF Fails
<1>7. Added(s, t, st)
  BY <1>1, <1>4, AddIs
<1> HIDE DEF t
<1>8. Done(t, c, n)
  BY <1>7, DoneGrows DEF Added, SameRows, SameVecs
<1>9. Formed(t, "check")
  <2>1. DocsFirst(t)
    <3>1. st.arg \cap ColumnsIn("docs") # {} => "docs" \in s.tables
      BY <1>5, OneTable
    <3> QED BY <1>3, <1>7, <3>1 DEF DocsFirst, Added, SameRows, SameVecs
  <2>2. OneLive(t) /\ Unindexed(t)
    BY <1>3, <1>5, <1>7 DEF OneLive, Unindexed, Added, SameRows
  <2>3. CopyFormed(t, "check") /\ Tabled(t) /\ StaticPaired(t)
    BY <1>3, <1>7 DEF CopyFormed, NoCopy, Tabled, StaticPaired, Added, SameCopy, SameVecs,
       SameStatic
  <2> QED BY <2>1, <2>2, <2>3 DEF Formed
<1>10. Kept(t, held)
  <2>1. t.rows \cup t.scratchRows = held.rows
    BY <1>7 DEF Added, SameRows, SameCopy, Kept
  <2> QED BY <1>7, <2>1, KeptStays DEF Added
<1> DEFINE rest == Tail(w)
<1>11. rest \in Seq(Statements) /\ Len(w) \in Nat /\ Len(w) >= 1 /\ DOMAIN w = 1..Len(w)
       /\ DOMAIN rest = 1..(Len(w) - 1) /\ \A i \in 1..(Len(w) - 1) : rest[i] = w[i + 1]
  OBVIOUS
<1>12. t.cols = s.cols \cup w[1].arg /\ t.tables = s.tables
  BY <1>1, <1>7 DEF Added
<1>13. Adding(t, n, rest)
  <2> HIDE DEF st, rest
  <2>1. \A i \in DOMAIN rest : i + 1 \in DOMAIN w /\ i + 1 # 1 /\ rest[i] = w[i + 1]
    BY <1>11
  <2>2. ASSUME NEW i \in DOMAIN rest
        PROVE  /\ rest[i].op = "add" /\ rest[i].arg \cap t.cols = {}
               /\ \A x \in rest[i].arg : \E step \in DOMAIN ColumnsOf :
                    Place(step) = n /\ TableOf(step) \in t.tables /\ x \in ToSet(ColumnsOf[step])
    <3> DEFINE k == i + 1
    <3>1. k \in DOMAIN w /\ k # 1 /\ rest[i] = w[k]
      BY <2>1
    <3> HIDE DEF k
    <3>2. w[k].arg \cap w[1].arg = {}
      BY <1>1, <3>1 DEF Adding
    <3>3. /\ w[k].op = "add" /\ w[k].arg \cap s.cols = {}
          /\ \A x \in w[k].arg : \E step \in DOMAIN ColumnsOf :
               Place(step) = n /\ TableOf(step) \in s.tables /\ x \in ToSet(ColumnsOf[step])
      BY <3>1 DEF Adding
    <3> QED BY <1>12, <3>1, <3>2, <3>3
  <2>3. ASSUME NEW i \in DOMAIN rest, NEW j \in DOMAIN rest, i # j
        PROVE  rest[i].arg \cap rest[j].arg = {}
    <3> DEFINE k == i + 1  m == j + 1
    <3>1. k \in DOMAIN w /\ m \in DOMAIN w /\ k # m /\ rest[i] = w[k] /\ rest[j] = w[m]
      BY <1>11, <2>1, <2>3
    <3> HIDE DEF k, m
    <3> QED BY <3>1 DEF Adding
  <2>4. ASSUME NEW step \in DOMAIN ColumnsOf, Place(step) = n, TableOf(step) \in t.tables,
               NEW x \in ToSet(ColumnsOf[step])
        PROVE  x \in t.cols \/ \E i \in DOMAIN rest : x \in rest[i].arg
    <3>1. x \in s.cols \/ \E i \in DOMAIN w : x \in w[i].arg
      BY <1>12, <2>4 DEF Adding
    <3>2. ASSUME NEW i \in DOMAIN w, i # 1, x \in w[i].arg
          PROVE  \E j \in DOMAIN rest : x \in rest[j].arg
      <4> DEFINE j == i - 1
      <4>1. j \in 1..(Len(w) - 1) /\ j + 1 = i
        BY <1>11, <3>2
      <4>2. j \in DOMAIN rest /\ rest[j] = w[i]
        BY <1>11, <4>1
      <4> QED BY <3>2, <4>2
    <3> QED BY <1>12, <3>1, <3>2
  <2> QED BY <2>2, <2>3, <2>4 DEF Adding
<1>14. CASE rest # << >>
  <2>1. Onward(t, c, n, rest)
    BY <1>8, <1>9, <1>11, <1>13, <1>14, AddingIs
  <2> QED BY <1>6, <1>10, <2>1 DEF RunsOn, t
<1>15. CASE rest = << >>
  <2>1. \A step \in AlterNames : Place(step) = n /\ TableOf(step) \in t.tables =>
          ToSet(ColumnsOf[step]) \subseteq t.cols
    BY <1>13, <1>15, ColumnsAre DEF Adding
  <2>2. Steps[n] \in AlterNames /\ Place(Steps[n]) = n
    BY PlacesAre
  <2>3. /\ "chunk_provenance" \in AlterNames /\ TableOf("chunk_provenance") = "chunks"
        /\ Place("chunk_provenance") = 15
    BY TablesAre DEF AlterNames, Place
  <2>4. Done(t, c, n + 1)
    BY <1>8, <2>1, <2>2, <2>3, AlterIsDone
  <2>5. Onward(t, c, n, rest)
    BY <1>9, <1>15, <2>4, StepEnds
  <2> QED BY <1>6, <1>10, <2>5 DEF RunsOn, t
<1> QED BY <1>14, <1>15

\* The ALTER of canonical_topic leaves its backfill due.
LEMMA AddTopicRuns ==
  ASSUME NEW s, StoreTyped(s), NEW c \in Configs, NEW w \in Seq(Statements), w = ToAddTopic,
         "docs" \in s.tables, "canonical_topic" \notin s.cols,
         Done(s, c, 11), Formed(s, Head(w).op), NEW held, Kept(s, held)
  PROVE  RunsOn(s, c, 11, w, held)
<1> DEFINE t == After(s, Head(w), c)
<1>1. /\ w # << >> /\ Head(w).op = "add" /\ Head(w).arg = {"canonical_topic"}
      /\ Tail(w) = ToBackfill /\ ToBackfill # << >> /\ Head(ToBackfill).op = "backfill topics"
  BY ListsAre, OpsAre
<1>0. Head(w) \in Statements
  BY <1>1, HeadIn
<1>2. NoCopy(s) /\ Tabled(s) /\ Unindexed(s) /\ DocsFirst(s) /\ OneLive(s) /\ StaticPaired(s)
  BY <1>1 DEF Formed, CopyFormed
<1>3. s \in Store
  BY DEF StoreTyped
<1>4. \A u : "canonical_topic" \in ColumnsIn(u) => u = "docs"
  BY SomeColumns, OneTable
<1>5. ~Fails(s, Head(w), c)
  BY <1>1, <1>4 DEF Fails
<1>6. Added(s, t, Head(w))
  BY <1>0, <1>1, <1>3, AddIs
<1> HIDE DEF t
<1>7. t.cols = s.cols \cup {"canonical_topic"}
  BY <1>1, <1>6 DEF Added
<1>8. Done(t, c, 11)
  BY <1>6, <1>7, DoneGrows DEF Added, SameRows, SameVecs
<1>9. Left(t, c, 11, Tail(w))
  BY <1>1, <1>6, <1>7 DEF Left, TopicLeft, Added
<1>10. Formed(t, "backfill topics")
  BY <1>2, <1>6, <1>7 DEF Formed, CopyFormed, NoCopy, Tabled, Unindexed, DocsFirst,
     StaticPaired, Added, SameRows, SameCopy, SameVecs, SameStatic
<1>11. Kept(t, held)
  <2>1. t.rows \cup t.scratchRows = held.rows
    BY <1>6 DEF Added, SameRows, SameCopy, Kept
  <2> QED BY <1>6, <2>1, KeptStays DEF Added
<1>12. Onward(t, c, 11, Tail(w))
  BY <1>1, <1>8, <1>9, <1>10, StepGoesOn
<1> QED BY <1>5, <1>11, <1>12 DEF RunsOn, t

\* The backfill leaves one live canonical per title.
LEMMA BackfillRuns ==
  ASSUME NEW s, StoreTyped(s), NEW c \in Configs, NEW w \in Seq(Statements), w = ToBackfill,
         "docs" \in s.tables, "canonical_topic" \in s.cols,
         Done(s, c, 11), Formed(s, Head(w).op), NEW held, Kept(s, held)
  PROVE  RunsOn(s, c, 11, w, held)
<1> DEFINE t == After(s, Head(w), c)
<1>1. w # << >> /\ Head(w).op = "backfill topics" /\ Tail(w) = << >>
  BY ListsAre, OpsAre
<1>0. Head(w) \in Statements
  BY <1>1, HeadIn
<1>2. NoCopy(s) /\ Tabled(s) /\ Unindexed(s) /\ DocsFirst(s) /\ StaticPaired(s)
  BY <1>1 DEF Formed, CopyFormed
<1>3. s \in Store
  BY DEF StoreTyped
<1>4. /\ "store_columns" \in AlterNames /\ "lifecycle" \in AlterNames
      /\ Place("store_columns") = 3 /\ Place("lifecycle") = 10
      /\ TableOf("store_columns") = "docs" /\ TableOf("lifecycle") = "docs"
      /\ "canonical_topic" \in AlterNames /\ TableOf("canonical_topic") = "docs"
      /\ Steps[11] = "canonical_topic"
  BY TablesAre, StepsAre DEF AlterNames, Place
<1>5. {"kind", "lifecycle", "canonical_topic"} \subseteq s.cols
  <2>1. /\ ToSet(ColumnsOf["store_columns"]) \subseteq s.cols
        /\ ToSet(ColumnsOf["lifecycle"]) \subseteq s.cols
    BY <1>4, ColumnsAre DEF Done, AltersDone
  <2> QED BY <2>1, ColumnsAre
<1>6. ~Fails(s, Head(w), c)
  BY <1>1, <1>5 DEF Fails
<1>7. TopicsFilled(s, t)
  BY <1>0, <1>1, <1>3, BackfillIs
<1> HIDE DEF t
<1>8. Done(t, c, 11)
  BY <1>7, DoneGrows DEF TopicsFilled, SameVecs
<1>9. Done(t, c, 12)
  <2>1. ToSet(ColumnsOf["canonical_topic"]) \subseteq t.cols
    BY <1>7, ColumnsAre DEF TopicsFilled
  <2>2. 11 \in 3..16 /\ 12 = 11 + 1
    OBVIOUS
  <2> QED BY <1>4, <1>8, <2>1, <2>2, AlterIsDone
<1>10. Formed(t, "check")
  BY <1>2, <1>7 DEF Formed, CopyFormed, NoCopy, Tabled, Unindexed, DocsFirst, OneLive,
     StaticPaired, TopicsFilled, SameCopy, SameVecs, SameStatic
<1>11. Kept(t, held)
  <2>1. t.rows \cup t.scratchRows = held.rows
    BY <1>7 DEF TopicsFilled, SameCopy, Kept
  <2> QED BY <1>7, <2>1, KeptStays DEF TopicsFilled
<1>12. Onward(t, c, 11, Tail(w))
  <2>1. 12 = 11 + 1
    OBVIOUS
  <2> QED BY <1>1, <1>9, <1>10, <2>1, StepEnds
<1> QED BY <1>6, <1>11, <1>12 DEF RunsOn, t

\* The script names the columns of every index, whatever it finds.
LEMMA WholeSchema ==
  ASSUME NEW s, NEW c, Done(s, c, 17)
  PROVE  AllColumns \cup {"source_id"} \subseteq WithTables(s)
<1>1. "source_id" \in WithTables(s)
  BY WithTablesIs DEF Done, SourceDone
<1>2. ASSUME NEW x \in AllColumns PROVE x \in WithTables(s)
  <2>1. PICK step \in AlterNames :
          Place(step) \in 3..16 /\ TableOf(step) = HomeOf(x) /\ x \in ToSet(ColumnsOf[step])
    BY OwnStep
  <2>2. CASE HomeOf(x) \in s.tables
    <3>1. x \in s.cols
      BY <2>1, <2>2, ColumnsAre DEF Done, AltersDone
    <3> QED BY <3>1, WithTablesIs
  <2>3. CASE HomeOf(x) \notin s.tables
    BY <2>3, OneTable, WithTablesIs
  <2> QED BY <2>2, <2>3
<1> QED BY <1>1, <1>2

\* The script leaves every table, column and index.
LEMMA SchemaDoneIs ==
  ASSUME NEW s, NEW t, NEW c, Done(s, c, 17), SchemaMade(s, t, c)
  PROVE  /\ t.tables = Tables /\ AllColumns \cup {"source_id"} \subseteq t.cols /\ t.unique
         /\ \A n \in 1..24 : SourceDone(t, n) /\ AltersDone(t, n) /\ SchemaDone(t, n)
<1>1. t.tables = Tables /\ AllColumns \cup {"source_id"} \subseteq t.cols /\ t.unique
  BY WholeSchema DEF SchemaMade
<1>2. \A step \in AlterNames : ToSet(ColumnsOf[step]) \subseteq t.cols
  BY <1>1, OneTable
<1> QED BY <1>1, <1>2, ColumnsAre DEF SourceDone, AltersDone, SchemaDone

\* The script runs on whatever the migrations before it leave.
LEMMA SchemaRuns ==
  ASSUME NEW s, StoreTyped(s), NEW c \in Configs, NEW w \in Seq(Statements), w = ToSchema,
         Done(s, c, 17), Formed(s, Head(w).op), NEW held, Kept(s, held)
  PROVE  RunsOn(s, c, 17, w, held)
<1> DEFINE t == After(s, Head(w), c)
<1>1. w # << >> /\ Head(w).op = "schema" /\ Tail(w) = << >>
  BY ListsAre, OpsAre
<1>0. Head(w) \in Statements
  BY <1>1, HeadIn
<1>2. NoCopy(s) /\ Tabled(s) /\ Unindexed(s) /\ DocsFirst(s) /\ OneLive(s) /\ StaticPaired(s)
  BY <1>1 DEF Formed, CopyFormed
<1>3. s \in Store
  BY DEF StoreTyped
<1>4. ~Fails(s, Head(w), c)
  BY <1>1, WholeSchema, SomeColumns DEF Fails
<1>5. SchemaMade(s, t, c)
  BY <1>0, <1>1, <1>3, SchemaIs
<1> HIDE DEF t
<1>6. /\ t.tables = Tables /\ AllColumns \cup {"source_id"} \subseteq t.cols /\ t.unique
      /\ SourceDone(t, 18) /\ AltersDone(t, 18) /\ SchemaDone(t, 18)
  BY <1>5, SchemaDoneIs
<1>7. /\ s.vecDocs.layout = None => t.vecDocs.layout = "owner" /\ t.vecDocs.dim = c.dim
      /\ s.vecDocs.layout # None => t.vecDocs = s.vecDocs
      /\ t.vecChunks.layout = "model" \/ t.vecChunks = s.vecChunks
      /\ t.vecDocs.rows = s.vecDocs.rows /\ t.vecChunks.rows = s.vecChunks.rows
      /\ t.vecChunks.layout # None
  BY <1>2, <1>5 DEF Tabled, SchemaMade, CreatedIfMissing, None
<1>8. t.vecDocs.layout # None
  BY <1>7 DEF None
<1>9. Done(t, c, 18)
  <2>1. DimDone(t, c, 18)
    BY <1>5, <1>7 DEF Done, DimDone, SchemaMade, SameRows
  <2>2. LayoutDone(t, 18)
    BY <1>8 DEF LayoutDone
  <2> QED BY <1>6, <2>1, <2>2 DEF Done, StaticDone, TextDone
<1>10. OneLive(t)
  <2>1. CASE "canonical_topic" \in s.cols
    BY <1>2, <1>5, <2>1 DEF OneLive, SchemaMade, SameRows
  <2>2. CASE "canonical_topic" \notin s.cols
    <3>1. "docs" \notin s.tables
      <4>1. /\ "canonical_topic" \in AlterNames /\ TableOf("canonical_topic") = "docs"
            /\ Place("canonical_topic") = 11
        BY TablesAre DEF AlterNames, Place
      <4> QED BY <2>2, <4>1, ColumnsAre DEF Done, AltersDone
    <3>2. s.owned = {} /\ s.topic = {}
      BY <3>1 DEF StoreTyped
    <3> QED BY <1>5, <3>2 DEF OneLive, SchemaMade, SameRows
  <2> QED BY <2>1, <2>2
<1>11. Formed(t, "check")
  <2>1. Tabled(t)
    BY <1>2, <1>7, <1>8 DEF Tabled
  <2>2. DocsFirst(t) /\ Unindexed(t)
    BY <1>6, SomeColumns DEF DocsFirst, Unindexed, Tables
  <2>3. CopyFormed(t, "check") /\ StaticPaired(t)
    BY <1>2, <1>5 DEF CopyFormed, NoCopy, StaticPaired, SchemaMade, SameCopy, SameStatic
  <2> QED BY <1>10, <2>1, <2>2, <2>3 DEF Formed
<1>12. Kept(t, held)
  <2>1. t.rows \cup t.scratchRows = held.rows
    BY <1>5 DEF SchemaMade, SameRows, SameCopy, Kept
  <2>2. Filled(t, held.rows)
    BY <1>5 DEF SchemaMade, SameText, Kept, Filled
  <2>3. Embedded(t, held)
    BY <1>5, <1>7 DEF Kept, Embedded, SchemaMade, SameText
  <2> QED BY <2>1, <2>2, <2>3 DEF Kept
<1>13. Onward(t, c, 17, Tail(w))
  <2>1. 18 = 17 + 1
    OBVIOUS
  <2> QED BY <1>1, <1>9, <1>11, <2>1, StepEnds
<1> QED BY <1>4, <1>12, <1>13 DEF RunsOn, t

\* A rebuild that SQLite refuses: the copy does not fit the dimension, or reads
\* columns vec_chunks has not got.
Behind(s, to) == to = "model" /\ s.vecDocs.layout = "partitioned" /\ s.vecChunks.layout = "flat"
Halts(s, c, w) ==
  Head(w).op = "rebuild" /\ (Misfit(s, Head(w).arg, c) \/ Behind(s, Head(w).arg))

\* A vec0 rebuild goes through, or is refused.
LEMMA RelayRuns ==
  ASSUME NEW s, StoreTyped(s), NEW c \in Configs, NEW n \in 18..20,
         NEW to, NEW w \in Seq(Statements), w = ToRelay(to),
         \/ n = 18 /\ to = "partitioned" /\ s.vecDocs.layout = "flat"
         \/ n = 19 /\ to = "model" /\ s.vecDocs.layout = "partitioned"
         \/ n = 20 /\ to = "owner" /\ s.vecDocs.layout = "model",
         Done(s, c, n), Formed(s, Head(w).op), NEW held, Kept(s, held)
  PROVE  Halts(s, c, w) \/ RunsOn(s, c, n, w, held)
<1> DEFINE t == After(s, Head(w), c)
<1>1. w # << >> /\ Head(w).op = "rebuild" /\ Head(w).arg = to /\ Tail(w) = << >>
  <2>1. ToRelay(to) # << >> /\ Tail(ToRelay(to)) = << >>
    BY ListsAre
  <2>2. Head(ToRelay(to)).op = "rebuild" /\ Head(ToRelay(to)).arg = to
    BY OpsAre
  <2> QED BY <2>1, <2>2
<1>0. Head(w) \in Statements
  BY <1>1, HeadIn
<1>2. NoCopy(s) /\ Tabled(s) /\ Unindexed(s) /\ DocsFirst(s) /\ OneLive(s) /\ StaticPaired(s)
  BY <1>1 DEF Formed, CopyFormed
<1>3. s \in Store
  BY DEF StoreTyped
<1> SUFFICES ASSUME ~Misfit(s, to, c), ~Behind(s, to) PROVE RunsOn(s, c, n, w, held)
  BY <1>1 DEF Halts
<1>4. ~Fails(s, Head(w), c)
  BY <1>1 DEF Fails, None, Behind
<1>5. Relaid(s, t, Head(w), c)
  BY <1>0, <1>1, <1>3, RebuildIs
<1> HIDE DEF t
<1>6. held.rows = s.rows /\ s.vecDocs.layout # None
  BY <1>2 DEF Kept, NoCopy, None
<1>8. /\ t.vecDocs.layout = to /\ t.vecDocs.dim = c.dim
      /\ n = 20 => t.vecChunks = s.vecChunks
      /\ n # 20 => t.vecChunks.layout = to /\ t.vecChunks.dim = c.dim
      /\ \A d \in s.rows : /\ t.vecDocs.rows[d] = s.vecDocs.rows[d]
                           /\ d \in s.chunks => t.vecChunks.rows[d] = s.vecChunks.rows[d]
  BY <1>1, <1>5 DEF Relaid
<1>9. Done(t, c, n + 1)
  <2>1. SourceDone(t, n + 1) /\ AltersDone(t, n + 1) /\ SchemaDone(t, n + 1)
    <3>1. \A step \in AlterNames : Place(step) < n + 1 <=> Place(step) < n
      BY PlacesAre
    <3> QED BY <1>5, <3>1, ColumnsAre DEF Done, SourceDone, AltersDone, SchemaDone, Relaid,
          SameSchema
  <2>2. DimDone(t, c, n + 1) /\ LayoutDone(t, n + 1)
    BY <1>8 DEF DimDone, LayoutDone, None
  <2> QED BY <2>1, <2>2 DEF Done, StaticDone, TextDone
<1>10. Formed(t, "check")
  <2>1. Tabled(t)
    BY <1>2, <1>8 DEF Tabled, None
  <2>2. DocsFirst(t)
    BY <1>2, <1>5, <1>6 DEF DocsFirst, Relaid, SameSchema
  <2>3. CopyFormed(t, "check") /\ Unindexed(t) /\ OneLive(t) /\ StaticPaired(t)
    BY <1>2, <1>5 DEF CopyFormed, NoCopy, Unindexed, OneLive, StaticPaired,
       Relaid, SameSchema, SameRows, SameCopy, SameStatic
  <2> QED BY <2>1, <2>2, <2>3 DEF Formed
<1>11. Kept(t, held)
  <2>1. t.rows \cup t.scratchRows = held.rows
    BY <1>5 DEF Relaid, SameRows, SameCopy, Kept
  <2>2. Filled(t, held.rows)
    BY <1>5 DEF Relaid, SameText, Kept, Filled
  <2>3. \A d \in held.vecDocs : t.vecDocs.rows[d] # None
    BY <1>6, <1>8 DEF Kept, Embedded
  <2>4. \A d \in held.vecChunks : t.vecChunks.rows[d] # None
    BY <1>6, <1>8 DEF Kept, Embedded
  <2>5. t.chunks = s.chunks
    BY <1>5 DEF Relaid, SameText
  <2> QED BY <2>1, <2>2, <2>3, <2>4, <2>5 DEF Kept, Embedded
<1>12. Onward(t, c, n, Tail(w))
  BY <1>1, <1>9, <1>10, StepEnds
<1> QED BY <1>4, <1>11, <1>12 DEF RunsOn, t

\* The statements that touch only the static tables.
LEMMA FormedStatic ==
  ASSUME NEW s, NEW t, NEW op, NEW next, Formed(s, op), op \notin CopyOps, op # "backfill topics",
         next \notin CopyOps,
         SameSchema(s, t), SameRows(s, t), SameCopy(s, t), SameVecs(s, t),
         next # "drop static chunks" => StaticPaired(t)
  PROVE  Formed(t, next)
<1>1. NoCopy(s) /\ Tabled(s) /\ Unindexed(s) /\ DocsFirst(s) /\ OneLive(s)
  BY DEF Formed, CopyFormed, CopyOps
<1>2. NoCopy(t) /\ Tabled(t) /\ Unindexed(t)
  BY <1>1 DEF NoCopy, Tabled, Unindexed, SameSchema, SameCopy, SameVecs
<1>3. DocsFirst(t) /\ OneLive(t)
  BY <1>1 DEF DocsFirst, OneLive, SameSchema, SameRows, SameVecs
<1> QED BY <1>2, <1>3 DEF Formed, CopyFormed, CopyOps
LEMMA DropDocsRuns ==
  ASSUME NEW s, StoreTyped(s), NEW c \in Configs, NEW w \in Seq(Statements), w = ToDropDocs,
         c.static # 0,
         Done(s, c, 21), Formed(s, Head(w).op), NEW held, Kept(s, held)
  PROVE  RunsOn(s, c, 21, w, held)
<1> DEFINE t == After(s, Head(w), c)
<1>1. /\ w # << >> /\ Head(w).op = "drop static docs" /\ Tail(w) = ToDropChunks
      /\ ToDropChunks # << >> /\ Head(ToDropChunks).op = "drop static chunks"
  BY ListsAre, OpsAre
<1>0. Head(w) \in Statements
  BY <1>1, HeadIn
<1>2. s \in Store
  BY DEF StoreTyped
<1>3. ~Fails(s, Head(w), c)
  BY <1>1 DEF Fails
<1>4. StaticDocsDropped(s, t)
  BY <1>0, <1>1, <1>2, DropStaticDocsIs
<1> HIDE DEF t
<1>5. /\ SameSchema(s, t) /\ SameRows(s, t) /\ SameCopy(s, t) /\ SameVecs(s, t) /\ SameText(s, t)
  BY <1>4 DEF StaticDocsDropped
<1>6. Done(t, c, 21)
  <2>1. t.rows = s.rows /\ t.vecDocs = s.vecDocs
    BY <1>5 DEF SameRows, SameVecs
  <2>2. 21 \in 1..24 /\ ~(21 > 21) /\ ~(21 > 22)
    OBVIOUS
  <2> QED BY <1>5, <2>1, <2>2, DoneStays
<1>7. Formed(t, "drop static chunks")
  BY <1>1, <1>5, FormedStatic DEF CopyOps
<1>8. Kept(t, held)
  <2>1. t.rows \cup t.scratchRows = held.rows
    BY <1>5 DEF SameRows, SameCopy, Kept
  <2> QED BY <1>5, <2>1, KeptStays
<1>9. Left(t, c, 21, Tail(w))
  BY <1>1, <1>4 DEF Left, StaticLeft, StaticDocsDropped
<1>10. Onward(t, c, 21, Tail(w))
  BY <1>1, <1>6, <1>7, <1>9, StepGoesOn
<1> QED BY <1>3, <1>8, <1>10 DEF RunsOn, t
LEMMA DropChunksRuns ==
  ASSUME NEW s, StoreTyped(s), NEW c \in Configs, NEW w \in Seq(Statements), w = ToDropChunks,
         c.static # 0, s.staticDocs = 0,
         Done(s, c, 21), Formed(s, Head(w).op), NEW held, Kept(s, held)
  PROVE  RunsOn(s, c, 21, w, held)
<1> DEFINE t == After(s, Head(w), c)
<1>1. /\ w # << >> /\ Head(w).op = "drop static chunks" /\ Tail(w) = ToMakeDocs
      /\ ToMakeDocs # << >> /\ Head(ToMakeDocs).op = "create static docs"
  BY ListsAre, OpsAre
<1>0. Head(w) \in Statements
  BY <1>1, HeadIn
<1>2. s \in Store
  BY DEF StoreTyped
<1>3. ~Fails(s, Head(w), c)
  BY <1>1 DEF Fails
<1>4. StaticChunksDropped(s, t)
  BY <1>0, <1>1, <1>2, DropStaticChunksIs
<1> HIDE DEF t
<1>5. /\ SameSchema(s, t) /\ SameRows(s, t) /\ SameCopy(s, t) /\ SameVecs(s, t) /\ SameText(s, t)
  BY <1>4 DEF StaticChunksDropped
<1>6. Done(t, c, 21)
  <2>1. t.rows = s.rows /\ t.vecDocs = s.vecDocs
    BY <1>5 DEF SameRows, SameVecs
  <2>2. 21 \in 1..24 /\ ~(21 > 21) /\ ~(21 > 22)
    OBVIOUS
  <2> QED BY <1>5, <2>1, <2>2, DoneStays
<1>7. Formed(t, "create static docs")
  <2>1. StaticPaired(t)
    BY <1>1, <1>4 DEF StaticPaired, StaticChunksDropped
  <2>2. Head(w).op \notin CopyOps /\ Head(w).op # "backfill topics"
          /\ "create static docs" \notin CopyOps
    BY <1>1 DEF CopyOps
  <2> QED BY <1>5, <2>1, <2>2, FormedStatic
<1>8. Kept(t, held)
  <2>1. t.rows \cup t.scratchRows = held.rows
    BY <1>5 DEF SameRows, SameCopy, Kept
  <2> QED BY <1>5, <2>1, KeptStays
<1>9. Left(t, c, 21, Tail(w))
  BY <1>1, <1>4 DEF Left, StaticLeft, StaticChunksDropped
<1>10. Onward(t, c, 21, Tail(w))
  BY <1>1, <1>6, <1>7, <1>9, StepGoesOn
<1> QED BY <1>3, <1>8, <1>10 DEF RunsOn, t
LEMMA MakeDocsRuns ==
  ASSUME NEW s, StoreTyped(s), NEW c \in Configs, NEW w \in Seq(Statements), w = ToMakeDocs,
         c.static # 0, s.staticDocs \in {0, c.static},
         Done(s, c, 21), Formed(s, Head(w).op), NEW held, Kept(s, held)
  PROVE  RunsOn(s, c, 21, w, held)
<1> DEFINE t == After(s, Head(w), c)
<1>1. /\ w # << >> /\ Head(w).op = "create static docs" /\ Tail(w) = ToMakeChunks
      /\ ToMakeChunks # << >> /\ Head(ToMakeChunks).op = "create static chunks"
  BY ListsAre, OpsAre
<1>0. Head(w) \in Statements
  BY <1>1, HeadIn
<1>2. s \in Store
  BY DEF StoreTyped
<1>3. ~Fails(s, Head(w), c)
  BY <1>1 DEF Fails
<1>4. StaticDocsMade(s, t, c)
  BY <1>0, <1>1, <1>2, CreateStaticDocsIs
<1> HIDE DEF t
<1>5. /\ SameSchema(s, t) /\ SameRows(s, t) /\ SameCopy(s, t) /\ SameVecs(s, t) /\ SameText(s, t)
  BY <1>4 DEF StaticDocsMade
<1>6. Done(t, c, 21)
  <2>1. t.rows = s.rows /\ t.vecDocs = s.vecDocs
    BY <1>5 DEF SameRows, SameVecs
  <2>2. 21 \in 1..24 /\ ~(21 > 21) /\ ~(21 > 22)
    OBVIOUS
  <2> QED BY <1>5, <2>1, <2>2, DoneStays
<1>7. Formed(t, "create static chunks")
  <2>1. StaticPaired(t)
    BY <1>1, <1>4 DEF Formed, StaticPaired, StaticDocsMade
  <2>2. Head(w).op \notin CopyOps /\ Head(w).op # "backfill topics"
          /\ "create static chunks" \notin CopyOps
    BY <1>1 DEF CopyOps
  <2> QED BY <1>5, <2>1, <2>2, FormedStatic
<1>8. Kept(t, held)
  <2>1. t.rows \cup t.scratchRows = held.rows
    BY <1>5 DEF SameRows, SameCopy, Kept
  <2> QED BY <1>5, <2>1, KeptStays
<1>9. Left(t, c, 21, Tail(w))
  BY <1>1, <1>4 DEF Left, StaticLeft, StaticDocsMade
<1>10. Onward(t, c, 21, Tail(w))
  BY <1>1, <1>6, <1>7, <1>9, StepGoesOn
<1> QED BY <1>3, <1>8, <1>10 DEF RunsOn, t
LEMMA MakeChunksRuns ==
  ASSUME NEW s, StoreTyped(s), NEW c \in Configs, NEW w \in Seq(Statements), w = ToMakeChunks,
         c.static # 0, s.staticDocs = c.static,
         Done(s, c, 21), Formed(s, Head(w).op), NEW held, Kept(s, held)
  PROVE  RunsOn(s, c, 21, w, held)
<1> DEFINE t == After(s, Head(w), c)
<1>1. /\ w # << >> /\ Head(w).op = "create static chunks" /\ Tail(w) = << >>
  BY ListsAre, OpsAre
<1>0. Head(w) \in Statements
  BY <1>1, HeadIn
<1>2. s \in Store
  BY DEF StoreTyped
<1>3. ~Fails(s, Head(w), c)
  BY <1>1 DEF Fails
<1>4. StaticChunksMade(s, t, c)
  BY <1>0, <1>1, <1>2, CreateStaticChunksIs
<1> HIDE DEF t
<1>5. /\ SameSchema(s, t) /\ SameRows(s, t) /\ SameCopy(s, t) /\ SameVecs(s, t) /\ SameText(s, t)
  BY <1>4 DEF StaticChunksMade
<1>6. Done(t, c, 21)
  <2>1. t.rows = s.rows /\ t.vecDocs = s.vecDocs
    BY <1>5 DEF SameRows, SameVecs
  <2>2. 21 \in 1..24 /\ ~(21 > 21) /\ ~(21 > 22)
    OBVIOUS
  <2> QED BY <1>5, <2>1, <2>2, DoneStays
<1>7. Formed(t, "check")
  <2>1. StaticPaired(t)
    BY <1>1, <1>4 DEF Formed, StaticPaired, StaticChunksMade
  <2>2. Head(w).op \notin CopyOps /\ Head(w).op # "backfill topics" /\ "check" \notin CopyOps
    BY <1>1 DEF CopyOps
  <2> QED BY <1>5, <2>1, <2>2, FormedStatic
<1>8. Kept(t, held)
  <2>1. t.rows \cup t.scratchRows = held.rows
    BY <1>5 DEF SameRows, SameCopy, Kept
  <2> QED BY <1>5, <2>1, KeptStays
<1>9. Done(t, c, 22)
  <2>1. t.staticDocs = c.static /\ t.staticChunks = c.static
    <3>1. StaticPaired(s)
      BY <1>1 DEF Formed
    <3> QED BY <1>4, <3>1 DEF StaticPaired, StaticChunksMade
  <2>2. StaticDone(t, c, 22)
    BY <2>1 DEF StaticDone
  <2> QED BY <1>6, <2>2, DoneNext
<1>10. Onward(t, c, 21, Tail(w))
  <2>1. 22 = 21 + 1
    OBVIOUS
  <2> QED BY <1>1, <1>7, <1>9, <2>1, StepEnds
<1> QED BY <1>3, <1>8, <1>10 DEF RunsOn, t
LEMMA FillRuns ==
  ASSUME NEW s, StoreTyped(s), NEW c \in Configs, NEW w \in Seq(Statements),
         NEW some \in SUBSET s.rows, w = ToFill(some),
         \A d \in s.rows : s.fts[d] = IF d \in some THEN 0 ELSE 1,
         Done(s, c, 22), Formed(s, Head(w).op), NEW held, Kept(s, held)
  PROVE  RunsOn(s, c, 22, w, held)
<1> DEFINE t == After(s, Head(w), c)
<1>1. w # << >> /\ Head(w).op = "fill and purge" /\ Head(w).arg = some /\ Tail(w) = << >>
  <2>1. ToFill(some) # << >> /\ Tail(ToFill(some)) = << >>
    BY ListsAre
  <2>2. Head(ToFill(some)).op = "fill and purge" /\ Head(ToFill(some)).arg = some
    BY OpsAre
  <2> QED BY <2>1, <2>2
<1>0. Head(w) \in Statements
  BY <1>1, HeadIn
<1>2. NoCopy(s) /\ Tabled(s) /\ Unindexed(s) /\ DocsFirst(s) /\ OneLive(s) /\ StaticPaired(s)
  BY <1>1 DEF Formed, CopyFormed
<1>3. s \in Store /\ held.rows = s.rows
  BY <1>2 DEF StoreTyped, Kept, NoCopy
<1>4. ~Fails(s, Head(w), c)
  BY <1>1 DEF Fails
<1>5. FilledAndPurged(s, t, Head(w))
  BY <1>0, <1>1, <1>3, FillIs
<1> HIDE DEF t
<1>6. \A d \in s.rows : t.fts[d] = 1
  <2> SUFFICES ASSUME NEW d \in s.rows PROVE t.fts[d] = 1
    OBVIOUS
  <2>1. d \in Docs
    BY <1>3 DEF Store
  <2>2. t.fts[d] = IF d \in some THEN s.fts[d] + 1 ELSE s.fts[d]
    BY <1>1, <1>5, <2>1 DEF FilledAndPurged
  <2>3. s.fts[d] = IF d \in some THEN 0 ELSE 1
    OBVIOUS
  <2> QED BY <2>2, <2>3
<1>7. Done(t, c, 23)
  <2>1. Done(t, c, 22)
    <3>1. t.rows = s.rows /\ t.vecDocs = s.vecDocs /\ SameSchema(s, t) /\ SameStatic(s, t)
      BY <1>5 DEF FilledAndPurged, SameRows
    <3>2. 22 \in 1..24 /\ 22 > 21 /\ ~(22 > 22)
      OBVIOUS
    <3> QED BY <3>1, <3>2, DoneStays
  <2>2. TextDone(t, 23)
    BY <1>5, <1>6 DEF TextDone, FilledAndPurged, SameRows
  <2> QED BY <2>1, <2>2, DoneNext
<1>8. Formed(t, "check")
  <2>1. Tabled(t) /\ DocsFirst(t)
    BY <1>2, <1>5 DEF Tabled, DocsFirst, FilledAndPurged, SameSchema, SameRows
  <2>2. CopyFormed(t, "check") /\ Unindexed(t) /\ OneLive(t) /\ StaticPaired(t)
    BY <1>2, <1>5 DEF CopyFormed, NoCopy, Unindexed, OneLive, StaticPaired,
       FilledAndPurged, SameSchema, SameRows, SameCopy, SameStatic
  <2> QED BY <2>1, <2>2 DEF Formed
<1>9. Kept(t, held)
  <2>1. t.rows \cup t.scratchRows = held.rows
    BY <1>5 DEF FilledAndPurged, SameRows, SameCopy, Kept
  <2>2. Filled(t, held.rows)
    BY <1>3, <1>6 DEF Filled
  <2>3. Embedded(t, held)
    BY <1>3, <1>5 DEF Embedded, Kept, FilledAndPurged
  <2> QED BY <2>1, <2>2, <2>3 DEF Kept
<1>10. Onward(t, c, 22, Tail(w))
  <2>1. 23 = 22 + 1
    OBVIOUS
  <2> QED BY <1>1, <1>7, <1>8, <2>1, StepEnds
<1> QED BY <1>4, <1>9, <1>10 DEF RunsOn, t

LEMMA StampRuns ==
  ASSUME NEW s, StoreTyped(s), NEW c \in Configs, NEW w \in Seq(Statements), w = ToStamp,
         Done(s, c, 23), Formed(s, Head(w).op), NEW held, Kept(s, held)
  PROVE  RunsOn(s, c, 23, w, held)
<1> DEFINE t == After(s, Head(w), c)
<1>1. w # << >> /\ Head(w).op = "stamp" /\ Tail(w) = << >>
  BY ListsAre, OpsAre
<1>0. Head(w) \in Statements
  BY <1>1, HeadIn
<1>2. s \in Store
  BY DEF StoreTyped
<1>3. ~Fails(s, Head(w), c)
  BY <1>1 DEF Fails
<1>4. Stamped(s, t, c)
  BY <1>0, <1>1, <1>2, StampIs
<1> HIDE DEF t
<1>5. /\ SameSchema(s, t) /\ SameRows(s, t) /\ SameCopy(s, t) /\ SameVecs(s, t) /\ SameText(s, t)
      /\ SameStatic(s, t)
  BY <1>4 DEF Stamped
<1>6. Done(t, c, 24)
  <2>1. Done(t, c, 23)
    <3>1. t.rows = s.rows /\ t.vecDocs = s.vecDocs
      BY <1>5 DEF SameRows, SameVecs
    <3>2. 23 \in 1..24
      OBVIOUS
    <3> QED BY <1>5, <3>1, <3>2, DoneStays
  <2> QED BY <2>1, DoneNext
<1>7. Formed(t, "check")
  <2>1. StaticPaired(t)
    BY <1>1, <1>5 DEF Formed, StaticPaired, SameStatic
  <2>2. Head(w).op \notin CopyOps /\ Head(w).op # "backfill topics" /\ "check" \notin CopyOps
    BY <1>1 DEF CopyOps
  <2> QED BY <1>5, <2>1, <2>2, FormedStatic
<1>8. Kept(t, held)
  <2>1. t.rows \cup t.scratchRows = held.rows
    BY <1>5 DEF SameRows, SameCopy, Kept
  <2> QED BY <1>5, <2>1, KeptStays
<1>9. Onward(t, c, 23, Tail(w))
  <2>1. 24 = 23 + 1
    OBVIOUS
  <2> QED BY <1>1, <1>6, <1>7, <2>1, StepEnds
<1> QED BY <1>3, <1>8, <1>9 DEF RunsOn, t

\* Whatever a process has left to run runs, or is a rebuild that does not fit.
LEMMA RunOnward ==
  ASSUME NEW s, StoreTyped(s), NEW c \in Configs, NEW n \in 1..23,
         NEW w \in Seq(Statements), w # << >>, w # <<Check>>,
         Left(s, c, n, w), Done(s, c, n), Formed(s, Head(w).op), NEW held, Kept(s, held)
  PROVE  Halts(s, c, w) \/ RunsOn(s, c, n, w, held)
<1>1. CASE n = 1 /\ CopyLeft(s, w)
  <2>1. w = ToCreate => RunsOn(s, c, 1, w, held)
    BY <1>1, CreateCopyRuns
  <2>2. w = ToCopy => RunsOn(s, c, 1, w, held)
    BY <1>1, CopyRuns
  <2>3. w = ToDrop => RunsOn(s, c, 1, w, held)
    BY <1>1, DropRuns
  <2>4. w = ToRename => RunsOn(s, c, 1, w, held)
    BY <1>1, RenameRuns
  <2>5. w \in {ToCreate, ToCopy, ToDrop, ToRename}
    BY <1>1 DEF CopyLeft
  <2> QED BY <1>1, <2>1, <2>2, <2>3, <2>4, <2>5
<1>2. CASE n = 2 /\ w = ToWipe /\ Wipes(s, c) /\ "docs" \in s.tables
  BY <1>2, WipeRuns
<1>3. CASE n \in 3..16 /\ n # 11 /\ Adding(s, n, w)
  BY <1>3, AddRuns
<1>4. CASE n = 11 /\ TopicLeft(s, w)
  <2>1. w = ToAddTopic /\ "canonical_topic" \notin s.cols => RunsOn(s, c, 11, w, held)
    BY <1>4, AddTopicRuns DEF TopicLeft
  <2>2. w = ToBackfill /\ "canonical_topic" \in s.cols => RunsOn(s, c, 11, w, held)
    BY <1>4, BackfillRuns DEF TopicLeft
  <2> QED BY <1>4, <2>1, <2>2 DEF TopicLeft
<1>5. CASE n = 17 /\ w = ToSchema
  BY <1>5, SchemaRuns
<1>6. CASE \/ n = 18 /\ w = ToRelay("partitioned") /\ s.vecDocs.layout = "flat"
           \/ n = 19 /\ w = ToRelay("model") /\ s.vecDocs.layout = "partitioned"
           \/ n = 20 /\ w = ToRelay("owner") /\ s.vecDocs.layout = "model"
  <2>1. PICK to : /\ w = ToRelay(to)
                  /\ \/ n = 18 /\ to = "partitioned" /\ s.vecDocs.layout = "flat"
                     \/ n = 19 /\ to = "model" /\ s.vecDocs.layout = "partitioned"
                     \/ n = 20 /\ to = "owner" /\ s.vecDocs.layout = "model"
    BY <1>6
  <2>2. n \in 18..20
    BY <2>1
  <2>3. Halts(s, c, w) \/ RunsOn(s, c, n, w, held)
    BY <2>1, <2>2, RelayRuns
  <2> QED BY <2>3
<1>7. CASE n = 21 /\ StaticLeft(s, c, w)
  <2>0. c.static # 0
    BY <1>7 DEF StaticLeft
  <2>1. w = ToDropDocs => RunsOn(s, c, 21, w, held)
    BY <1>7, <2>0, DropDocsRuns
  <2>2. w = ToDropChunks /\ s.staticDocs = 0 => RunsOn(s, c, 21, w, held)
    BY <1>7, <2>0, DropChunksRuns
  <2>3. w = ToMakeDocs /\ s.staticDocs \in {0, c.static} => RunsOn(s, c, 21, w, held)
    BY <1>7, <2>0, MakeDocsRuns
  <2>4. w = ToMakeChunks /\ s.staticDocs = c.static => RunsOn(s, c, 21, w, held)
    BY <1>7, <2>0, MakeChunksRuns
  <2> QED BY <1>7, <2>1, <2>2, <2>3, <2>4 DEF StaticLeft
<1>8. CASE n = 22 /\ FillLeft(s, w)
  <2>1. PICK some \in SUBSET s.rows :
          w = ToFill(some) /\ \A d \in s.rows : s.fts[d] = IF d \in some THEN 0 ELSE 1
    BY <1>8 DEF FillLeft
  <2> QED BY <1>8, <2>1, FillRuns
<1>9. CASE n = 23 /\ w = ToStamp
  BY <1>9, StampRuns
<1> QED BY <1>1, <1>2, <1>3, <1>4, <1>5, <1>6, <1>7, <1>8, <1>9 DEF Left

-----------------------------------------------------------------------------
(***************************************************************************)
(* A walk over a store that other processes have open.                     *)
(***************************************************************************)
\* A walk that is done is done with every step of it.
LEMMA DoneEarlier ==
  ASSUME NEW s, NEW c, Done(s, c, 24), NEW n \in 1..24
  PROVE  Done(s, c, n)
<1>1. \A step \in AlterNames : Place(step) < 24
  BY PlacesAre
<1> QED BY <1>1, ColumnsAre
        DEF Done, SourceDone, DimDone, AltersDone, SchemaDone, LayoutDone, StaticDone, TextDone

Spares(s, st) == st.op = "fill and purge" => \A d \in s.rows : d \notin st.arg

\* What a walk over a store that is done already may still run undoes nothing.
LEMMA CalmKeeps ==
  ASSUME NEW s, StoreTyped(s), NEW c \in Configs, NEW st \in Statements, Done(s, c, 24),
         st.op \in Calm, st.op # "check",
         Spares(s, st)
  PROVE  Done(After(s, st, c), c, 24)
<1> DEFINE t == After(s, st, c)
<1>0. s \in Store
  BY DEF StoreTyped
<1>1. CASE st.op = "schema"
  <2>1. SchemaMade(s, t, c)
    BY <1>0, <1>1, SchemaIs
  <2> HIDE DEF t
  <2>2. SourceDone(t, 24) /\ AltersDone(t, 24) /\ SchemaDone(t, 24)
    <3>1. 17 \in 1..24 /\ 24 \in 1..24
      OBVIOUS
    <3> QED BY <2>1, <3>1, SchemaDoneIs, DoneEarlier
  <2>3. s.vecDocs.layout # None
    BY DEF Done, LayoutDone
  <2>4. /\ t.vecDocs = s.vecDocs /\ t.rows = s.rows /\ t.staticDocs = s.staticDocs
        /\ t.staticChunks = s.staticChunks /\ t.fts = s.fts /\ t.tags = s.tags
        /\ t.chunks = s.chunks
    BY <2>1, <2>3 DEF SchemaMade, CreatedIfMissing, SameRows, SameStatic, SameText
  <2>5. DimDone(t, c, 24) /\ LayoutDone(t, 24) /\ StaticDone(t, c, 24) /\ TextDone(t, 24)
    BY <2>4 DEF Done, DimDone, LayoutDone, StaticDone, TextDone
  <2> QED BY <2>2, <2>5 DEF Done, t
<1>2. CASE st.op \in {"create static docs", "create static chunks"}
  <2>1. /\ SameSchema(s, t) /\ SameRows(s, t) /\ SameVecs(s, t) /\ SameText(s, t)
        /\ t.staticDocs \in {s.staticDocs, IF s.staticDocs = 0 THEN c.static ELSE s.staticDocs}
        /\ t.staticChunks \in
             {s.staticChunks, IF s.staticChunks = 0 THEN c.static ELSE s.staticChunks}
    <3>1. CASE st.op = "create static docs"
      BY <1>0, <3>1, CreateStaticDocsIs DEF StaticDocsMade
    <3>2. CASE st.op = "create static chunks"
      BY <1>0, <3>2, CreateStaticChunksIs DEF StaticChunksMade
    <3> QED BY <1>2, <3>1, <3>2
  <2> HIDE DEF t
  <2>2. SourceDone(t, 24) /\ AltersDone(t, 24) /\ SchemaDone(t, 24)
    BY <2>1 DEF Done, SourceDone, AltersDone, SchemaDone, SameSchema
  <2>3. DimDone(t, c, 24) /\ LayoutDone(t, 24)
    BY <2>1 DEF Done, DimDone, LayoutDone, SameRows, SameVecs
  <2>4. StaticDone(t, c, 24)
    BY <2>1 DEF Done, StaticDone
  <2>5. TextDone(t, 24)
    BY <2>1 DEF Done, TextDone, SameRows, SameText
  <2> QED BY <2>2, <2>3, <2>4, <2>5 DEF Done, t
<1>3. CASE st.op = "fill and purge"
  <2>1. FilledAndPurged(s, t, st)
    BY <1>0, <1>3, FillIs
  <2> HIDE DEF t
  <2>2. t.rows = s.rows /\ t.vecDocs = s.vecDocs /\ SameSchema(s, t) /\ SameStatic(s, t)
    BY <2>1 DEF FilledAndPurged, SameRows
  <2>3. \A d \in s.rows : t.fts[d] = 1
    <3>1. \A d \in s.rows : d \in Docs /\ d \notin st.arg
      BY <1>0, <1>3 DEF Store, Spares
    <3>2. \A d \in s.rows : s.fts[d] = 1
      BY DEF Done, TextDone
    <3> QED BY <2>1, <3>1, <3>2 DEF FilledAndPurged
  <2>4. TextDone(t, 24)
    BY <2>1, <2>2, <2>3 DEF TextDone, FilledAndPurged
  <2>5. SourceDone(t, 24) /\ AltersDone(t, 24) /\ SchemaDone(t, 24)
    BY <2>2 DEF Done, SourceDone, AltersDone, SchemaDone, SameSchema
  <2>6. DimDone(t, c, 24) /\ LayoutDone(t, 24) /\ StaticDone(t, c, 24)
    BY <2>2 DEF Done, DimDone, LayoutDone, StaticDone, SameStatic
  <2> QED BY <2>4, <2>5, <2>6 DEF Done, t
<1>4. CASE st.op = "stamp"
  <2>1. Stamped(s, t, c)
    BY <1>0, <1>4, StampIs
  <2> HIDE DEF t
  <2>2. /\ t.rows = s.rows /\ t.vecDocs = s.vecDocs /\ SameSchema(s, t) /\ SameStatic(s, t)
        /\ SameText(s, t)
    BY <2>1 DEF Stamped, SameRows, SameVecs
  <2>3. 24 \in 1..24
    OBVIOUS
  <2>4. Done(t, c, 24)
    BY <2>2, <2>3, DoneStays
  <2> QED BY <2>4 DEF t
<1> QED BY <1>1, <1>2, <1>3, <1>4 DEF Calm

\* The lists a second walk decides on.
LEMMA CalmLists ==
  /\ AllCalm(<< >>) /\ AllCalm(<<Check>>) /\ AllCalm(ToSchema) /\ AllCalm(ToMakeDocs)
  /\ AllCalm(ToStamp) /\ \A ds : AllCalm(ToFill(ds))
<1>1. AllCalm(<< >>)
  BY DEF AllCalm
<1>2. AllCalm(<<Check>>)
  <2>1. \A i \in DOMAIN <<Check>> : <<Check>>[i] = Check
    OBVIOUS
  <2> QED BY <2>1, CheckIs DEF AllCalm, Calm
<1>3. AllCalm(ToSchema)
  <2>1. \A i \in DOMAIN ToSchema : ToSchema[i] = Stmt("schema", {})
    BY DEF ToSchema
  <2>2. \A i \in DOMAIN ToSchema : ToSchema[i].op = "schema"
    BY <2>1, StmtIs
  <2> QED BY <2>2 DEF AllCalm, Calm
<1>4. AllCalm(ToStamp)
  <2>1. \A i \in DOMAIN ToStamp : ToStamp[i] = Stmt("stamp", {})
    BY DEF ToStamp
  <2>2. \A i \in DOMAIN ToStamp : ToStamp[i].op = "stamp"
    BY <2>1, StmtIs
  <2> QED BY <2>2 DEF AllCalm, Calm
<1>5. AllCalm(ToMakeDocs)
  <2>1. \A i \in DOMAIN ToMakeDocs :
          \/ ToMakeDocs[i] = Stmt("create static docs", {})
          \/ ToMakeDocs[i] = Stmt("create static chunks", {})
    <3> DEFINE z == Stmt("create static docs", {})
               u == Stmt("create static chunks", {})
    <3>1. ToMakeDocs = <<z, u>>
      BY DEF ToMakeDocs
    <3> HIDE DEF z, u
    <3>2. \A i \in DOMAIN <<z, u>> : <<z, u>>[i] = z \/ <<z, u>>[i] = u
      OBVIOUS
    <3> QED BY <3>1, <3>2 DEF z, u
  <2>2. \A i \in DOMAIN ToMakeDocs :
          ToMakeDocs[i].op \in {"create static docs", "create static chunks"}
    BY <2>1, StmtIs
  <2> QED BY <2>2 DEF AllCalm, Calm
<1>6. ASSUME NEW ds PROVE AllCalm(ToFill(ds))
  <2>1. \A i \in DOMAIN ToFill(ds) : ToFill(ds)[i] = Stmt("fill and purge", ds)
    <3> DEFINE z == Stmt("fill and purge", ds)
    <3>1. ToFill(ds) = <<z>>
      BY DEF ToFill
    <3> HIDE DEF z
    <3>2. \A i \in DOMAIN <<z>> : <<z>>[i] = z
      OBVIOUS
    <3> QED BY <3>1, <3>2 DEF z
  <2>2. \A i \in DOMAIN ToFill(ds) : ToFill(ds)[i].op = "fill and purge"
    BY <2>1, StmtIs
  <2> QED BY <2>2 DEF AllCalm, Calm
<1> QED BY <1>1, <1>2, <1>3, <1>4, <1>5, <1>6

\* A second walk at the same configuration decides on nothing else.
LEMMA CalmDecides ==
  ASSUME NEW s, StoreTyped(s), NEW c \in Configs, Done(s, c, 24), NEW n \in 1..23
  PROVE  AllCalm(Decide(s, Steps[n], c))
<1>1. /\ s.tables = Tables /\ AllColumns \cup {"source_id"} \subseteq s.cols
      /\ s.vecDocs.layout \notin {None, "flat", "partitioned", "model"}
      /\ s.vecDocs.dim # c.dim => s.rows # {}
      /\ c.static # 0 => s.staticDocs = c.static
  BY DEF Done, SchemaDone, LayoutDone, DimDone, StaticDone
<1>2. \A step \in AlterNames : Missing(s, step) = {}
  BY <1>1, OneTable DEF Missing
<1>3. CASE n = 1
  <2>1. Decide(s, Steps[n], c) = << >>
    BY <1>1, <1>3, DecideIs DEF MultiSource
  <2> QED BY <2>1, CalmLists
<1>4. CASE n = 2
  <2>1. Decide(s, Steps[n], c) = << >>
    BY <1>1, <1>4, DecideIs DEF Wipes
  <2> QED BY <2>1, CalmLists
<1>5. CASE n \in 3..16
  <2>1. Steps[n] \in AlterNames
    BY <1>5, PlacesAre
  <2>2. /\ AddColumns(s, Steps[n]) = << >> /\ CanonicalTopic(s) = << >>
        /\ Provenance(s) = << >> /\ Drift(s) = << >>
    <3>1. /\ Missing(s, "canonical_topic") = {} /\ Missing(s, "provenance") = {}
          /\ Missing(s, "chunk_provenance") = {} /\ Missing(s, "drift") = {}
          /\ Missing(s, Steps[n]) = {}
      BY <1>2, <2>1 DEF AlterNames
    <3> QED BY <3>1 DEF AddColumns, CanonicalTopic, Provenance, Drift, AddTogether
  <2>3. Decide(s, Steps[n], c) = << >>
    BY <1>5, <2>2, DecideIs
  <2> QED BY <2>3, CalmLists
<1>6. CASE n = 17
  <2>1. Decide(s, Steps[n], c) = ToSchema
    BY <1>6, DecideIs DEF ToSchema
  <2> QED BY <2>1, CalmLists
<1>7. CASE n \in 18..20
  <2>1. PartitionVec(s) = << >> /\ VecEmbedModel(s) = << >> /\ VecOwner(s) = << >>
    BY <1>1 DEF PartitionVec, VecEmbedModel, VecOwner, RebuildTo
  <2>2. Decide(s, Steps[n], c) = << >>
    <3>1. n = 18 \/ n = 19 \/ n = 20
      BY <1>7
    <3> QED BY <2>1, <3>1, DecideIs
  <2> QED BY <2>2, CalmLists
<1>8. CASE n = 21
  <2>1. Decide(s, Steps[n], c) = StaticVec(s, c)
    BY <1>8, DecideIs
  <2>2. CASE c.static = 0
    <3>1. StaticVec(s, c) = << >>
      BY <2>2 DEF StaticVec
    <3> QED BY <2>1, <3>1, CalmLists
  <2>3. CASE c.static # 0
    <3> DEFINE z == Stmt("create static docs", {})
               u == Stmt("create static chunks", {})
    <3>1. StaticVec(s, c) = << >> \o <<z, u>> /\ ToMakeDocs = <<z, u>>
      BY <1>1, <2>3 DEF StaticVec, ToMakeDocs
    <3> HIDE DEF z, u
    <3>2. StaticVec(s, c) = ToMakeDocs
      BY <3>1, JoinEmpty
    <3> QED BY <2>1, <3>2, CalmLists
  <2> QED BY <2>2, <2>3
<1>9. CASE n = 22
  <2>1. Decide(s, Steps[n], c) = ToFill(Unfilled(s))
    BY <1>9, DecideIs DEF ToFill
  <2> QED BY <2>1, CalmLists
<1>10. CASE n = 23
  <2>1. Decide(s, Steps[n], c) = Stamp(s, c)
    BY <1>10, DecideIs
  <2>2. Stamp(s, c) = ToStamp \/ Stamp(s, c) = << >>
    BY DEF Stamp, ToStamp
  <2> QED BY <2>1, <2>2, CalmLists
<1> QED BY <1>3, <1>4, <1>5, <1>6, <1>7, <1>8, <1>9, <1>10

LEMMA CalmTail ==
  ASSUME NEW w \in Seq(Statements), w # << >>, AllCalm(w)
  PROVE  Head(w).op \in Calm /\ AllCalm(Tail(w))
<1>1. \A i \in DOMAIN Tail(w) : i + 1 \in DOMAIN w /\ Tail(w)[i] = w[i + 1]
  OBVIOUS
<1> QED BY <1>1, HeadAt DEF AllCalm

\* Outside HalfDone the store is as between two migrations.
LEMMA FormedBack ==
  ASSUME NEW s, NEW op, Formed(s, op), op \notin HalfDone
  PROVE  Formed(s, "check")
BY DEF Formed, CopyFormed, HalfDone

-----------------------------------------------------------------------------
(***************************************************************************)
(* Each action keeps the inductive invariant.                              *)
(***************************************************************************)
\* One process goes on with its walk.
LEMMA AdvanceKeeps ==
  ASSUME NEW p \in Procs, ProcsTyped, OneOpens, Opening(p), NEW rest \in Seq(Statements),
         Advance(p, rest), cfg' = cfg,
         Onward(db', cfg[p], pc[p], rest), Kept(db', stored'),
         \A q \in Procs : pc[q] = Opened => Done(db', cfg[p], 24) /\ AllCalm(rest)
  PROVE  Aligned'
<1> DEFINE n == pc[p]
           c == cfg[p]
<1>1. n \in 1..23 /\ Opened = 24 /\ Len(Steps) = 23
  BY OpeningIs, StepsAre
<1>2. /\ ProcsTyped'
      /\ \A q \in Procs : q # p => pc'[q] = pc[q] /\ due'[q] = due[q]
      /\ rest = << >> => /\ pc'[p] = n + 1
                         /\ n = 23 => due'[p] = << >>
                         /\ n # 23 => due'[p] = <<Check>>
      /\ rest # << >> => pc'[p] = n /\ due'[p] = rest
  BY AdvanceIs
<1>3. \A q \in Procs : pc[q] # 0 => cfg[q] = c
  <2>1. pc[p] # 0
    <3>1. \A k \in 1..23 : k # 0
      OBVIOUS
    <3> QED BY <1>1, <3>1, Zenon
  <2> QED BY <2>1 DEF OneOpens
<1>4. \A q \in Procs : q # p => pc[q] \notin 1..23
  BY <1>1 DEF OneOpens, Opening
<1>5. /\ rest = << >> => Done(db', c, n + 1) /\ Formed(db', "check")
      /\ rest # << >> => Left(db', c, n, rest) /\ Done(db', c, n) /\ Formed(db', Head(rest).op)
  BY DEF Onward
<1>6. /\ rest = << >> /\ n = 23 => pc'[p] = 24
      /\ rest = << >> /\ n # 23 => pc'[p] \in 1..23 /\ due'[p] = <<Check>>
      /\ rest # << >> => pc'[p] \in 1..23 /\ due'[p] = rest
  <2>1. CASE rest = << >> /\ n = 23
    <3>1. pc'[p] = n + 1
      BY <1>2, <2>1
    <3> QED BY <2>1, <3>1
  <2>2. CASE rest = << >> /\ n # 23
    <3>1. pc'[p] = n + 1 /\ due'[p] = <<Check>>
      BY <1>2, <2>2
    <3>2. n + 1 \in 1..23
      BY <1>1, <2>2
    <3> QED BY <2>2, <3>1, <3>2
  <2>3. CASE rest # << >>
    BY <1>1, <1>2, <2>3
  <2> QED BY <2>1, <2>2, <2>3
<1>7. OneOpens'
  <2>1. \A q \in Procs : pc'[q] # 0 => cfg'[q] = c
    BY <1>2, <1>3
  <2>2. \A q \in Procs : pc'[q] \in 1..23 => q = p
    BY <1>2, <1>4
  <2> QED BY <1>1, <2>1, <2>2 DEF OneOpens, Opening
<1>8. /\ Head(<<Check>>) = Check /\ Check.op = "check"
      /\ \A m : Left(db', c, m, <<Check>>)
  BY CheckIs DEF Left
<1>9. WalkInv'
  <2>1. ASSUME NEW q \in Procs, pc'[q] \in 1..23
        PROVE  /\ Left(db', cfg'[q], pc'[q], due'[q]) /\ Done(db', cfg'[q], pc'[q])
               /\ Formed(db', Head(due'[q]).op)
    <3>1. q = p
      BY <1>2, <1>4, <2>1
    <3>2. CASE rest = << >>
      <4>0. 24 \notin 1..23
        OBVIOUS
      <4>1. n # 23
        BY <1>6, <2>1, <3>1, <3>2, <4>0, Zenon
      <4>2. pc'[p] = n + 1 /\ due'[p] = <<Check>>
        BY <1>2, <3>2, <4>1
      <4>3. cfg'[p] = c
        OBVIOUS
      <4> QED BY <1>5, <1>8, <3>1, <3>2, <4>2, <4>3
    <3>3. CASE rest # << >>
      BY <1>2, <1>5, <3>1, <3>3
    <3> QED BY <3>2, <3>3
  <2>2. ASSUME \A q \in Procs : pc'[q] \notin 1..23 PROVE Formed(db', "check")
    <3>1. rest = << >>
      BY <1>6, <2>2
    <3> QED BY <1>5, <3>1
  <2> QED BY <1>1, <2>1, <2>2 DEF WalkInv, Opening
<1>10. OpenInv'
  <2>1. ASSUME NEW q \in Procs, pc'[q] = 24
        PROVE  /\ Done(db', cfg'[q], 24)
               /\ \A r \in Procs : pc'[r] \in 1..23 => AllCalm(due'[r])
    <3>1. CASE q = p
      <4>1. rest = << >> /\ n = 23
        BY <1>6, <2>1, <3>1
      <4>2. n + 1 = 24
        BY <4>1
      <4>3. Done(db', c, 24)
        BY <1>5, <4>1, <4>2
      <4>4. \A r \in Procs : pc'[r] \notin 1..23
        <5>1. pc'[p] \notin 1..23
          BY <2>1, <3>1
        <5> QED BY <1>2, <1>4, <5>1
      <4> QED BY <3>1, <4>3, <4>4
    <3>2. CASE q # p
      <4>1. pc[q] = Opened /\ cfg[q] = c
        BY <1>1, <1>2, <1>3, <2>1, <3>2
      <4>2. Done(db', c, 24) /\ AllCalm(rest)
        BY <4>1
      <4>3. AllCalm(due'[p])
        BY <1>2, <4>2, CalmLists
      <4> QED BY <1>2, <1>4, <4>1, <4>2, <4>3
    <3> QED BY <3>1, <3>2
  <2> QED BY <1>1, <2>1 DEF OpenInv, Opening
<1> QED BY <1>7, <1>9, <1>10 DEF Aligned

\* A check that passes.
LEMMA DecidesKeeps ==
  ASSUME NEW p \in Procs, WalkTyped, Aligned, Decides(p)
  PROVE  Aligned'
<1> DEFINE w == Decide(db, Step(p), cfg[p])
<1>1. Opening(p) /\ Head(due[p]) = Check /\ Advance(p, w) /\ db' = db /\ cfg' = cfg
      /\ stored' = stored
  BY DEF Decides
<1>2. pc[p] \in 1..23 /\ cfg[p] \in Configs /\ StoreTyped(db) /\ db \in Store
      /\ ProcsTyped /\ Opened = 24
  BY <1>1, OpeningIs, HeadIs, StepsAre DEF WalkTyped, StoreTyped
<1>3. Formed(db, "check") /\ Done(db, cfg[p], pc[p])
  BY <1>1, CheckIs DEF Aligned, WalkInv
<1>4. Onward(db, cfg[p], pc[p], w) /\ w \in Seq(Statements)
  BY <1>2, <1>3, DecideOnward, DecideTyped DEF Aligned, Step
<1>5. ASSUME NEW q \in Procs, pc[q] = Opened PROVE Done(db, cfg[p], 24) /\ AllCalm(w)
  <2>1. cfg[q] = cfg[p]
    BY <1>2, <1>5 DEF Aligned, OneOpens
  <2>2. Done(db, cfg[p], 24)
    BY <1>2, <1>5, <2>1 DEF Aligned, OpenInv
  <2> QED BY <1>2, <2>2, CalmDecides DEF Step
<1> HIDE DEF w
<1>6. Kept(db', stored') /\ OneOpens
  BY <1>1 DEF Aligned
<1>7. Onward(db', cfg[p], pc[p], w)
  BY <1>1, <1>4
<1>8. \A q \in Procs : pc[q] = Opened => Done(db', cfg[p], 24) /\ AllCalm(w)
  BY <1>1, <1>5
<1> QED BY <1>1, <1>2, <1>4, <1>6, <1>7, <1>8, AdvanceKeeps

\* What the sole walk has to run, by where it stands.
LEMMA WalkIs ==
  ASSUME NEW p \in Procs, WalkTyped, Aligned, Opening(p), Head(due[p]) # Check
  PROVE  /\ pc[p] \in 1..23 /\ cfg[p] \in Configs /\ StoreTyped(db) /\ ProcsTyped
         /\ due[p] \in Seq(Statements) /\ due[p] # << >> /\ due[p] # <<Check>>
         /\ Head(due[p]) \in Statements /\ Tail(due[p]) \in Seq(Statements)
         /\ Left(db, cfg[p], pc[p], due[p]) /\ Done(db, cfg[p], pc[p])
         /\ Formed(db, Head(due[p]).op)
         /\ \/ Halts(db, cfg[p], due[p])
            \/ RunsOn(db, cfg[p], pc[p], due[p], stored)
<1>1. pc[p] \in 1..23 /\ cfg[p] \in Configs /\ StoreTyped(db) /\ ProcsTyped
  BY OpeningIs, HeadIs DEF WalkTyped
<1>2. /\ due[p] \in Seq(Statements) /\ due[p] # << >>
      /\ Head(due[p]) \in Statements /\ Tail(due[p]) \in Seq(Statements)
  BY <1>1, HeadIs
<1>3. due[p] # <<Check>>
  <2>1. Head(<<Check>>) = Check
    OBVIOUS
  <2> QED BY <2>1
<1>4. /\ Left(db, cfg[p], pc[p], due[p]) /\ Done(db, cfg[p], pc[p])
      /\ Formed(db, Head(due[p]).op) /\ Kept(db, stored)
  BY DEF Aligned, WalkInv
<1> QED BY <1>1, <1>2, <1>3, <1>4, RunOnward

\* docs_fts is full once the walk is done: nothing is left to fill.
LEMMA NothingToFill ==
  ASSUME NEW s, NEW c, Done(s, c, 24), NEW n \in 1..23, NEW w \in Seq(Statements), w # << >>,
         Left(s, c, n, w)
  PROVE  Spares(s, Head(w))
<1>1. Head(w).op = "fill and purge" => FillLeft(s, w)
  <2>1. \A l : Head(ToRelay(l)).op = "rebuild"
    BY OpsAre
  <2>2. Adding(s, n, w) => Head(w).op = "add"
    BY HeadAt DEF Adding
  <2>3. w \in {<<Check>>, ToCreate, ToCopy, ToDrop, ToRename, ToWipe, ToAddTopic, ToBackfill,
               ToSchema, ToDropDocs, ToDropChunks, ToMakeDocs, ToMakeChunks, ToStamp}
          => Head(w).op # "fill and purge"
    <3>0. Head(<<Check>>) = Check
      OBVIOUS
    <3>1. Head(<<Check>>).op = "check"
      BY <3>0, CheckIs
    <3> QED BY <3>1, OpsAre
  <2>4. \A l : w = ToRelay(l) => Head(w).op # "fill and purge"
    BY <2>1
  <2> QED BY <2>2, <2>3, <2>4 DEF Left, CopyLeft, TopicLeft, StaticLeft
<1>2. CASE Head(w).op # "fill and purge"
  BY <1>2 DEF Spares
<1>3. CASE FillLeft(s, w)
  <2>1. PICK some \in SUBSET s.rows :
          w = ToFill(some) /\ \A e \in s.rows : s.fts[e] = IF e \in some THEN 0 ELSE 1
    BY <1>3 DEF FillLeft
  <2>2. Head(w).arg = some
    <3>1. Head(ToFill(some)).arg = some
      BY OpsAre
    <3> QED BY <2>1, <3>1
  <2>3. \A e \in s.rows : s.fts[e] = 1
    BY DEF Done, TextDone
  <2>4. \A e \in s.rows : e \notin some
    BY <2>1, <2>3
  <2> QED BY <2>2, <2>4, Zenon DEF Spares
<1> QED BY <1>1, <1>2, <1>3

\* A statement SQLite accepts.
LEMMA RunsKeeps ==
  ASSUME NEW p \in Procs, WalkTyped, Aligned, Runs(p)
  PROVE  Aligned'
<1> DEFINE w == due[p]
           c == cfg[p]
<1>1. /\ Opening(p) /\ Head(w) # Check /\ ~Fails(db, Head(w), c)
      /\ db' = After(db, Head(w), c) /\ Advance(p, Tail(w)) /\ cfg' = cfg /\ stored' = stored
  BY DEF Runs
<1>2. /\ pc[p] \in 1..23 /\ c \in Configs /\ StoreTyped(db) /\ ProcsTyped
      /\ w \in Seq(Statements) /\ w # << >> /\ w # <<Check>>
      /\ Head(w) \in Statements /\ Tail(w) \in Seq(Statements)
      /\ Left(db, c, pc[p], w) /\ Done(db, c, pc[p])
      /\ Halts(db, c, w) \/ RunsOn(db, c, pc[p], w, stored)
  BY <1>1, WalkIs
<1>3. RunsOn(db, c, pc[p], w, stored)
  <2>1. Halts(db, c, w) => Fails(db, Head(w), c)
    BY DEF Halts, Behind, Fails
  <2> QED BY <1>1, <1>2, <2>1
<1>4. Onward(db', c, pc[p], Tail(w)) /\ Kept(db', stored')
  BY <1>1, <1>3 DEF RunsOn
<1>5. ASSUME NEW q \in Procs, pc[q] = Opened PROVE Done(db', c, 24) /\ AllCalm(Tail(w))
  <2>1. Opened = 24
    BY StepsAre
  <2>2. cfg[q] = c
    <3>1. \A k : k \in 1..23 \/ k = 24 => k # 0
      OBVIOUS
    <3>2. pc[q] # 0 /\ pc[p] # 0
      BY <1>2, <1>5, <2>1, <3>1, Zenon
    <3> QED BY <3>2 DEF Aligned, OneOpens
  <2>3. Done(db, c, 24) /\ AllCalm(w)
    BY <1>1, <1>5, <2>1, <2>2 DEF Aligned, OpenInv
  <2>4. Head(w).op \in Calm /\ AllCalm(Tail(w))
    BY <1>2, <2>3, CalmTail
  <2>5. Head(w).op # "check"
    BY <1>1, <1>2, CheckIs, StmtIs DEF Statements, Stmt, Plain
  <2>6. Spares(db, Head(w))
    BY <1>2, <2>3, NothingToFill
  <2> QED BY <1>1, <1>2, <2>3, <2>4, <2>5, <2>6, CalmKeeps
<1>6. OneOpens
  BY DEF Aligned
<1> QED BY <1>1, <1>2, <1>4, <1>5, <1>6, AdvanceKeeps

\* While the store is open, what another walk has left stays as it is.
LEMMA CalmLeft ==
  ASSUME NEW s, NEW t, NEW c, NEW n \in 1..23, NEW w \in Seq(Statements), w # << >>,
         Left(s, c, n, w), AllCalm(w), Done(s, c, 24), Done(t, c, 24), SameStatic(s, t)
  PROVE  Left(t, c, n, w)
<1>1. Head(w).op \in Calm
  BY CalmTail
<1>2. /\ Head(w).op \notin {"create docs_new", "copy docs", "drop docs", "rename docs_new", "wipe",
                            "add", "backfill topics", "rebuild", "drop static docs",
                            "drop static chunks"}
  BY <1>1 DEF Calm
<1>3. w \notin {ToCreate, ToCopy, ToDrop, ToRename, ToWipe, ToAddTopic, ToBackfill, ToDropDocs,
                ToDropChunks}
  BY <1>2, OpsAre
<1>4. \A l : w # ToRelay(l)
  <2>1. \A l : Head(ToRelay(l)).op = "rebuild"
    BY OpsAre
  <2> QED BY <1>2, <2>1
<1>5. ~Adding(s, n, w)
  BY <1>2, HeadAt DEF Adding
<1>6. \/ w = <<Check>>
      \/ n = 17 /\ w = ToSchema
      \/ n = 21 /\ StaticLeft(s, c, w)
      \/ n = 22 /\ FillLeft(s, w)
      \/ n = 23 /\ w = ToStamp
  BY <1>3, <1>4, <1>5 DEF Left, CopyLeft, TopicLeft
<1>7. StaticLeft(s, c, w) => StaticLeft(t, c, w)
  BY DEF StaticLeft, SameStatic
<1>8. FillLeft(s, w) => FillLeft(t, w)
  <2> SUFFICES ASSUME NEW ds \in SUBSET s.rows, w = ToFill(ds),
                      \A d \in s.rows : s.fts[d] = IF d \in ds THEN 0 ELSE 1
               PROVE  FillLeft(t, w)
    BY DEF FillLeft
  <2>1. (\A d \in s.rows : s.fts[d] = 1) /\ (\A d \in t.rows : t.fts[d] = 1)
    BY DEF Done, TextDone
  <2>2. ds = {}
    BY <2>1
  <2>3. {} \in SUBSET t.rows /\ w = ToFill({})
    BY <2>2
  <2>4. \A d \in t.rows : t.fts[d] = IF d \in {} THEN 0 ELSE 1
    BY <2>1
  <2> QED BY <2>3, <2>4 DEF FillLeft
<1> QED BY <1>6, <1>7, <1>8 DEF Left

\* What is known of the store while some process has it open.
LEMMA OpenKnows ==
  ASSUME NEW p \in Procs, WalkTyped, Aligned, pc[p] = Opened
  PROVE  /\ cfg[p] \in Configs /\ StoreTyped(db) /\ ProcsTyped
         /\ Done(db, cfg[p], 24) /\ Formed(db, "check") /\ Kept(db, stored)
         /\ \A q \in Procs : pc[q] # 0 => cfg[q] = cfg[p]
         /\ \A q \in Procs : Opening(q) =>
              AllCalm(due[q]) /\ Left(db, cfg[p], pc[q], due[q])
<1>1. Opened = 24 /\ pc[p] # 0
  BY StepsAre
<1>2. cfg[p] \in Configs
  BY <1>1 DEF WalkTyped, ProcsTyped
<1>3. Done(db, cfg[p], 24)
  BY <1>1 DEF Aligned, OpenInv
<1>4. \A q \in Procs : pc[q] # 0 => cfg[q] = cfg[p]
  BY <1>1 DEF Aligned, OneOpens
<1>5. \A q \in Procs : Opening(q) => pc[q] # 0
  BY OpeningIs DEF WalkTyped
<1>6. \A q \in Procs : Opening(q) => AllCalm(due[q]) /\ Left(db, cfg[p], pc[q], due[q])
  BY <1>4, <1>5 DEF Aligned, OpenInv, WalkInv
<1>7. Formed(db, "check")
  <2>1. CASE \E q \in Procs : Opening(q)
    <3>1. PICK q \in Procs : Opening(q)
      BY <2>1
    <3>2. Head(due[q]).op \in Calm
      BY <1>6, <3>1, HeadIs, CalmTail DEF WalkTyped
    <3>3. Head(due[q]).op \notin HalfDone
      BY <3>2 DEF Calm, HalfDone
    <3>4. Formed(db, Head(due[q]).op)
      BY <3>1 DEF Aligned, WalkInv
    <3> QED BY <3>3, <3>4, FormedBack
  <2>2. CASE \A q \in Procs : ~Opening(q)
    BY <2>2 DEF Aligned, WalkInv
  <2> QED BY <2>1, <2>2
<1> QED BY <1>2, <1>3, <1>4, <1>6, <1>7 DEF WalkTyped, Aligned

\* A step of a process that has the store open, at the end of which the store
\* is as complete as it was.
LEMMA OpenStays ==
  ASSUME NEW p \in Procs, WalkTyped, Aligned, pc[p] = Opened, UNCHANGED <<pc, due, cfg>>,
         Done(db', cfg[p], 24), Formed(db', "check"), Kept(db', stored'), SameStatic(db, db')
  PROVE  Aligned'
<1>1. /\ Done(db, cfg[p], 24)
      /\ \A q \in Procs : pc[q] # 0 => cfg[q] = cfg[p]
      /\ \A q \in Procs : Opening(q) => AllCalm(due[q]) /\ Left(db, cfg[p], pc[q], due[q])
  BY OpenKnows
<1>2. ASSUME NEW q \in Procs, Opening(q)
      PROVE  /\ Left(db', cfg[q], pc[q], due[q]) /\ Done(db', cfg[q], pc[q])
             /\ Formed(db', Head(due[q]).op)
  <2>0. /\ pc[q] \in 1..23 /\ due[q] \in Seq(Statements) /\ due[q] # << >>
    BY <1>2, OpeningIs, HeadIs DEF WalkTyped
  <2>1. pc[q] \in 1..23 /\ pc[q] \in 1..24 /\ pc[q] # 0 /\ due[q] \in Seq(Statements)
          /\ due[q] # << >>
    <3>1. \A k \in 1..23 : k \in 1..24 /\ k # 0
      OBVIOUS
    <3> QED BY <2>0, <3>1, Zenon
  <2>2. cfg[q] = cfg[p] /\ AllCalm(due[q])
    BY <1>1, <1>2, <2>1
  <2>3. Left(db', cfg[p], pc[q], due[q])
    BY <1>1, <1>2, <2>1, CalmLeft
  <2>4. Done(db', cfg[p], pc[q])
    BY <2>1, DoneEarlier
  <2>5. Head(due[q]).op \notin CopyOps
    BY <2>1, <2>2, CalmTail DEF Calm, CopyOps
  <2>6. Formed(db', Head(due[q]).op)
    BY <2>5, FormedStays
  <2> QED BY <2>2, <2>3, <2>4, <2>6
<1>3. WalkInv'
  BY <1>2 DEF WalkInv, Opening
<1>4. OpenInv'
  <2>1. Opened = 24
    BY StepsAre
  <2>2. ASSUME NEW q \in Procs, pc[q] = Opened PROVE Done(db', cfg[q], 24)
    <3>1. cfg[q] = cfg[p]
      BY <1>1, <2>1, <2>2
    <3> QED BY <3>1
  <2>3. \A q \in Procs : Opening(q) => AllCalm(due[q])
    BY <1>1
  <2> QED BY <2>1, <2>2, <2>3 DEF OpenInv, Opening
<1>5. OneOpens'
  BY DEF Aligned, OneOpens, Opening
<1> QED BY <1>3, <1>4, <1>5 DEF Aligned

\* A store t that differs from s by the doc d, embedded by the model m.
Written(s, t, d, owned, m) ==
  /\ SameSchema(s, t) /\ SameCopy(s, t) /\ SameStatic(s, t)
  /\ t.rows = s.rows \cup {d} /\ t.live = s.live \cup {d}
  /\ owned => t.owned = s.owned \cup {d} /\ t.topic = s.topic \cup {d}
  /\ ~owned => t.owned = s.owned /\ t.topic = s.topic
  /\ t.chunks = s.chunks \cup {d} /\ t.tags = s.tags \cup {d}
  /\ \A e \in Docs : t.fts[e] = IF e = d THEN 1 ELSE s.fts[e]
  /\ t.vecDocs.layout = s.vecDocs.layout /\ t.vecDocs.dim = s.vecDocs.dim
  /\ t.vecChunks.layout = s.vecChunks.layout /\ t.vecChunks.dim = s.vecChunks.dim
  /\ \A e \in Docs : /\ t.vecDocs.rows[e] = IF e = d THEN m ELSE s.vecDocs.rows[e]
                     /\ t.vecChunks.rows[e] = IF e = d THEN m ELSE s.vecChunks.rows[e]

\* What a write changes.
LEMMA WriteIs ==
  ASSUME NEW p \in Procs, NEW d \in Docs, NEW owned \in BOOLEAN, WalkTyped, Write(p, d, owned)
  PROVE  Written(db, db', d, owned, cfg[p].model)
<1>1. db \in Store
  BY DEF WalkTyped, StoreTyped
<1> DEFINE own == IF owned THEN db.owned \cup {d} ELSE db.owned
           topics == IF owned THEN db.topic \cup {d} ELSE db.topic
           fts == [db.fts EXCEPT ![d] = 1]
           vd == [db.vecDocs EXCEPT !.rows[d] = cfg[p].model]
           vc == [db.vecChunks EXCEPT !.rows[d] = cfg[p].model]
<1>2. db' = [db EXCEPT !.rows = db.rows \cup {d}, !.live = db.live \cup {d},
                       !.owned = own, !.topic = topics,
                       !.chunks = db.chunks \cup {d}, !.tags = db.tags \cup {d}, !.fts = fts,
                       !.vecDocs = vd, !.vecChunks = vc]
  BY <1>1 DEF Write, Store
<1>3. /\ owned => own = db.owned \cup {d} /\ topics = db.topic \cup {d}
      /\ ~owned => own = db.owned /\ topics = db.topic
  OBVIOUS
<1>4. \A e \in Docs : fts[e] = IF e = d THEN 1 ELSE db.fts[e]
  BY <1>1 DEF Store
<1>5. /\ vd.layout = db.vecDocs.layout /\ vd.dim = db.vecDocs.dim
      /\ \A e \in Docs : vd.rows[e] = IF e = d THEN cfg[p].model ELSE db.vecDocs.rows[e]
  BY <1>1 DEF Store, VecTable
<1>6. /\ vc.layout = db.vecChunks.layout /\ vc.dim = db.vecChunks.dim
      /\ \A e \in Docs : vc.rows[e] = IF e = d THEN cfg[p].model ELSE db.vecChunks.rows[e]
  BY <1>1 DEF Store, VecTable
<1> HIDE DEF own, topics, fts, vd, vc
<1>7. /\ db'.owned = own /\ db'.topic = topics /\ db'.fts = fts
      /\ db'.vecDocs = vd /\ db'.vecChunks = vc
      /\ db'.rows = db.rows \cup {d} /\ db'.live = db.live \cup {d}
      /\ db'.chunks = db.chunks \cup {d} /\ db'.tags = db.tags \cup {d}
  BY <1>1, <1>2 DEF Store
<1>8. SameSchema(db, db') /\ SameCopy(db, db') /\ SameStatic(db, db')
  BY <1>1, <1>2 DEF Store, SameSchema, SameCopy, SameStatic
<1> QED BY <1>3, <1>4, <1>5, <1>6, <1>7, <1>8 DEF Written

\* What the store holds is kept, once it is counted among what it held.
LEMMA GrownKept ==
  ASSUME NEW t, NEW held, Embedded(t, held), t.rows = held.rows \cup t.rows, t.scratchRows = {},
         Filled(t, t.rows)
  PROVE  Kept(t, Both(held, Held(t)))
<1> DEFINE all == Both(held, Held(t))
<1>1. /\ all.rows = t.rows
      /\ all.vecDocs = held.vecDocs \cup {d \in t.rows : t.vecDocs.rows[d] # None}
      /\ all.vecChunks =
           held.vecChunks \cup {d \in t.rows \cap t.chunks : t.vecChunks.rows[d] # None}
  BY DEF Both, Held
<1> HIDE DEF all
<1>2. Embedded(t, all)
  BY <1>1 DEF Embedded
<1>3. Kept(t, all)
  BY <1>1, <1>2 DEF Kept
<1> QED BY <1>3 DEF all

\* What a write leaves of a complete store.
LEMMA WrittenKeeps ==
  ASSUME NEW s, StoreTyped(s), NEW t, NEW c \in Configs, NEW d \in Docs, d \notin s.rows,
         NEW owned \in BOOLEAN, owned => s.topic \cap s.live = {},
         Written(s, t, d, owned, c.model), Done(s, c, 24), Formed(s, "check"),
         s.vecChunks.layout # None, NEW held, Kept(s, held)
  PROVE  /\ Done(t, c, 24) /\ Formed(t, "check") /\ Kept(t, Both(held, Held(t)))
         /\ SameStatic(s, t)
<1>1. s \in Store /\ s.topic \subseteq s.owned /\ s.owned \subseteq s.rows /\ s.rows \subseteq Docs
  BY DEF StoreTyped, Store
<1>2. /\ NoCopy(s) /\ Tabled(s) /\ Unindexed(s) /\ OneLive(s) /\ StaticPaired(s)
  BY DEF Formed, CopyFormed
<1>3. /\ \A e \in s.rows : s.fts[e] = 1
      /\ s.tags \cup s.chunks \subseteq s.rows
      /\ s.tables = Tables /\ AllColumns \subseteq s.cols
      /\ s.vecDocs.layout # None
  BY DEF Done, TextDone, SchemaDone, LayoutDone
<1>4. SameSchema(s, t) /\ SameCopy(s, t) /\ SameStatic(s, t)
  BY DEF Written
<1>5. /\ t.rows = s.rows \cup {d} /\ t.live = s.live \cup {d}
      /\ t.chunks = s.chunks \cup {d} /\ t.tags = s.tags \cup {d}
  BY DEF Written
<1>6. SourceDone(t, 24) /\ AltersDone(t, 24) /\ SchemaDone(t, 24)
  BY <1>4 DEF Done, SourceDone, AltersDone, SchemaDone, SameSchema
<1>7. DimDone(t, c, 24) /\ LayoutDone(t, 24)
  <2>1. t.vecDocs.layout = s.vecDocs.layout /\ t.rows # {}
    BY <1>5 DEF Written
  <2> QED BY <2>1 DEF Done, DimDone, LayoutDone
<1>8. StaticDone(t, c, 24)
  BY <1>4 DEF Done, StaticDone, SameStatic
<1>9. \A e \in t.rows : t.fts[e] = 1
  BY <1>1, <1>3, <1>5 DEF Written
<1>10. TextDone(t, 24)
  BY <1>3, <1>5, <1>9 DEF TextDone
<1>11. OneLive(t)
  <2>1. s.topic = s.owned /\ \A x, y \in s.owned \cap s.live : x = y
    <3>1. "canonical_topic" \in s.cols
      BY <1>3, SomeColumns
    <3> QED BY <1>2, <3>1 DEF OneLive
  <2>2. CASE owned
    <3>1. t.owned = s.owned \cup {d} /\ t.topic = s.topic \cup {d}
      BY <2>2 DEF Written
    <3>2. \A x \in t.owned \cap t.live : x = d
      BY <1>5, <2>1, <2>2, <3>1
    <3> QED BY <2>1, <3>1, <3>2 DEF OneLive
  <2>3. CASE ~owned
    <3>1. t.owned = s.owned /\ t.topic = s.topic
      BY <2>3 DEF Written
    <3>2. t.owned \cap t.live = s.owned \cap s.live
      BY <1>1, <1>5, <3>1
    <3> QED BY <2>1, <3>1, <3>2 DEF OneLive
  <2> QED BY <2>2, <2>3
<1>12. DocsFirst(t)
  BY <1>3, <1>4 DEF DocsFirst, SameSchema, Tables
<1>13. /\ NoCopy(t) /\ Unindexed(t) /\ StaticPaired(t)
  BY <1>2, <1>4 DEF NoCopy, Unindexed, StaticPaired, SameSchema, SameCopy, SameStatic
<1>14. Tabled(t)
  BY <1>2, <1>3 DEF Tabled, Written
<1>15. Formed(t, "check")
  BY <1>11, <1>12, <1>13, <1>14 DEF Formed, CopyFormed
<1>16. Kept(t, Both(held, Held(t)))
  <2>1. held.rows = s.rows
    BY <1>2 DEF Kept, NoCopy
  <2>2. t.rows = held.rows \cup t.rows /\ t.scratchRows = {}
    BY <1>5, <1>13, <2>1 DEF NoCopy
  <2>3. Filled(t, t.rows)
    BY <1>9 DEF Filled
  <2>4. c.model # None
    BY ConfigsAreSet
  <2>5. Embedded(t, held)
    <3>1. /\ held.vecDocs \subseteq s.rows /\ held.vecChunks \subseteq s.rows \cap t.chunks
          /\ \A e \in held.vecDocs : s.vecDocs.rows[e] # None
          /\ \A e \in held.vecChunks : s.vecChunks.rows[e] # None
      BY <1>5, <2>1 DEF Kept, Embedded
    <3>2. \A e \in Docs : /\ t.vecDocs.rows[e] \in {c.model, s.vecDocs.rows[e]}
                          /\ t.vecChunks.rows[e] \in {c.model, s.vecChunks.rows[e]}
      BY DEF Written
    <3> QED BY <1>1, <2>1, <2>4, <3>1, <3>2 DEF Embedded
  <2> QED BY <2>2, <2>3, <2>5, GrownKept
<1> QED BY <1>4, <1>6, <1>7, <1>8, <1>10, <1>15, <1>16 DEF Done

\* A write of a process that has the store open.
LEMMA WriteKeeps ==
  ASSUME NEW p \in Procs, NEW d \in Docs, NEW owned \in BOOLEAN, WalkTyped, Aligned,
         Write(p, d, owned)
  PROVE  Aligned'
<1>1. /\ pc[p] = Opened /\ d \notin db.rows /\ (owned => db.topic \cap db.live = {})
      /\ stored' = Both(stored, Held(db')) /\ UNCHANGED <<pc, due, cfg>>
      /\ db.vecChunks.layout # None
  BY DEF Write, None
<1>2. Written(db, db', d, owned, cfg[p].model)
  BY WriteIs
<1>3. /\ cfg[p] \in Configs /\ StoreTyped(db) /\ Done(db, cfg[p], 24) /\ Formed(db, "check")
      /\ Kept(db, stored)
  BY <1>1, OpenKnows
<1>4. Done(db', cfg[p], 24) /\ Formed(db', "check") /\ Kept(db', stored') /\ SameStatic(db, db')
  <2>1. \A held : Kept(db, held) =>
          /\ Done(db', cfg[p], 24) /\ Formed(db', "check") /\ Kept(db', Both(held, Held(db')))
          /\ SameStatic(db, db')
    <3> DEFINE t == db'
    <3>1. Written(db, t, d, owned, cfg[p].model)
      BY <1>2
    <3> HIDE DEF t
    <3> QED BY <1>1, <1>3, <3>1, WrittenKeeps DEF t
  <2> QED BY <1>1, <1>3, <2>1
<1> QED BY <1>1, <1>4, OpenStays

\* What rebuild_vec leaves of a complete store.
LEMMA RebuildKeeps ==
  ASSUME NEW p \in Procs, WalkTyped, Aligned, Rebuild(p)
  PROVE  Aligned'
<1> DEFINE c == cfg[p]
<1>1. /\ pc[p] = Opened /\ stored' = Both(stored, Held(db')) /\ UNCHANGED <<pc, due, cfg>>
  BY DEF Rebuild
<1>2. /\ c \in Configs /\ StoreTyped(db) /\ db \in Store /\ Done(db, c, 24)
      /\ Formed(db, "check") /\ Kept(db, stored)
  BY <1>1, OpenKnows DEF StoreTyped
<1>3. c.model # None
  BY <1>2, ConfigsAreSet
<1> DEFINE made(ds) == [d \in Docs |-> IF d \in ds THEN c.model ELSE None]
           vd == [layout |-> "owner", dim |-> c.dim, rows |-> made(db.rows)]
           vc == [layout |-> "model", dim |-> c.dim, rows |-> made(db.chunks)]
<1>4. db' = [db EXCEPT !.vecDocs = vd, !.vecChunks = vc, !.stamp = c.model]
  BY DEF Rebuild
<1>5. /\ vd.layout = "owner" /\ vc.layout = "model" /\ vd.dim = vc.dim /\ vd.dim = c.dim
      /\ \A d \in Docs : d \in db.rows => vd.rows[d] = c.model
      /\ \A d \in Docs : d \in db.chunks => vc.rows[d] = c.model
  OBVIOUS
<1> HIDE DEF vd, vc
<1>6. /\ SameSchema(db, db') /\ SameRows(db, db') /\ SameCopy(db, db') /\ SameText(db, db')
      /\ SameStatic(db, db') /\ db'.vecDocs = vd /\ db'.vecChunks = vc
  BY <1>2, <1>4 DEF Store, SameSchema, SameRows, SameCopy, SameText, SameStatic
<1> HIDE DEF c
<1>7. Done(db', c, 24)
  <2>1. SourceDone(db', 24) /\ AltersDone(db', 24) /\ SchemaDone(db', 24)
    BY <1>2, <1>6 DEF Done, SourceDone, AltersDone, SchemaDone, SameSchema
  <2>2. DimDone(db', c, 24) /\ LayoutDone(db', 24)
    BY <1>5, <1>6 DEF DimDone, LayoutDone, None
  <2>3. StaticDone(db', c, 24)
    BY <1>2, <1>6 DEF Done, StaticDone, SameStatic
  <2>4. TextDone(db', 24)
    BY <1>2, <1>6 DEF Done, TextDone, SameText, SameRows
  <2> QED BY <2>1, <2>2, <2>3, <2>4 DEF Done
<1>8. Formed(db', "check")
  <2>1. /\ NoCopy(db) /\ Unindexed(db) /\ OneLive(db) /\ StaticPaired(db)
        /\ db.tables = Tables
    BY <1>2 DEF Formed, CopyFormed, Done, SchemaDone
  <2>2. Tabled(db')
    BY <1>5, <1>6 DEF Tabled, None
  <2>3. DocsFirst(db')
    BY <1>6, <2>1 DEF DocsFirst, SameSchema, Tables
  <2>4. NoCopy(db') /\ Unindexed(db') /\ OneLive(db') /\ StaticPaired(db')
    BY <1>6, <2>1 DEF NoCopy, Unindexed, OneLive, StaticPaired, SameCopy, SameSchema,
       SameRows, SameStatic
  <2> QED BY <2>2, <2>3, <2>4 DEF Formed, CopyFormed
<1>9. Kept(db', stored')
  <2>1. /\ stored.rows = db.rows /\ db.rows \subseteq Docs /\ Filled(db, db.rows)
        /\ stored.vecDocs \subseteq db.rows /\ stored.vecChunks \subseteq db.rows \cap db.chunks
    BY <1>2 DEF Kept, Embedded, Formed, CopyFormed, NoCopy, Store
  <2>2. db'.rows = stored.rows \cup db'.rows /\ db'.scratchRows = {}
    BY <1>2, <1>6, <2>1 DEF SameRows, SameCopy, Formed, CopyFormed, NoCopy
  <2>3. Filled(db', db'.rows)
    BY <1>6, <2>1 DEF Filled, SameText, SameRows
  <2>4. Embedded(db', stored)
    BY <1>3, <1>5, <1>6, <2>1, <2>2 DEF Embedded, SameText, SameRows
  <2>5. \A t : Embedded(t, stored) /\ t.rows = stored.rows \cup t.rows /\ t.scratchRows = {}
               /\ Filled(t, t.rows) => Kept(t, Both(stored, Held(t)))
    BY GrownKept
  <2>6. Kept(db', Both(stored, Held(db')))
    BY <2>2, <2>3, <2>4, <2>5
  <2> QED BY <1>1, <2>6
<1> QED BY <1>1, <1>6, <1>7, <1>8, <1>9, OpenStays DEF c

\* A process that starts while no other one walks and all run on its configuration.
LEMMA OpenKeeps ==
  ASSUME NEW p \in Procs, NEW c \in Configs, WalkTyped, Aligned, Open(p, c), ~overlap'
  PROVE  Aligned'
<1>1. /\ ProcsTyped /\ ProcsTyped' /\ pc[p] = 0 /\ pc'[p] = 1 /\ due'[p] = <<Check>> /\ cfg'[p] = c
      /\ \A q \in Procs : q # p => pc'[q] = pc[q] /\ due'[q] = due[q] /\ cfg'[q] = cfg[q]
  BY OpenIs DEF WalkTyped
<1>2. db' = db /\ stored' = stored
  BY DEF Open
<1>3. \A q \in Procs : q # p => pc[q] = 0 \/ (~Opening(q) /\ cfg[q] = c)
  BY Zenon DEF Open
<1>4. Opened = 24 /\ Len(Steps) = 23
  BY StepsAre
<1>5. \A q \in Procs : ~Opening(q)
  <2>1. \A k : k = 0 => k \notin 1..23
    OBVIOUS
  <2>2. \A q \in Procs : pc[q] = 0 => ~Opening(q)
    BY <1>4, <2>1, Zenon DEF Opening
  <2> QED BY <1>1, <1>3, <2>2
<1>6. \A q \in Procs : pc'[q] \in 1..23 => q = p
  <2> SUFFICES ASSUME NEW q \in Procs, q # p PROVE pc'[q] \notin 1..23
    OBVIOUS
  <2>1. pc[q] \notin 1..23
    BY <1>4, <1>5 DEF Opening
  <2> QED BY <1>1, <2>1
<1>7. \A q \in Procs : pc'[q] # 0 => cfg'[q] = c
  <2> SUFFICES ASSUME NEW q \in Procs, pc'[q] # 0, q # p PROVE cfg'[q] = c
    BY <1>1
  <2>1. pc[q] # 0
    BY <1>1
  <2> QED BY <1>1, <1>3, <2>1
<1>8. OneOpens'
  BY <1>4, <1>6, <1>7 DEF OneOpens, Opening
<1>9. Formed(db, "check")
  BY <1>5 DEF Aligned, WalkInv
<1>10. WalkInv'
  <2>1. Head(<<Check>>) = Check /\ Check.op = "check"
    BY CheckIs
  <2>2. Left(db, c, 1, <<Check>>) /\ Done(db, c, 1)
    BY DoneAtFirst DEF Left
  <2>3. ASSUME NEW q \in Procs, pc'[q] \in 1..23
        PROVE  /\ Left(db', cfg'[q], pc'[q], due'[q]) /\ Done(db', cfg'[q], pc'[q])
               /\ Formed(db', Head(due'[q]).op)
    <3>1. q = p
      BY <1>6, <2>3
    <3> QED BY <1>1, <1>2, <1>9, <2>1, <2>2, <3>1
  <2>4. Formed(db', "check")
    BY <1>2, <1>9
  <2> QED BY <1>4, <2>3, <2>4 DEF WalkInv, Opening
<1>11. OpenInv'
  <2>1. ASSUME NEW q \in Procs, pc'[q] = 24 PROVE Done(db', cfg'[q], 24)
    <3>1. q # p
      BY <1>1, <2>1
    <3>2. pc[q] = Opened /\ cfg'[q] = cfg[q]
      BY <1>1, <1>4, <2>1, <3>1
    <3> QED BY <1>2, <1>4, <3>2 DEF Aligned, OpenInv
  <2>2. \A q \in Procs : pc'[q] \in 1..23 => AllCalm(due'[q])
    BY <1>1, <1>6, CalmLists
  <2> QED BY <1>4, <2>1, <2>2 DEF OpenInv, Opening
<1>12. Kept(db', stored')
  BY <1>2 DEF Aligned
<1> QED BY <1>8, <1>10, <1>11, <1>12 DEF Aligned

\* A connection that closes between two steps, or in a step of one commit.
LEMMA LeaveKeeps ==
  ASSUME NEW p \in Procs, WalkTyped, Aligned, Leave(p), db' = db, stored' = stored, torn' = {}
  PROVE  Aligned'
<1>1. /\ ProcsTyped /\ ProcsTyped' /\ pc'[p] = 0
      /\ \A q \in Procs : q # p => pc'[q] = pc[q] /\ due'[q] = due[q] /\ cfg'[q] = cfg[q]
      /\ Opening(p) => Head(due[p]).op \notin HalfDone
  BY LeaveIs DEF WalkTyped
<1>2. Opened = 24 /\ Len(Steps) = 23
  BY StepsAre
<1>3. ASSUME NEW q \in Procs, pc'[q] # 0
      PROVE  q # p /\ pc'[q] = pc[q] /\ due'[q] = due[q] /\ cfg'[q] = cfg[q] /\ pc[q] # 0
  BY <1>1, <1>3
<1>4. \A k : k \in 1..23 \/ k = 24 => k # 0
  OBVIOUS
<1>5. ASSUME NEW q \in Procs, pc'[q] \in 1..23 \/ pc'[q] = 24
      PROVE  /\ q # p /\ pc'[q] = pc[q] /\ due'[q] = due[q] /\ cfg'[q] = cfg[q]
             /\ pc[q] # 0 /\ pc'[q] # 0
  <2>1. pc'[q] # 0
    BY <1>4, <1>5, Zenon
  <2> QED BY <1>3, <2>1
<1>6. OneOpens'
  <2>1. \A q, r \in Procs : pc'[q] # 0 /\ pc'[r] # 0 => cfg'[q] = cfg'[r]
    BY <1>3 DEF Aligned, OneOpens
  <2>2. \A q, r \in Procs : pc'[q] \in 1..23 /\ pc'[r] \in 1..23 => q = r
    BY <1>2, <1>5 DEF Aligned, OneOpens, Opening
  <2> QED BY <1>2, <2>1, <2>2 DEF OneOpens, Opening
<1>7. WalkInv'
  <2>1. ASSUME NEW q \in Procs, pc'[q] \in 1..23
        PROVE  /\ Left(db', cfg'[q], pc'[q], due'[q]) /\ Done(db', cfg'[q], pc'[q])
               /\ Formed(db', Head(due'[q]).op)
    <3>1. pc'[q] = pc[q] /\ due'[q] = due[q] /\ cfg'[q] = cfg[q]
      BY <1>5, <2>1
    <3>2. Opening(q)
      BY <1>2, <2>1, <3>1 DEF Opening
    <3> QED BY <3>1, <3>2 DEF Aligned, WalkInv
  <2>2. ASSUME \A q \in Procs : pc'[q] \notin 1..23 PROVE Formed(db', "check")
    <3>1. CASE Opening(p)
      BY <1>1, <3>1, FormedBack DEF Aligned, WalkInv
    <3>2. CASE ~Opening(p)
      <4>1. ASSUME NEW q \in Procs PROVE ~Opening(q)
        BY <1>1, <1>2, <2>2, <3>2 DEF Opening
      <4> QED BY <4>1 DEF Aligned, WalkInv
    <3> QED BY <3>1, <3>2
  <2> QED BY <1>2, <2>1, <2>2 DEF WalkInv, Opening
<1>8. OpenInv'
  <2>1. ASSUME NEW q \in Procs, pc'[q] = 24
        PROVE  /\ Done(db', cfg'[q], 24)
               /\ \A r \in Procs : pc'[r] \in 1..23 => AllCalm(due'[r])
    <3>1. pc[q] = Opened /\ cfg'[q] = cfg[q]
      BY <1>2, <1>5, <2>1
    <3>2. ASSUME NEW r \in Procs, pc'[r] \in 1..23 PROVE Opening(r) /\ due'[r] = due[r]
      BY <1>2, <1>5, <3>2 DEF Opening
    <3> QED BY <1>2, <3>1, <3>2 DEF Aligned, OpenInv
  <2> QED BY <1>2, <2>1 DEF OpenInv, Opening
<1> QED BY <1>6, <1>7, <1>8 DEF Aligned

-----------------------------------------------------------------------------
(***************************************************************************)
(* The theorems.                                                           *)
(***************************************************************************)
\* A store without a half-done step is one between two steps of the walk.
LEMMA FoundWhole ==
  ASSUME NEW s, LeftTorn(s) = {}
  PROVE  NoCopy(s) /\ DocsFirst(s) /\ OneLive(s) /\ StaticPaired(s) /\ Filled(s, s.rows)
BY DEF LeftTorn

\* Every store is one the walk can start from, unless a step was left half done.
LEMMA InitKeeps ==
  ASSUME MigrationsInit
  PROVE  WalkIndInv
<1>1. /\ db \in Generations /\ stored = Held(db) /\ torn = LeftTorn(db)
      /\ pc = [p \in Procs |-> 0] /\ due = [p \in Procs |-> << >>]
      /\ cfg = [p \in Procs |-> NoConfig]
  BY DEF MigrationsInit
<1>2. IsStore(db)
  BY <1>1, GenerationsAreStores
<1>3. Opened = 24 /\ Len(Steps) = 23
  BY StepsAre
<1>4. \A p \in Procs : pc[p] = 0 /\ ~Opening(p) /\ pc[p] # Opened
  BY <1>1, <1>3 DEF Opening
<1>5. StoreTyped(db)
  BY <1>2 DEF IsStore, StoreTyped
<1>6. ProcsTyped
  BY <1>1, <1>3, <1>4 DEF ProcsTyped
<1>7. OneOpens /\ OpenInv
  BY <1>4 DEF OneOpens, OpenInv
<1>8. ASSUME AloneOnStore PROVE WalkInv /\ Kept(db, stored)
  <2>1. /\ NoCopy(db) /\ DocsFirst(db) /\ OneLive(db) /\ StaticPaired(db) /\ Filled(db, db.rows)
    BY <1>1, <1>8, FoundWhole DEF AloneOnStore
  <2>2. Tabled(db) /\ Unindexed(db)
    BY <1>2 DEF IsStore, Tabled, Unindexed
  <2>3. WalkInv
    BY <1>4, <2>1, <2>2 DEF WalkInv, Formed, CopyFormed
  <2>4. /\ stored.rows = db.rows
        /\ stored.vecDocs = {d \in db.rows : db.vecDocs.rows[d] # None}
        /\ stored.vecChunks = {d \in db.rows \cap db.chunks : db.vecChunks.rows[d] # None}
    BY <1>1 DEF Held
  <2>5. Kept(db, stored)
    BY <2>1, <2>4 DEF Kept, Embedded, NoCopy
  <2> QED BY <2>3, <2>5
<1> QED BY <1>5, <1>6, <1>7, <1>8 DEF WalkIndInv, WalkTyped, Aligned

\* Every step keeps the inductive invariant.
LEMMA NextKeeps ==
  ASSUME WalkIndInv, [MigrationsNext]_migrationsVars
  PROVE  WalkIndInv'
<1>1. WalkTyped /\ ProcsTyped /\ (AloneOnStore => Aligned)
  BY DEF WalkIndInv, WalkTyped
<1>2. ASSUME NEW p \in Procs, NEW c \in Configs, Open(p, c) PROVE WalkIndInv'
  <2>1. ProcsTyped' /\ db' = db
    BY <1>1, <1>2, OpenIs DEF Open
  <2>2. WalkTyped'
    BY <1>1, <2>1 DEF WalkTyped, StoreTyped
  <2>3. AloneOnStore' => AloneOnStore /\ ~overlap'
    BY <1>2 DEF Open, AloneOnStore
  <2>4. AloneOnStore' => Aligned'
    BY <1>1, <1>2, <2>3, OpenKeeps
  <2> QED BY <2>2, <2>4 DEF WalkIndInv
<1>3. ASSUME NEW p \in Procs, Decides(p) PROVE WalkIndInv'
  <2>1. WalkTyped'
    BY <1>1, <1>3, DecidesTyped
  <2>2. AloneOnStore' => AloneOnStore
    BY <1>3 DEF Decides, AloneOnStore
  <2>3. AloneOnStore' => Aligned'
    BY <1>1, <1>3, <2>2, DecidesKeeps
  <2> QED BY <2>1, <2>3 DEF WalkIndInv
<1>4. ASSUME NEW p \in Procs, Runs(p) PROVE WalkIndInv'
  <2>1. WalkTyped'
    BY <1>1, <1>4, RunsTyped
  <2>2. AloneOnStore' => AloneOnStore
    BY <1>4 DEF Runs, AloneOnStore
  <2>3. AloneOnStore' => Aligned'
    BY <1>1, <1>4, <2>2, RunsKeeps
  <2> QED BY <2>1, <2>3 DEF WalkIndInv
<1>5. ASSUME NEW p \in Procs, Refused(p) \/ Killed(p) \/ Exit(p) PROVE WalkIndInv'
  <2>1. Leave(p) /\ db' = db /\ stored' = stored /\ overlap' = overlap
    BY <1>5 DEF Refused, Killed, Exit
  <2>2. ProcsTyped' /\ (torn' = {} => torn = {})
    BY <1>1, <2>1, LeaveIs
  <2>3. WalkTyped'
    BY <1>1, <2>1, <2>2 DEF WalkTyped, StoreTyped
  <2>4. AloneOnStore' => AloneOnStore /\ torn' = {}
    BY <2>1, <2>2 DEF AloneOnStore
  <2>5. AloneOnStore' => Aligned'
    BY <1>1, <2>1, <2>4, LeaveKeeps
  <2> QED BY <2>3, <2>5 DEF WalkIndInv
<1>6. ASSUME NEW p \in Procs, NEW d \in Docs, NEW owned \in BOOLEAN, Write(p, d, owned)
      PROVE  WalkIndInv'
  <2>1. UNCHANGED <<pc, due, cfg, torn, overlap>>
    BY <1>6 DEF Write
  <2>2. WalkTyped'
    BY <1>1, <1>6, <2>1, WriteTyped, SameProcs DEF WalkTyped
  <2>3. AloneOnStore' => AloneOnStore
    BY <2>1 DEF AloneOnStore
  <2>4. AloneOnStore' => Aligned'
    BY <1>1, <1>6, <2>3, WriteKeeps
  <2> QED BY <2>2, <2>4 DEF WalkIndInv
<1>7. ASSUME NEW p \in Procs, Rebuild(p) PROVE WalkIndInv'
  <2>1. UNCHANGED <<pc, due, cfg, torn, overlap>>
    BY <1>7 DEF Rebuild
  <2>2. WalkTyped'
    BY <1>1, <1>7, <2>1, RebuildTyped, SameProcs DEF WalkTyped
  <2>3. AloneOnStore' => AloneOnStore
    BY <2>1 DEF AloneOnStore
  <2>4. AloneOnStore' => Aligned'
    BY <1>1, <1>7, <2>3, RebuildKeeps
  <2> QED BY <2>2, <2>4 DEF WalkIndInv
<1>8. CASE UNCHANGED migrationsVars
  BY <1>8 DEF migrationsVars, WalkIndInv, WalkTyped, StoreTyped, ProcsTyped, AloneOnStore,
    Aligned, OneOpens, WalkInv,
     OpenInv, Opening
<1> QED BY <1>2, <1>3, <1>4, <1>5, <1>6, <1>7, <1>8 DEF MigrationsNext

\* The invariant the walk rests on, of every behaviour: while no crash fell
\* between two commits of one step and no two processes walked at once, each
\* process in the walk has left behind what the steps before its own promise,
\* has due what its step has still to run on the store as it is, and undoes
\* nothing of a store others have open (db.py open_db and its migrations).
THEOREM WalkInvariant == MigrationsSpec => []WalkIndInv
BY InitKeeps, NextKeeps, PTL DEF MigrationsSpec

\* What RowsSurviveAlone takes from it.
LEMMA SurviveFrom ==
  ASSUME WalkIndInv
  PROVE  RowsSurviveAlone
<1> SUFFICES ASSUME AloneOnStore
             PROVE  /\ stored.rows \subseteq db.rows \cup db.scratchRows
                    /\ \A d \in stored.vecDocs : db.vecDocs.rows[d] # None
                    /\ \A d \in stored.vecChunks : db.vecChunks.rows[d] # None
  BY DEF RowsSurviveAlone, AloneOnStore
<1>1. Kept(db, stored)
  BY DEF WalkIndInv, Aligned
<1> QED BY <1>1 DEF Kept, Embedded

\* Walking the store forward loses nothing: every doc found or committed is in
\* docs or in the copy about to become docs, and every vector it had is in its
\* table, at every commit of every migration and whatever store the first process
\* finds, as long as no crash left a step of the walk half done and no two
\* processes opened at once (db.py _migrate_to_multi_source and the vector rebuilds).
THEOREM WalkKeepsRows == MigrationsSpec => []RowsSurviveAlone
<1>1. WalkIndInv => RowsSurviveAlone
  BY SurviveFrom
<1> QED BY <1>1, WalkInvariant, PTL

-----------------------------------------------------------------------------
(***************************************************************************)
(* The vector tables: a pair stays one, and the walk makes one of the       *)
(* layouts of one release.                                                 *)
(***************************************************************************)
\* A rebuild is due in the step of its layout, on the layout before it.
LEMMA RelayLeft ==
  ASSUME NEW s, NEW c, NEW n \in 1..23, NEW w \in Seq(Statements), w # << >>,
         Left(s, c, n, w), Head(w).op = "rebuild"
  PROVE  \/ n = 18 /\ Head(w).arg = "partitioned" /\ s.vecDocs.layout = "flat"
         \/ n = 19 /\ Head(w).arg = "model" /\ s.vecDocs.layout = "partitioned"
         \/ n = 20 /\ Head(w).arg = "owner" /\ s.vecDocs.layout = "model"
<1>1. \A l : Head(ToRelay(l)).arg = l
  BY OpsAre
<1>2. ~Adding(s, n, w)
  BY HeadAt DEF Adding
<1>3. w \notin {<<Check>>, ToCreate, ToCopy, ToDrop, ToRename, ToWipe, ToAddTopic, ToBackfill,
                ToSchema, ToDropDocs, ToDropChunks, ToMakeDocs, ToMakeChunks, ToStamp}
  <2>1. Head(<<Check>>) = Check
    OBVIOUS
  <2>2. Head(<<Check>>).op = "check"
    BY <2>1, CheckIs
  <2> QED BY <2>2, OpsAre
<1>4. ~FillLeft(s, w)
  <2>1. \A ds : Head(ToFill(ds)).op = "fill and purge"
    BY OpsAre
  <2> QED BY <2>1 DEF FillLeft
<1> QED BY <1>1, <1>2, <1>3, <1>4 DEF Left, CopyLeft, TopicLeft, StaticLeft

SameLayouts(s, t) ==
  /\ t.vecDocs.layout = s.vecDocs.layout /\ t.vecDocs.dim = s.vecDocs.dim
  /\ t.vecChunks.layout = s.vecChunks.layout /\ t.vecChunks.dim = s.vecChunks.dim

\* What changes neither layout nor dimension leaves a pair one.
LEMMA MatchedStays ==
  ASSUME NEW s, NEW t, Matched(s), SameLayouts(s, t), Carries(s) => Carries(t)
  PROVE  Matched(t)
BY DEF Matched, SameLayouts

\* A statement that runs leaves a pair one, or makes one.
LEMMA RunsMatched ==
  ASSUME NEW s, StoreTyped(s), NEW c \in Configs, NEW n \in 1..23,
         NEW w \in Seq(Statements), w # << >>, Head(w) # Check,
         Left(s, c, n, w), Done(s, c, n), Formed(s, Head(w).op),
         ~Fails(s, Head(w), c), Matched(s),
         NEW t, t = After(s, Head(w), c),
         t.rows \cup t.scratchRows = s.rows \cup s.scratchRows
  PROVE  Matched(t)
<1> DEFINE st == Head(w)
<1>0. s \in Store /\ st \in Statements
  BY HeadIn DEF StoreTyped
<1>1. st.op # "check" /\ t = After(s, st, c)
  BY <1>0, CheckIs, StmtIs DEF Statements, Stmt, Plain
<1> HIDE DEF st
<1>2. CASE st.op = "wipe"
  <2>1. Wiped(s, t)
    BY <1>0, <1>1, <1>2, WipeIs
  <2> QED BY <2>1 DEF Wiped, NoTable, Matched, None
<1>3. CASE st.op = "schema"
  <2>1. SchemaMade(s, t, c)
    BY <1>0, <1>1, <1>3, SchemaIs
  <2>2. CASE s.vecDocs.layout = None
    <3>1. /\ t.vecDocs.layout = "owner" /\ t.vecDocs.dim = c.dim
          /\ t.vecChunks.layout = "model" /\ t.vecChunks.dim = c.dim
      BY <2>1, <2>2 DEF SchemaMade, CreatedIfMissing, Matched
    <3> QED BY <3>1 DEF Matched, None
  <2>3. CASE s.vecDocs.layout # None
    <3>1. /\ t.vecDocs = s.vecDocs
          /\ t.vecChunks = s.vecChunks \/ (s.vecChunks.layout = None /\ t.vecChunks.layout = "model")
      BY <2>1, <2>3 DEF SchemaMade, CreatedIfMissing
    <3>2. Carries(s) => Carries(t)
      BY <3>1 DEF Carries
    <3> QED BY <2>3, <3>1, <3>2 DEF Matched, None
  <2> QED BY <2>2, <2>3
<1>4. CASE st.op = "rebuild"
  <2>1. Relaid(s, t, st, c)
    BY <1>0, <1>1, <1>4, RebuildIs
  <2>2. /\ t.vecDocs.layout = st.arg /\ t.vecDocs.dim = c.dim
        /\ st.arg # "owner" => t.vecChunks.layout = st.arg /\ t.vecChunks.dim = c.dim
        /\ st.arg = "owner" => t.vecChunks = s.vecChunks
        /\ \A d \in s.rows : t.vecDocs.rows[d] = s.vecDocs.rows[d]
    BY <2>1 DEF Relaid
  <2>3. s.scratchRows = {} /\ t.rows = s.rows /\ t.scratchRows = {}
    BY <1>4, <2>1 DEF Formed, CopyFormed, NoCopy, Relaid, SameRows, SameCopy, st
  <2>4. Carries(s) => Carries(t)
    BY <2>2, <2>3 DEF Carries
  <2>5. \/ n = 18 /\ st.arg = "partitioned" /\ s.vecDocs.layout = "flat"
        \/ n = 19 /\ st.arg = "model" /\ s.vecDocs.layout = "partitioned"
        \/ n = 20 /\ st.arg = "owner" /\ s.vecDocs.layout = "model"
    BY <1>4, RelayLeft DEF st
  <2>6. CASE st.arg \in {"partitioned", "model"}
    BY <2>2, <2>4, <2>5, <2>6 DEF Matched, None
  <2>7. CASE n = 20 /\ st.arg = "owner" /\ s.vecDocs.layout = "model"
    <3>1. Carries(s) /\ s.vecChunks.layout = "model" /\ s.vecChunks.dim = s.vecDocs.dim
      BY <2>7 DEF Matched
    <3>2. s.rows \subseteq Docs
      BY <1>0 DEF Store
    <3>3. CASE \E d \in s.rows : s.vecDocs.rows[d] # None
      <4>1. ~Misfit(s, "owner", c)
        BY <1>4, <2>7 DEF Fails, st
      <4>2. s.vecDocs.dim = c.dim
        BY <3>2, <3>3, <4>1 DEF Misfit
      <4> QED BY <2>2, <2>7, <3>1, <4>2 DEF Matched, None
    <3>4. CASE s.rows = {}
      <4>1. DimDone(s, c, n)
        BY DEF Done
      <4>2. s.vecDocs.dim = c.dim
        BY <2>7, <3>4, <4>1 DEF DimDone, None
      <4> QED BY <2>2, <2>7, <3>1, <4>2 DEF Matched, None
    <3> QED BY <2>3, <3>1, <3>3, <3>4 DEF Carries
  <2> QED BY <2>5, <2>6, <2>7
<1>5. CASE st.op \notin {"wipe", "schema", "rebuild"}
  <2>1. SameLayouts(s, t) /\ t.vecDocs = s.vecDocs
    <3>1. CASE st.op = "fill and purge"
      <4>1. FilledAndPurged(s, t, st)
        BY <1>0, <1>1, <3>1, FillIs
      <4> QED BY <4>1 DEF FilledAndPurged, SameLayouts
    <3>2. CASE st.op \in {"create docs_new", "copy docs"}
      <4>1. SameVecs(s, t)
        BY <1>0, <1>1, <3>2, CreateCopyIs, CopyIs DEF Started, Copied
      <4> QED BY <4>1 DEF SameVecs, SameLayouts
    <3>3. CASE st.op = "drop docs"
      <4>1. Dropped(s, t)
        BY <1>0, <1>1, <3>3, DropIs
      <4> QED BY <4>1 DEF Dropped, SameVecs, SameLayouts
    <3>4. CASE st.op = "rename docs_new"
      <4>1. Renamed(s, t)
        BY <1>0, <1>1, <3>4, RenameIs
      <4> QED BY <4>1 DEF Renamed, SameVecs, SameLayouts
    <3>7. CASE st.op = "add"
      <4>1. Added(s, t, st)
        BY <1>0, <1>1, <3>7, AddIs
      <4> QED BY <4>1 DEF Added, SameVecs, SameLayouts
    <3>8. CASE st.op = "backfill topics"
      <4>1. TopicsFilled(s, t)
        BY <1>0, <1>1, <3>8, BackfillIs
      <4> QED BY <4>1 DEF TopicsFilled, SameVecs, SameLayouts
    <3>5. CASE st.op \in {"drop static docs", "drop static chunks"}
      <4>1. SameVecs(s, t)
        BY <1>0, <1>1, <3>5, DropStaticDocsIs, DropStaticChunksIs
           DEF StaticDocsDropped, StaticChunksDropped
      <4> QED BY <4>1 DEF SameVecs, SameLayouts
    <3>6. CASE st.op \in {"create static docs", "create static chunks", "stamp"}
      <4>1. SameVecs(s, t)
        BY <1>0, <1>1, <3>6, CreateStaticDocsIs, CreateStaticChunksIs, StampIs
           DEF StaticDocsMade, StaticChunksMade, Stamped
      <4> QED BY <4>1 DEF SameVecs, SameLayouts
    <3> QED BY <1>0, <1>1, <1>5, <3>1, <3>2, <3>3, <3>4, <3>5, <3>6, <3>7, <3>8, StatementIs DEF Plain
  <2>2. Carries(s) => Carries(t)
    BY <2>1 DEF Carries
  <2> QED BY <2>1, <2>2, MatchedStays
<1> QED BY <1>2, <1>3, <1>4, <1>5

PairInv == AloneOnStore /\ ~uneven => Matched(db)

\* Every step keeps it.
LEMMA PairKept ==
  ASSUME WalkIndInv, WalkIndInv', PairInv, [MigrationsNext]_migrationsVars
  PROVE  PairInv'
<1> SUFFICES ASSUME AloneOnStore', ~uneven' PROVE Matched(db')
  BY DEF PairInv
<1>1. /\ torn' = {} => torn = {}
      /\ overlap => overlap'
      /\ uneven' = uneven
  <2> DEFINE Latched == (torn' = {} => torn = {}) /\ (overlap => overlap') /\ uneven' = uneven
  <2>1. ASSUME NEW p \in Procs, NEW c \in Configs, Open(p, c) PROVE Latched
    BY <2>1 DEF Open
  <2>2. ASSUME NEW p \in Procs, Decides(p) \/ Runs(p) PROVE Latched
    BY <2>2 DEF Decides, Runs
  <2>3. ASSUME NEW p \in Procs, Refused(p) \/ Killed(p) \/ Exit(p) PROVE Latched
    <3>1. torn' = {} => torn = {}
      BY <2>3 DEF Refused, Killed, Exit, Leave
    <3> QED BY <2>3, <3>1 DEF Refused, Killed, Exit
  <2>4. ASSUME NEW p \in Procs, NEW d \in Docs, NEW owned \in BOOLEAN, Write(p, d, owned)
        PROVE  Latched
    BY <2>4 DEF Write
  <2>5. ASSUME NEW p \in Procs, Rebuild(p) PROVE Latched
    BY <2>5 DEF Rebuild
  <2>6. ASSUME UNCHANGED migrationsVars PROVE Latched
    BY <2>6 DEF migrationsVars
  <2> HIDE DEF Latched
  <2>7. Latched
    <3>1. CASE MigrationsNext
      <4>1. PICK p \in Procs :
              \/ \E c \in Configs : Open(p, c)
              \/ Decides(p) \/ Runs(p) \/ Refused(p) \/ Killed(p) \/ Exit(p)
              \/ \E d \in Docs, owned \in BOOLEAN : Write(p, d, owned)
              \/ Rebuild(p)
        BY <3>1, Zenon DEF MigrationsNext
      <4> QED BY <2>1, <2>2, <2>3, <2>4, <2>5, <4>1, Zenon
    <3> QED BY <2>6, <3>1
  <2> QED BY <2>7 DEF Latched
<1>2. AloneOnStore /\ Aligned /\ Aligned' /\ WalkTyped /\ Matched(db)
  BY <1>1 DEF AloneOnStore, WalkIndInv, PairInv
<1>3. CASE db' = db
  BY <1>2, <1>3
<1>4. ASSUME NEW p \in Procs, Runs(p) PROVE Matched(db')
  <2>1. /\ Opening(p) /\ Head(due[p]) # Check /\ ~Fails(db, Head(due[p]), cfg[p])
        /\ db' = After(db, Head(due[p]), cfg[p]) /\ stored' = stored
    BY <1>4 DEF Runs
  <2>2. /\ pc[p] \in 1..23 /\ cfg[p] \in Configs /\ StoreTyped(db)
        /\ due[p] \in Seq(Statements) /\ due[p] # << >>
        /\ Left(db, cfg[p], pc[p], due[p]) /\ Done(db, cfg[p], pc[p])
        /\ Formed(db, Head(due[p]).op)
    BY <1>2, <2>1, WalkIs
  <2>3. /\ stored.rows = db.rows \cup db.scratchRows
        /\ stored.rows = db'.rows \cup db'.scratchRows
    BY <1>2, <2>1 DEF Aligned, Kept
  <2> DEFINE t == db'
  <2>4. /\ t = After(db, Head(due[p]), cfg[p])
        /\ t.rows \cup t.scratchRows = db.rows \cup db.scratchRows
    BY <2>1, <2>3
  <2> HIDE DEF t
  <2>5. Matched(t)
    BY <1>2, <2>1, <2>2, <2>4, RunsMatched
  <2> QED BY <2>5 DEF t
<1>5. ASSUME NEW p \in Procs, NEW d \in Docs, NEW owned \in BOOLEAN, Write(p, d, owned)
      PROVE  Matched(db')
  <2>1. Written(db, db', d, owned, cfg[p].model) /\ db.vecDocs.layout = "owner"
    BY <1>2, <1>5, WriteIs DEF Write
  <2> QED BY <1>2, <2>1 DEF Written, Matched, None
<1>6. ASSUME NEW p \in Procs, Rebuild(p) PROVE Matched(db')
  <2>1. db \in Store
    BY <1>2 DEF WalkTyped, StoreTyped
  <2>2. /\ db'.vecDocs.layout = "owner" /\ db'.vecDocs.dim = cfg[p].dim
        /\ db'.vecChunks.layout = "model" /\ db'.vecChunks.dim = cfg[p].dim
    BY <1>6, <2>1 DEF Rebuild, Store
  <2> QED BY <2>2 DEF Matched, None
<1> QED BY <1>3, <1>4, <1>5, <1>6
        DEF MigrationsNext, Open, Decides, Refused, Killed, Exit, migrationsVars

\* The two invariants together.
LEMMA PairInvariant == MigrationsSpec => [](WalkIndInv /\ PairInv)
<1>1. MigrationsInit => PairInv
  BY DEF MigrationsInit, PairInv
<1>2. PairInv /\ WalkIndInv /\ WalkIndInv' /\ [MigrationsNext]_migrationsVars => PairInv'
  BY PairKept
<1> QED BY <1>1, <1>2, WalkInvariant, PTL DEF MigrationsSpec

-----------------------------------------------------------------------------
\* A store whose walk is done is complete.
LEMMA CompleteFrom ==
  ASSUME NEW s, StoreTyped(s), NEW c \in Configs, Done(s, c, 24), Formed(s, "check")
  PROVE  Complete(s, c)
<1>1. s \in Store /\ s.vecDocs \in VecTable /\ s.vecDocs.layout \in Layouts
  <2>1. s \in Store
    BY DEF StoreTyped
  <2>2. s.vecDocs \in VecTable
    BY <2>1 DEF Store
  <2> QED BY <2>1, <2>2 DEF VecTable
<1>2. /\ s.tables = Tables /\ AllColumns \cup {"source_id"} \subseteq s.cols /\ s.unique
      /\ c.static # 0 => s.staticDocs = c.static /\ s.staticChunks = c.static
      /\ \A d \in s.rows : s.fts[d] = 1
      /\ s.tags \cup s.chunks \subseteq s.rows
  BY DEF Done, SchemaDone, StaticDone, TextDone
<1>3. s.vecDocs.layout = "owner" /\ s.vecDocs.layout # None
  BY <1>1 DEF Done, LayoutDone, Layouts
<1>5. s.vecDocs.dim = c.dim \/ Needed(s, c)
  BY <1>3 DEF Done, DimDone, Needed
<1>6. Cardinality(s.owned \cap s.live) <= 1
  <2>1. \A d, e \in s.owned \cap s.live : d = e
    <3>1. "canonical_topic" \in s.cols
      BY <1>2, SomeColumns
    <3> QED BY <3>1 DEF Formed, OneLive
  <2>2. CASE s.owned \cap s.live = {}
    BY <2>2, FS_EmptySet
  <2>3. CASE s.owned \cap s.live # {}
    <3>1. PICK d : d \in s.owned \cap s.live
      BY <2>3
    <3>2. s.owned \cap s.live = {d}
      BY <2>1, <3>1
    <3> QED BY <3>2, FS_Singleton
  <2> QED BY <2>2, <2>3
<1> QED BY <1>2, <1>3, <1>5, <1>6 DEF Complete

LEMMA OpenFrom ==
  ASSUME WalkIndInv, PairInv
  PROVE  OpenMeansComplete
<1>1. WalkTyped
  BY DEF WalkIndInv
<1>2. MigrationsTypeOK
  BY <1>1 DEF MigrationsTypeOK, WalkTyped, StoreTyped, ProcsTyped, Store
<1>3. ASSUME NEW p \in Procs, pc[p] = Opened, AloneOnStore
      PROVE  Complete(db, cfg[p]) /\ (~uneven => PairOf(db))
  <2>1. Aligned
    BY <1>3 DEF WalkIndInv
  <2>2. Complete(db, cfg[p])
    BY <1>1, <1>3, <2>1, OpenKnows, CompleteFrom
  <2>3. db.vecDocs.layout = "owner"
    BY <2>2 DEF Complete
  <2>4. ~uneven => PairOf(db)
    BY <1>3, <2>3 DEF PairInv, Matched, PairOf
  <2> QED BY <2>2, <2>4
<1> QED BY <1>2, <1>3 DEF OpenMeansComplete, AloneOnStore

\* Alone on a store no crash left half done, a process that finished open_db
\* finds the whole schema, as long as it has the store open: every table and
\* column, vec_docs of the last layout, at its dimension or with a rebuild it
\* will ask for, each doc once in docs_fts, no orphans, one live canonical per
\* title; and vec_chunks as vec_docs's pair, unless the first process found the
\* two tables in no pair.
THEOREM OpenLeavesComplete == MigrationsSpec => []OpenMeansComplete
<1>1. WalkIndInv /\ PairInv => OpenMeansComplete
  BY OpenFrom
<1> QED BY <1>1, PairInvariant, PTL

Refusable(p) ==
  /\ Head(due[p]).op = "rebuild"
  /\ Misfit(db, Head(due[p]).arg, cfg[p]) \/ (uneven /\ Head(due[p]).arg = "model")

\* What a process alone can be refused for.
LEMMA RefusedFor ==
  ASSUME WalkIndInv, PairInv, NEW p \in Procs, Refused(p), AloneOnStore
  PROVE  Refusable(p)
<1>1. WalkTyped /\ Aligned
  BY DEF WalkIndInv
<1>2. /\ Opening(p)
      /\ Head(due[p]) = Check => CheckFails(db, Step(p), cfg[p])
      /\ Head(due[p]) # Check => Fails(db, Head(due[p]), cfg[p])
  BY Zenon DEF Refused
<1>3. CASE Head(due[p]) = Check
  <2>1. Formed(db, "check")
    BY <1>1, <1>2, <1>3, CheckIs DEF Aligned, WalkInv
  <2>2. pc[p] \in 1..23
    BY <1>1, <1>2, OpeningIs DEF WalkTyped
  <2> QED BY <1>2, <1>3, <2>1, <2>2, ChecksPass DEF Step
<1>4. CASE Head(due[p]) # Check
  <2>1. Halts(db, cfg[p], due[p])
    BY <1>1, <1>2, <1>4, WalkIs DEF RunsOn
  <2>2. Behind(db, Head(due[p]).arg) => uneven /\ Head(due[p]).arg = "model"
    BY DEF Behind, PairInv, Matched
  <2> QED BY <2>1, <2>2 DEF Halts, Refusable
<1> QED BY <1>3, <1>4

LEMMA RefusedOnly ==
  ASSUME WalkIndInv, PairInv
  PROVE  \A p \in Procs :
           Refused(p) =>
             \/ torn # {} \/ overlap
             \/ /\ Head(due[p]).op = "rebuild"
                /\ Misfit(db, Head(due[p]).arg, cfg[p]) \/ (uneven /\ Head(due[p]).arg = "model")
<1> SUFFICES ASSUME NEW p \in Procs, Refused(p), AloneOnStore PROVE Refusable(p)
  BY DEF AloneOnStore, Refusable
<1> QED BY RefusedFor

\* SQLite refuses no statement of a walk alone on a store no crash left half
\* done, and no check raises, but for a vector rebuild that would copy
\* embeddings of another dimension, or that reads a column of a vec_chunks found
\* behind its vec_docs: any other interrupted open_db can be retried.
THEOREM WalkNeverRefused == MigrationsSpec => AloneNeverRefused
<1>1. WalkIndInv /\ PairInv => [\A p \in Procs :
       Refused(p) =>
         \/ torn # {} \/ overlap
         \/ /\ Head(due[p]).op = "rebuild"
            /\ Misfit(db, Head(due[p]).arg, cfg[p]) \/ (uneven /\ Head(due[p]).arg = "model")
      ]_migrationsVars
  BY RefusedOnly
<1> QED BY <1>1, PairInvariant, PTL DEF AloneNeverRefused
=============================================================================
