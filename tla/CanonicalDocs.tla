--------------------------- MODULE CanonicalDocs ---------------------------
(***************************************************************************)
(* One live canonical document per topic (the SSOT rule of store.py and    *)
(* status.py).  Three kinds of actor write docs rows:                      *)
(*   - store threads run SqliteStore.put, delete, set_lifecycle and        *)
(*     sweep_bloat, serialised by the _lock of their own store object;     *)
(*   - a status pass, compute_status() in its full form, runs on another   *)
(*     connection and knows nothing of that lock.                          *)
(* A SELECT in autocommit and the transaction that acts on what it read    *)
(* are separate steps; one transaction is one step.                        *)
(*                                                                         *)
(* The docs are the owned, non-ephemeral, embedded ones: the only rows     *)
(* with a topic.  A docs.id is an INTEGER PRIMARY KEY without              *)
(* AUTOINCREMENT, so the id of a deleted newest row is given out again.    *)
(***************************************************************************)
EXTENDS Naturals, FiniteSets

CONSTANTS
  Threads,    \* store threads
  Stores,     \* store objects, one per process
  StoreOf,    \* the store a thread works on
  Exts,       \* ext_ids callers write to
  Topics,
  NoExt, NoTopic, NoOne,
  MaxId,      \* bound on docs.id
  MaxWrites,  \* bound on the puts that write
  Passes      \* does a status pass run at all?

ASSUME ConstantsAssumption ==
  /\ StoreOf \in [Threads -> Stores]
  /\ NoExt \notin Exts
  /\ NoTopic \notin Topics
  /\ NoOne \notin Threads
  /\ MaxId \in Nat
  /\ MaxWrites \in Nat
  /\ Passes \in BOOLEAN

VARIABLES
  docs,     \* the docs rows, by id
  lock,     \* per store, who holds its _lock between two steps
  thread,   \* per thread, where it is in which operation, with what it read
  pass,     \* the status pass
  now,      \* time, counted in writes
  horizon,  \* a doc whose mtime is at or below it is past stale_age_days
  overlapped \* history: a pass and a store operation were under way at once

vars == <<docs, lock, thread, pass, now, horizon, overlapped>>

Ids == 1..MaxId

NoDoc == [ext |-> NoExt, topic |-> NoTopic, status |-> "absent",
          lifecycle |-> "absent", mtime |-> 0]

Doc == [ext : Exts, topic : Topics,
        status : {"canonical", "stale", "duplicate", "superseded"},
        lifecycle : {"active", "archived"}, mtime : 1..MaxWrites]

Present(rows, i) == rows[i].status # "absent"
WithExt(rows, e) == {i \in Ids : rows[i].ext = e}
WithStatus(rows, s) == {i \in Ids : rows[i].status = s}
Unretired(rows) == {i \in Ids : Present(rows, i) /\ rows[i].status # "superseded"}

\* SQLite's next rowid: one above the greatest there is.
NextIds(rows) ==
  {i \in Ids : /\ \A j \in Ids : Present(rows, j) => j < i
               /\ i = 1 \/ Present(rows, i - 1)}

\* The partial unique index over (canonical_topic) WHERE status = 'canonical'.
UniqueTopics(rows) ==
  \A i, j \in WithStatus(rows, "canonical") : rows[i].topic = rows[j].topic => i = j

\* UPDATE docs SET status = s WHERE id IN S: what is gone is left alone.
SetStatus(rows, S, s) ==
  [i \in Ids |-> IF i \in S /\ Present(rows, i)
                 THEN [rows[i] EXCEPT !.status = s] ELSE rows[i]]

Idle(reply) == [pc |-> "idle", ext |-> NoExt, topic |-> NoTopic, target |-> {},
                prior |-> {}, doomed |-> {}, reply |-> reply]

NoPass(pc) == [pc |-> pc, losers |-> {}, marks |-> {}, drivers |-> {},
               marked |-> {}, victim |-> {}]

Init ==
  /\ docs = [i \in Ids |-> NoDoc]
  /\ lock = [s \in Stores |-> NoOne]
  /\ thread = [t \in Threads |-> Idle("none")]
  /\ pass = NoPass("idle")
  /\ now = 0
  /\ horizon = 0
  /\ overlapped = FALSE

PassResting == pass.pc \in {"idle", "raised"}

\* Thread t may take its store's lock.
LockFree(t) == lock[StoreOf[t]] = NoOne
Ready(t) == thread[t].pc = "idle" /\ LockFree(t)

Acquire(t) == lock' = [lock EXCEPT ![StoreOf[t]] = t]
Release(t) == lock' = [lock EXCEPT ![StoreOf[t]] = NoOne]
Reply(t, r) == thread' = [thread EXCEPT ![t] = Idle(r)]
-----------------------------------------------------------------------------
(***************************************************************************)
(* put().                                                                  *)
(***************************************************************************)

\* The live canonicals in the way of ext e taking topic k.  A doc that is not
\* canonical itself is rewritten without this check.
PriorOfAnyDoc(e, k) ==   \* mutant
  {i \in WithStatus(docs, "canonical") \ WithExt(docs, e) : docs[i].topic = k}

Prior(e, k) ==
  LET mine == WithExt(docs, e) IN
  IF \A i \in mine : docs[i].status = "canonical"
  THEN {i \in WithStatus(docs, "canonical") \ mine : docs[i].topic = k}
  ELSE {}

\* TopicCollisionError.
PutRefused(t) ==
  /\ Ready(t)
  /\ \E e \in Exts, k \in Topics : Prior(e, k) # {}
  /\ Reply(t, "collision")
  /\ UNCHANGED <<docs, lock, pass, now, horizon>>

\* The reads of put(); with force, a prior canonical is to be superseded.
PutCheck(t) ==
  /\ Ready(t)
  /\ now < MaxWrites
  /\ Acquire(t)
  /\ \E e \in Exts, k \in Topics :
       /\ WithExt(docs, e) \cup NextIds(docs) # {}
       /\ thread' = [thread EXCEPT ![t] =
            [Idle("none") EXCEPT !.pc = "checked", !.ext = e, !.topic = k,
               !.target = WithExt(docs, e), !.prior = Prior(e, k)]]
  /\ UNCHANGED <<docs, pass, now, horizon>>

StepDown(rows, S) ==
  [i \in Ids |-> IF i \in S /\ Present(rows, i)
                 THEN [rows[i] EXCEPT !.status = "superseded", !.lifecycle = "archived"]
                 ELSE rows[i]]

\* The UPDATE of an existing doc: it sets the lifecycle, not the status.
Rewritten(rows, S, k) ==
  [i \in Ids |-> IF i \in S /\ Present(rows, i)
                 THEN [rows[i] EXCEPT !.topic = k, !.lifecycle = "active", !.mtime = now + 1]
                 ELSE rows[i]]

Inserted(rows, i, e, k) ==
  [rows EXCEPT ![i] = [ext |-> e, topic |-> k, status |-> "canonical",
                       lifecycle |-> "active", mtime |-> now + 1]]

\* What the transaction of put() would make of the table, and the doc it writes.
PutOutcomes(t) ==
  LET th == thread[t]
      stepped == StepDown(docs, th.prior)
  IN IF th.target # {}
     THEN {<<Rewritten(stepped, th.target, th.topic), th.target>>}
     ELSE {<<Inserted(stepped, i, th.ext, th.topic), {i}>> : i \in NextIds(docs)}

UniqueExts(rows) ==
  \A i, j \in Ids : Present(rows, i) /\ rows[i].ext = rows[j].ext => i = j

\* The unique indexes: on ext_id, and on the topic of a canonical.
Admissible(rows) == UniqueTopics(rows) /\ UniqueExts(rows)

PutWrite(t) ==
  /\ thread[t].pc = "checked"
  /\ \E o \in PutOutcomes(t) :
       /\ Admissible(o[1])
       /\ docs' = o[1]
       /\ thread' = [thread EXCEPT ![t].pc = "stored", ![t].target = o[2],
                                   ![t].prior = {}]
  /\ now' = now + 1
  /\ UNCHANGED <<lock, pass, horizon>>

\* Another connection's row came first: IntegrityError, rolled back and raised.
PutFails(t) ==
  /\ thread[t].pc = "checked"
  /\ \E o \in PutOutcomes(t) : ~Admissible(o[1])
  /\ Release(t)
  /\ Reply(t, "integrity")
  /\ UNCHANGED <<docs, pass, now, horizon>>

\* detect_duplicate_for(): the older of the doc and a near canonical neighbour.
\* Which docs are near is left open: it is a matter of their contents.
Older(i, mi, j) == IF mi >= docs[j].mtime THEN j ELSE i

PutFlagRead(t) ==
  /\ thread[t].pc = "stored"
  /\ \E i \in thread[t].target \cap WithStatus(docs, "canonical") :
     \E j \in WithStatus(docs, "canonical") \ {i} :
       thread' = [thread EXCEPT ![t].pc = "flagging",
                                ![t].target = {Older(i, docs[i].mtime, j)}]
  /\ UNCHANGED <<docs, lock, pass, now, horizon>>

PutFlagWrite(t) ==
  /\ thread[t].pc = "flagging"
  /\ docs' = SetStatus(docs, thread[t].target, "duplicate")
  /\ Release(t)
  /\ Reply(t, "ok")
  /\ UNCHANGED <<pass, now, horizon>>

\* No near neighbour, the doc is not canonical, or its content did not change.
PutReturn(t) ==
  /\ thread[t].pc = "stored"
  /\ Release(t)
  /\ Reply(t, "ok")
  /\ UNCHANGED <<docs, pass, now, horizon>>
-----------------------------------------------------------------------------
\* delete(): the tombstone and the cascade are one transaction.
Delete(t) ==
  /\ Ready(t)
  /\ \E e \in Exts : \E i \in WithExt(docs, e) : docs' = [docs EXCEPT ![i] = NoDoc]
  /\ Reply(t, "none")
  /\ UNCHANGED <<lock, pass, now, horizon>>

SetLifecycle(t) ==
  /\ Ready(t)
  /\ \E e \in Exts : \E i \in WithExt(docs, e) : \E l \in {"active", "archived"} :
       docs' = [docs EXCEPT ![i].lifecycle = l]
  /\ Reply(t, "none")
  /\ UNCHANGED <<lock, pass, now, horizon>>

\* sweep_bloat(): the ids to delete are read once...
SweepRead(t) ==
  /\ Ready(t)
  /\ thread' = [thread EXCEPT ![t] = [Idle("none") EXCEPT
                   !.pc = "sweeping", !.doomed = WithStatus(docs, "superseded")]]
  /\ UNCHANGED <<docs, lock, pass, now, horizon>>

\* ... and deleted by id, in chunks between which the lock is free.  A chunk
\* boundary may fall anywhere: each id is a step.
SweepDelete(t) ==
  /\ thread[t].pc = "sweeping"
  /\ LockFree(t)
  /\ \E i \in thread[t].doomed :
       /\ docs' = [docs EXCEPT ![i] = NoDoc]
       /\ thread' = [thread EXCEPT ![t].doomed = @ \ {i}]
  /\ UNCHANGED <<lock, pass, now, horizon>>

\* Then one UPDATE ages the canonicals.
SweepAge(t) ==
  /\ thread[t].pc = "sweeping"
  /\ thread[t].doomed = {}
  /\ LockFree(t)
  /\ docs' = SetStatus(docs, {i \in WithStatus(docs, "canonical") :
                                docs[i].mtime <= horizon}, "stale")
  /\ Reply(t, "none")
  /\ UNCHANGED <<lock, pass, now, horizon>>
-----------------------------------------------------------------------------
(***************************************************************************)
(* compute_status(), full.                                                 *)
(***************************************************************************)

\* ORDER BY (status = 'canonical') DESC, mtime DESC, id DESC
Outranks(i, j) ==
  LET ci == docs[i].status = "canonical"
      cj == docs[j].status = "canonical"
  IN \/ ci /\ ~cj
     \/ /\ ci = cj
        /\ \/ docs[i].mtime > docs[j].mtime
           \/ docs[i].mtime = docs[j].mtime /\ i > j

Losers ==
  {j \in Unretired(docs) : \E i \in Unretired(docs) :
     docs[i].topic = docs[j].topic /\ Outranks(i, j)}

PassCollisions ==
  /\ Passes
  /\ PassResting
  /\ pass' = [NoPass("reset") EXCEPT !.losers = Losers]
  /\ UNCHANGED <<docs, lock, thread, now, horizon>>

\* The losers become duplicates, every other doc that is not superseded canonical.

Reset(rows, losers) ==
  SetStatus(SetStatus(rows, losers, "duplicate"),
            Unretired(rows) \ losers, "canonical")

PassReset ==
  /\ pass.pc = "reset"
  /\ UniqueTopics(Reset(docs, pass.losers))
  /\ docs' = Reset(docs, pass.losers)
  /\ pass' = NoPass("scan")
  /\ UNCHANGED <<lock, thread, now, horizon>>

PassRaises ==
  /\ pass.pc = "reset"
  /\ ~UniqueTopics(Reset(docs, pass.losers))
  /\ pass' = NoPass("raised")
  /\ UNCHANGED <<docs, lock, thread, now, horizon>>

\* Pass 1 reads its rows once, and marks the aged ones by id, in batches.
PassScan ==
  /\ pass.pc = "scan"
  /\ pass' = [NoPass("mark") EXCEPT
                !.marks = {i \in Unretired(docs) : docs[i].mtime <= horizon}]
  /\ UNCHANGED <<docs, lock, thread, now, horizon>>

PassMark ==
  /\ pass.pc = "mark"
  /\ \E i \in pass.marks :
       /\ \A j \in pass.marks : i <= j
       /\ docs' = SetStatus(docs, {i}, "stale")
       /\ pass' = [pass EXCEPT !.marks = @ \ {i}]
  /\ UNCHANGED <<lock, thread, now, horizon>>

\* Pass 2 reads its drivers, with their mtimes, once.
PassDrivers ==
  /\ pass.pc = "mark"
  /\ pass.marks = {}
  /\ pass' = [NoPass("detect") EXCEPT
                !.drivers = {<<i, docs[i].mtime>> : i \in WithStatus(docs, "canonical")}]
  /\ UNCHANGED <<docs, lock, thread, now, horizon>>

NextDriver(d) == pass.pc = "detect" /\ d \in pass.drivers /\ \A e \in pass.drivers : d[1] <= e[1]

\* A driver that still has its vector, and a near neighbour canonical by now.
PassPair ==
  /\ \E d \in pass.drivers :
       /\ NextDriver(d)
       /\ d[1] \notin pass.marked
       /\ Present(docs, d[1])
       /\ \E j \in WithStatus(docs, "canonical") \ {d[1]} :
            LET older == Older(d[1], d[2], j) IN
            /\ older \notin pass.marked
            /\ pass' = [pass EXCEPT !.pc = "flag", !.drivers = @ \ {d},
                                    !.marked = @ \cup {older}, !.victim = {older}]
  /\ UNCHANGED <<docs, lock, thread, now, horizon>>

PassFlag ==
  /\ pass.pc = "flag"
  /\ docs' = SetStatus(docs, pass.victim, "duplicate")
  /\ pass' = [pass EXCEPT !.pc = "detect", !.victim = {}]
  /\ UNCHANGED <<lock, thread, now, horizon>>

PassSkip ==
  /\ \E d \in pass.drivers :
       /\ NextDriver(d)
       /\ pass' = [pass EXCEPT !.drivers = @ \ {d}]
  /\ UNCHANGED <<docs, lock, thread, now, horizon>>

PassEnd ==
  /\ pass.pc = "detect"
  /\ pass.drivers = {}
  /\ pass' = NoPass("idle")
  /\ UNCHANGED <<docs, lock, thread, now, horizon>>
-----------------------------------------------------------------------------
\* Time passes: the docs written so far grow old.
Age ==
  /\ horizon < now
  /\ horizon' = horizon + 1
  /\ UNCHANGED <<docs, lock, thread, pass, now>>

Put(t) ==
  \/ PutRefused(t) \/ PutCheck(t) \/ PutWrite(t) \/ PutFails(t)
  \/ PutFlagRead(t) \/ PutFlagWrite(t) \/ PutReturn(t)

Sweep(t) == SweepRead(t) \/ SweepDelete(t) \/ SweepAge(t)

ComputeStatus ==
  \/ PassCollisions \/ PassReset \/ PassRaises \/ PassScan \/ PassMark
  \/ PassDrivers \/ PassPair \/ PassFlag \/ PassSkip \/ PassEnd

Next ==
  \/ /\ \E t \in Threads : Put(t) \/ Delete(t) \/ SetLifecycle(t) \/ Sweep(t)
     /\ overlapped' = (overlapped \/ ~PassResting)
  \/ /\ ComputeStatus
     /\ overlapped' = (overlapped \/ \E t \in Threads : thread[t].pc # "idle")
  \/ Age /\ UNCHANGED overlapped

Spec == Init /\ [][Next]_vars
-----------------------------------------------------------------------------
TypeOK ==
  /\ docs \in [Ids -> Doc \cup {NoDoc}]
  /\ lock \in [Stores -> Threads \cup {NoOne}]
  /\ thread \in [Threads ->
       [pc : {"idle", "checked", "stored", "flagging", "sweeping"},
        ext : Exts \cup {NoExt}, topic : Topics \cup {NoTopic},
        target : SUBSET Ids, prior : SUBSET Ids, doomed : SUBSET Ids,
        reply : {"none", "ok", "collision", "integrity"}]]
  /\ pass \in [pc : {"idle", "raised", "reset", "scan", "mark", "detect", "flag"},
               losers : SUBSET Ids, marks : SUBSET Ids,
               drivers : SUBSET (Ids \X (1..MaxWrites)),
               marked : SUBSET Ids, victim : SUBSET Ids]
  /\ now \in 0..MaxWrites
  /\ horizon \in 0..now
  /\ overlapped \in BOOLEAN

\* No topic has two live canonicals and no ext_id two rows: what the unique
\* indexes see to (db.py:1936-1943).
OneCanonicalPerTopic == UniqueTopics(docs) /\ UniqueExts(docs)

(***************************************************************************)
(* A put that answers has its doc in the store, under the topic it was     *)
(* written with and active: no other thread of the process deletes,        *)
(* rewrites or archives it before the answer (store.py:207-208, 244).      *)
(***************************************************************************)
AcknowledgedIsStored ==
  [][\A t \in Threads :
       thread[t].pc \in {"stored", "flagging"} /\ thread'[t].reply = "ok"
         => \E i \in Ids : /\ docs'[i].ext = thread[t].ext
                           /\ docs'[i].topic = thread[t].topic
                           /\ docs'[i].lifecycle = "active"]_vars

\* A forced put wrote: for every live canonical it took down, the topic has one.
SwapWhole(t) ==
  thread[t].pc = "checked" /\ thread'[t].pc = "stored"
    => \A i \in thread[t].prior :
         docs[i].status = "canonical" =>
           \E j \in WithStatus(docs', "canonical") : docs'[j].topic = docs[i].topic

StaysSuperseded(i) ==
  docs[i].status = "superseded" => docs'[i].status \in {"superseded", "absent"}

(***************************************************************************)
(* The swap of a forced put is whole: when the prior canonical of a topic  *)
(* steps down, the doc that was to replace it is that topic's canonical    *)
(* ("exactly one live canonical per topic survives", store.py:224-226).    *)
(* It is so until a status pass overlaps an operation.                     *)
(***************************************************************************)
SwapLeavesACanonical == [][\A t \in Threads : SwapWhole(t)]_vars

SwapLeavesACanonicalSerially ==
  [][~overlapped' => \A t \in Threads : SwapWhole(t)]_vars

(***************************************************************************)
(* A superseded doc stays superseded until it is deleted: no status pass,  *)
(* put or sweep gives it another status (status.py:69-73, 158-160).  It is *)
(* so until a status pass overlaps an operation.                           *)
(***************************************************************************)
SupersededStays == [][\A i \in Ids : StaysSuperseded(i)]_vars

SupersededStaysSerially == [][~overlapped' => \A i \in Ids : StaysSuperseded(i)]_vars

(***************************************************************************)
(* A put is refused with the collision it can act on, or succeeds: it      *)
(* never meets the unique index itself (store.py:250-253).  Nor does the   *)
(* reset of a status pass, which resolves the collisions first             *)
(* (status.py:75-86).  It is so until a status pass overlaps an operation. *)
(***************************************************************************)
NoRawIntegrityError == \A t \in Threads : thread[t].reply # "integrity"

PassNeverRaises == pass.pc # "raised"

NoIntegrityErrorSerially == ~overlapped => NoRawIntegrityError /\ PassNeverRaises

(***************************************************************************)
(* A sweep deletes retired docs only: whatever row its stale list of ids   *)
(* reaches is superseded when it goes (store.py:906-910, 924-928).         *)
(***************************************************************************)
SweepDeletesOnlySuperseded ==
  [][\A t \in Threads, i \in Ids :
       thread[t].pc = "sweeping" /\ i \in thread[t].doomed /\ i \notin thread'[t].doomed
         => docs[i].status \in {"superseded", "absent"}]_vars

(***************************************************************************)
(* A put makes its doc live again: what it wrote is active, and not among  *)
(* the docs the next sweep deletes (store.py:287-290).                     *)
(***************************************************************************)
WriteResurrects ==
  [][\A t \in Threads :
       thread[t].pc = "checked" /\ thread'[t].pc = "stored"
         => \A i \in thread'[t].target :
              docs'[i].lifecycle # "archived" /\ docs'[i].status # "superseded"]_vars

(***************************************************************************)
(* What no interleaving of store operations breaks: answered puts are      *)
(* stored; and until a status pass overlaps one, nothing meets the unique  *)
(* index, swaps are whole and retired docs stay retired.                   *)
(***************************************************************************)
TopicsHoldSerially ==
  /\ [](TypeOK /\ NoIntegrityErrorSerially)
  /\ AcknowledgedIsStored
  /\ SwapLeavesACanonicalSerially
  /\ SupersededStaysSerially
=============================================================================
