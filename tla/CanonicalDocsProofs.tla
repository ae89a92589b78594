------------------------ MODULE CanonicalDocsProofs ------------------------
(***************************************************************************)
(* Proofs about CanonicalDocs, for any number of threads, stores, ext_ids, *)
(* topics and docs: the unique keys of the docs table, and, for the        *)
(* threads of one process, that an answered put is stored and what holds   *)
(* of the topics until a status pass overlaps an operation.                *)
(***************************************************************************)
EXTENDS CanonicalDocs, TLAPS

(***************************************************************************)
(* The inductive invariants.                                               *)
(***************************************************************************)
Statuses == {"canonical", "stale", "duplicate", "superseded"}
Lifecycles == {"active", "archived"}
Row == [ext : Exts, topic : Topics, status : Statuses, lifecycle : Lifecycles, mtime : Nat]
Rows == [Ids -> Row \cup {NoDoc}]
Stages == {"idle", "checked", "stored", "flagging", "sweeping"}
Frame == [pc : Stages, ext : Exts \cup {NoExt}, topic : Topics \cup {NoTopic},
          target : SUBSET Ids, prior : SUBSET Ids, doomed : SUBSET Ids,
          reply : {"none", "ok", "collision", "integrity"}]

\* No bound on the clock: threads that have checked may write beyond it.
Types ==
  /\ docs \in Rows
  /\ lock \in [Stores -> Threads \cup {NoOne}]
  /\ thread \in [Threads -> Frame]
  /\ \A t \in Threads : thread[t].pc = "checked" =>
       thread[t].ext \in Exts /\ thread[t].topic \in Topics
  /\ now \in Nat

KeyInv == Types /\ OneCanonicalPerTopic

\* A put is between its reads and its answer.
Putting(t) == thread[t].pc \in {"checked", "stored", "flagging"}

\* ... and holds the lock of its store for as long.
Locked == \A t \in Threads : Putting(t) => lock[StoreOf[t]] = t

\* The doc of a put that wrote.
Stored(rows, t) ==
  \E i \in Ids : /\ rows[i].ext = thread[t].ext
                 /\ rows[i].topic = thread[t].topic
                 /\ rows[i].lifecycle = "active"

\* In one process nobody else creates, deletes or archives a doc meanwhile.
Holds ==
  \A t \in Threads :
    /\ thread[t].pc = "checked" => thread[t].target = WithExt(docs, thread[t].ext)
    /\ thread[t].pc \in {"stored", "flagging"} => Stored(docs, t)

PutInv == KeyInv /\ Locked /\ Holds

OneStore == \A t, u \in Threads : StoreOf[t] = StoreOf[u]
-----------------------------------------------------------------------------
(***************************************************************************)
(* Rows.                                                                   *)
(***************************************************************************)

LEMMA RowFacts ==
  /\ NoDoc.status = "absent" /\ NoDoc.ext = NoExt
  /\ \A r \in Row \cup {NoDoc} : (r.status = "absent" <=> r = NoDoc)
                                 /\ (r.ext = NoExt <=> r = NoDoc)
BY ConstantsAssumption DEF NoDoc, Row, Statuses

\* Rows that lost docs, or changed a status or a lifecycle, and made none canonical.
Tamer(rows) ==
  /\ rows \in Rows
  /\ \A i \in Ids : rows[i] = NoDoc
                    \/ /\ rows[i].ext = docs[i].ext /\ rows[i].topic = docs[i].topic
                       /\ rows[i].status = "canonical" => docs[i].status = "canonical"

LEMMA TamerKeepsKeys ==
  ASSUME KeyInv, NEW rows, Tamer(rows)
  PROVE  UniqueTopics(rows) /\ UniqueExts(rows)
<1>1. UniqueTopics(rows)
  BY RowFacts DEF KeyInv, Tamer, OneCanonicalPerTopic, UniqueTopics, WithStatus
<1>2. UniqueExts(rows)
  <2> SUFFICES ASSUME NEW i \in Ids, NEW j \in Ids, Present(rows, i), rows[i].ext = rows[j].ext
               PROVE  i = j
    BY DEF UniqueExts
  <2>1. rows[i] \in Row \cup {NoDoc} /\ rows[j] \in Row \cup {NoDoc}
    BY DEF Tamer, Rows
  <2>2. rows[i] # NoDoc /\ rows[j] # NoDoc
    BY <2>1, RowFacts DEF Present
  <2>3. docs[i].ext = docs[j].ext /\ docs[i].ext # NoExt
    BY <2>1, <2>2, RowFacts DEF Tamer
  <2>4. docs[i] \in Row \cup {NoDoc}
    BY DEF KeyInv, Types, Rows
  <2> QED BY <2>3, <2>4, RowFacts DEF KeyInv, OneCanonicalPerTopic, UniqueExts, Present
<1> QED BY <1>1, <1>2

\* UPDATE docs SET status touches nothing else.
LEMMA SetStatusFacts ==
  ASSUME NEW rows \in Rows, NEW S, NEW s \in Statuses
  PROVE  /\ SetStatus(rows, S, s) \in Rows
         /\ \A i \in Ids : LET r == SetStatus(rows, S, s)[i] IN
              /\ r.ext = rows[i].ext /\ r.topic = rows[i].topic
              /\ r.lifecycle = rows[i].lifecycle
              /\ r.status = "absent" <=> rows[i].status = "absent"
              /\ r.status = "canonical" /\ s # "canonical" => rows[i].status = "canonical"
<1> DEFINE Set(i) == [rows[i] EXCEPT !.status = s]
<1>1. \A i \in Ids : rows[i] \in Row \cup {NoDoc}
  BY DEF Rows
<1>2. \A i \in Ids : Present(rows, i) => rows[i] \in Row
  BY <1>1, RowFacts DEF Present
<1>3. \A i \in Ids : rows[i] \in Row =>
        /\ Set(i) \in Row /\ Set(i).ext = rows[i].ext /\ Set(i).topic = rows[i].topic
        /\ Set(i).lifecycle = rows[i].lifecycle /\ Set(i).status = s
  BY DEF Row
<1>4. \A i \in Ids : SetStatus(rows, S, s)[i] =
        IF i \in S /\ Present(rows, i) THEN Set(i) ELSE rows[i]
  BY DEF SetStatus
<1>5. SetStatus(rows, S, s) = [i \in Ids |-> SetStatus(rows, S, s)[i]]
  BY DEF SetStatus
<1> HIDE DEF Set
<1>6. SetStatus(rows, S, s) \in Rows
  BY <1>1, <1>2, <1>3, <1>4, <1>5 DEF Rows
<1> QED BY <1>2, <1>3, <1>4, <1>6 DEF Present, Statuses

LEMMA SetStatusTamer ==
  ASSUME Types, NEW S, NEW s \in Statuses \ {"canonical"}
  PROVE  Tamer(SetStatus(docs, S, s))
BY SetStatusFacts DEF Types, Tamer

LEMMA DropTamer ==
  ASSUME Types, NEW i \in Ids
  PROVE  Tamer([docs EXCEPT ![i] = NoDoc])
BY DEF Types, Rows, Tamer

LEMMA LifecycleTamer ==
  ASSUME Types, NEW e \in Exts, NEW i \in WithExt(docs, e), NEW l \in Lifecycles
  PROVE  Tamer([docs EXCEPT ![i].lifecycle = l])
<1> DEFINE row == [docs[i] EXCEPT !.lifecycle = l]
<1>1. i \in Ids /\ docs[i] \in Row
  BY RowFacts, ConstantsAssumption DEF WithExt, Types, Rows
<1>2. row \in Row /\ row.ext = docs[i].ext /\ row.topic = docs[i].topic
      /\ row.status = docs[i].status
  BY <1>1 DEF Row
<1>3. [docs EXCEPT ![i].lifecycle = l] = [docs EXCEPT ![i] = row]
  OBVIOUS
<1> HIDE DEF row
<1> QED BY <1>1, <1>2, <1>3 DEF Types, Rows, Tamer

\* What put() makes of the table is well formed.
LEMMA OutcomeType ==
  ASSUME Types, NEW t \in Threads, thread[t].pc = "checked", NEW o \in PutOutcomes(t)
  PROVE  o[1] \in Rows /\ o[2] \in SUBSET Ids
<1> DEFINE th == thread[t]
           stepped == StepDown(docs, th.prior)
           Down(i) == [docs[i] EXCEPT !.status = "superseded", !.lifecycle = "archived"]
           Up(i) == [stepped[i] EXCEPT !.topic = th.topic, !.lifecycle = "active",
                                       !.mtime = now + 1]
<1>1. th.ext \in Exts /\ th.topic \in Topics /\ th.target \in SUBSET Ids /\ now + 1 \in Nat
  BY DEF Types, Frame
<1>2. \A i \in Ids : docs[i] \in Row => Down(i) \in Row
  BY DEF Row, Statuses, Lifecycles
<1>3. stepped \in Rows
  BY <1>2, RowFacts DEF Types, Rows, StepDown, Present
<1>4. \A i \in Ids : stepped[i] \in Row => Up(i) \in Row
  BY <1>1 DEF Row, Statuses, Lifecycles
<1>5. Rewritten(stepped, th.target, th.topic) \in Rows
  BY <1>3, <1>4, RowFacts DEF Rows, Rewritten, Present
<1>6. [ext |-> th.ext, topic |-> th.topic, status |-> "canonical",
       lifecycle |-> "active", mtime |-> now + 1] \in Row
  BY <1>1 DEF Row, Statuses, Lifecycles
<1>7. \A i \in NextIds(docs) : i \in Ids /\ Inserted(stepped, i, th.ext, th.topic) \in Rows
  BY <1>3, <1>6 DEF NextIds, Rows, Inserted
<1> HIDE DEF stepped
<1>8. CASE th.target # {}
  BY <1>1, <1>5, <1>8 DEF PutOutcomes, stepped
<1>9. CASE th.target = {}
  BY <1>7, <1>9 DEF PutOutcomes, stepped
<1> QED BY <1>8, <1>9
-----------------------------------------------------------------------------
(***************************************************************************)
(* Each step keeps the types and the unique keys.                          *)
(***************************************************************************)

LEMMA IdleFrame ==
  \A r \in {"none", "ok", "collision", "integrity"} : Idle(r) \in Frame /\ Idle(r).pc = "idle"
BY DEF Idle, Frame, Stages

\* A step that gives one thread an admissible frame, and the table tamer rows.
LEMMA FrameStep ==
  ASSUME KeyInv, NEW t \in Threads, NEW f \in Frame,
         f.pc = "checked" => f.ext \in Exts /\ f.topic \in Topics,
         thread' = [thread EXCEPT ![t] = f],
         docs' \in Rows /\ OneCanonicalPerTopic',
         UNCHANGED lock \/ Acquire(t) \/ Release(t),
         now' \in Nat
  PROVE  KeyInv'
<1>1. thread' \in [Threads -> Frame] /\ thread'[t] = f
      /\ \A u \in Threads \ {t} : thread'[u] = thread[u]
  BY DEF KeyInv, Types
<1>2. lock' \in [Stores -> Threads \cup {NoOne}]
  BY ConstantsAssumption DEF KeyInv, Types, Acquire, Release
<1> QED BY <1>1, <1>2 DEF KeyInv, Types

LEMMA TamerKeyStep ==
  ASSUME KeyInv, Tamer(docs')
  PROVE  docs' \in Rows /\ OneCanonicalPerTopic'
BY TamerKeepsKeys DEF OneCanonicalPerTopic, Tamer

LEMMA SameRows == KeyInv => docs \in Rows /\ OneCanonicalPerTopic
BY DEF KeyInv, Types

LEMMA PutKeys ==
  ASSUME KeyInv, NEW t \in Threads, Put(t)
  PROVE  KeyInv'
<1>1. CASE PutRefused(t)
  <2>1. thread' = [thread EXCEPT ![t] = Idle("collision")]
    BY <1>1 DEF PutRefused, Reply
  <2> QED BY <1>1, <2>1, FrameStep, IdleFrame, SameRows
          DEF PutRefused, OneCanonicalPerTopic, KeyInv, Types
<1>2. CASE PutCheck(t)
  <2>1. PICK e \in Exts, k \in Topics : thread' = [thread EXCEPT ![t] =
            [Idle("none") EXCEPT !.pc = "checked", !.ext = e, !.topic = k,
               !.target = WithExt(docs, e), !.prior = Prior(e, k)]]
    BY <1>2 DEF PutCheck
  <2> DEFINE f == [Idle("none") EXCEPT !.pc = "checked", !.ext = e, !.topic = k,
                     !.target = WithExt(docs, e), !.prior = Prior(e, k)]
  <2>2. WithExt(docs, e) \in SUBSET Ids /\ Prior(e, k) \in SUBSET Ids
    BY DEF WithExt, Prior, WithStatus
  <2>3. f \in Frame /\ f.ext \in Exts /\ f.topic \in Topics
    BY <2>2, IdleFrame DEF Frame, Stages
  <2> HIDE DEF f
  <2> QED BY <1>2, <2>1, <2>3, FrameStep, SameRows
          DEF PutCheck, f, OneCanonicalPerTopic, KeyInv, Types
<1>3. CASE PutWrite(t)
  <2>1. PICK o \in PutOutcomes(t) :
          /\ Admissible(o[1]) /\ docs' = o[1]
          /\ thread' = [thread EXCEPT ![t].pc = "stored", ![t].target = o[2], ![t].prior = {}]
    BY <1>3 DEF PutWrite
  <2>2. thread[t] \in Frame /\ thread[t].pc = "checked"
    BY <1>3 DEF PutWrite, KeyInv, Types
  <2>3. o[1] \in Rows /\ o[2] \in SUBSET Ids
    BY <2>2, OutcomeType DEF KeyInv
  <2> DEFINE f == [thread[t] EXCEPT !.pc = "stored", !.target = o[2], !.prior = {}]
  <2>4. f \in Frame /\ f.pc = "stored"
    BY <2>2, <2>3 DEF Frame, Stages
  <2>5. thread' = [thread EXCEPT ![t] = f]
    BY <2>1 DEF KeyInv, Types
  <2>6. now' \in Nat /\ UNCHANGED lock
    BY <1>3 DEF PutWrite, KeyInv, Types
  <2> HIDE DEF f
  <2> QED BY <2>1, <2>3, <2>4, <2>5, <2>6, FrameStep
          DEF OneCanonicalPerTopic, Admissible
<1>4. CASE PutFails(t)
  <2>1. thread' = [thread EXCEPT ![t] = Idle("integrity")]
    BY <1>4 DEF PutFails, Reply
  <2> QED BY <1>4, <2>1, FrameStep, IdleFrame, SameRows
          DEF PutFails, OneCanonicalPerTopic, KeyInv, Types
<1>5. CASE PutFlagRead(t)
  <2>1. PICK i \in Ids, j \in Ids :
          thread' = [thread EXCEPT ![t].pc = "flagging",
                                   ![t].target = {Older(i, docs[i].mtime, j)}]
    BY <1>5 DEF PutFlagRead, WithStatus, KeyInv, Types, Frame
  <2>2. Older(i, docs[i].mtime, j) \in Ids
    BY DEF Older
  <2> DEFINE f == [thread[t] EXCEPT !.pc = "flagging", !.target = {Older(i, docs[i].mtime, j)}]
  <2>3. f \in Frame /\ f.pc = "flagging"
    BY <2>2 DEF Frame, Stages, KeyInv, Types
  <2>4. thread' = [thread EXCEPT ![t] = f]
    BY <2>1 DEF KeyInv, Types
  <2> HIDE DEF f
  <2> QED BY <1>5, <2>3, <2>4, FrameStep, SameRows
          DEF PutFlagRead, OneCanonicalPerTopic, KeyInv, Types
<1>6. CASE PutFlagWrite(t)
  <2>1. thread' = [thread EXCEPT ![t] = Idle("ok")]
    BY <1>6 DEF PutFlagWrite, Reply
  <2>2. Tamer(docs')
    BY <1>6, SetStatusTamer DEF PutFlagWrite, KeyInv, Statuses
  <2> QED BY <1>6, <2>1, <2>2, FrameStep, IdleFrame, TamerKeyStep DEF PutFlagWrite, KeyInv, Types
<1>7. CASE PutReturn(t)
  <2>1. thread' = [thread EXCEPT ![t] = Idle("ok")]
    BY <1>7 DEF PutReturn, Reply
  <2> QED BY <1>7, <2>1, FrameStep, IdleFrame, SameRows
          DEF PutReturn, OneCanonicalPerTopic, KeyInv, Types
<1> QED BY <1>1, <1>2, <1>3, <1>4, <1>5, <1>6, <1>7 DEF Put

LEMMA OtherKeys ==
  ASSUME KeyInv, NEW t \in Threads, Delete(t) \/ SetLifecycle(t) \/ Sweep(t)
  PROVE  KeyInv'
<1>1. CASE Delete(t)
  <2>1. Tamer(docs')
    BY <1>1, DropTamer DEF Delete, WithExt, KeyInv
  <2> QED BY <1>1, <2>1, FrameStep, IdleFrame, TamerKeyStep DEF Delete, Reply, KeyInv, Types
<1>2. CASE SetLifecycle(t)
  <2>1. Tamer(docs')
    BY <1>2, LifecycleTamer DEF SetLifecycle, KeyInv, Lifecycles
  <2> QED BY <1>2, <2>1, FrameStep, IdleFrame, TamerKeyStep
          DEF SetLifecycle, Reply, KeyInv, Types
<1>3. CASE SweepRead(t)
  <2> DEFINE f == [Idle("none") EXCEPT !.pc = "sweeping",
                                       !.doomed = WithStatus(docs, "superseded")]
  <2>1. f \in Frame /\ f.pc = "sweeping"
    BY IdleFrame DEF Frame, Stages, WithStatus
  <2>2. thread' = [thread EXCEPT ![t] = f]
    BY <1>3 DEF SweepRead
  <2> HIDE DEF f
  <2> QED BY <1>3, <2>1, <2>2, FrameStep, SameRows
          DEF SweepRead, OneCanonicalPerTopic, KeyInv, Types
<1>4. CASE SweepDelete(t)
  <2>1. PICK i \in thread[t].doomed :
          /\ docs' = [docs EXCEPT ![i] = NoDoc]
          /\ thread' = [thread EXCEPT ![t].doomed = @ \ {i}]
    BY <1>4 DEF SweepDelete
  <2> DEFINE f == [thread[t] EXCEPT !.doomed = @ \ {i}]
  <2>2. i \in Ids /\ f \in Frame /\ f.pc = "sweeping"
    BY <1>4 DEF SweepDelete, Frame, KeyInv, Types
  <2>3. thread' = [thread EXCEPT ![t] = f]
    BY <2>1 DEF KeyInv, Types
  <2>4. Tamer(docs')
    BY <2>1, <2>2, DropTamer DEF KeyInv
  <2> HIDE DEF f
  <2> QED BY <1>4, <2>2, <2>3, <2>4, FrameStep, TamerKeyStep DEF SweepDelete, KeyInv, Types
<1>5. CASE SweepAge(t)
  <2>1. Tamer(docs')
    BY <1>5, SetStatusTamer DEF SweepAge, KeyInv, Statuses
  <2> QED BY <1>5, <2>1, FrameStep, IdleFrame, TamerKeyStep DEF SweepAge, Reply, KeyInv, Types
<1> QED BY <1>1, <1>2, <1>3, <1>4, <1>5 DEF Sweep

\* A pass changes a status at most, and its reset is checked by the index.
LEMMA PassKeys == KeyInv /\ ComputeStatus => KeyInv'
<1> SUFFICES ASSUME KeyInv, ComputeStatus PROVE KeyInv'
  OBVIOUS
<1>1. UNCHANGED <<lock, thread, now>>
  BY DEF ComputeStatus, PassCollisions, PassReset, PassRaises, PassScan, PassMark,
         PassDrivers, PassPair, PassFlag, PassSkip, PassEnd
<1>2. ASSUME docs' \in Rows, OneCanonicalPerTopic' PROVE KeyInv'
  BY <1>1, <1>2 DEF KeyInv, Types
<1>3. CASE PassReset
  <2> DEFINE mid == SetStatus(docs, pass.losers, "duplicate")
             rows == SetStatus(mid, Unretired(docs) \ pass.losers, "canonical")
  <2>1. docs' = rows /\ UniqueTopics(rows)
    BY <1>3 DEF PassReset, Reset
  <2>2. mid \in Rows /\ \A i \in Ids : /\ mid[i].ext = docs[i].ext
                                       /\ mid[i].status = "absent" <=> docs[i].status = "absent"
    BY SetStatusFacts DEF KeyInv, Types, Statuses
  <2> HIDE DEF mid
  <2>3. rows \in Rows /\ \A i \in Ids : /\ rows[i].ext = mid[i].ext
                                        /\ rows[i].status = "absent" <=> mid[i].status = "absent"
    BY <2>2, SetStatusFacts DEF Statuses
  <2> HIDE DEF rows
  <2>4. UniqueExts(rows)
    <3>1. \A i \in Ids : /\ rows[i].ext = docs[i].ext
                         /\ Present(rows, i) <=> Present(docs, i)
      BY <2>2, <2>3 DEF Present
    <3>2. UniqueExts(docs)
      BY DEF KeyInv, OneCanonicalPerTopic
    <3> QED BY <3>1, <3>2 DEF UniqueExts
  <2> QED BY <1>2, <2>1, <2>3, <2>4 DEF OneCanonicalPerTopic
<1>4. CASE PassMark \/ PassFlag
  <2>1. PICK S : docs' = SetStatus(docs, S, "stale") \/ docs' = SetStatus(docs, S, "duplicate")
    BY <1>4 DEF PassMark, PassFlag
  <2>2. Tamer(docs')
    BY <2>1, SetStatusTamer DEF KeyInv, Statuses
  <2> QED BY <1>2, <2>2, TamerKeyStep
<1>5. CASE UNCHANGED docs
  BY <1>2, <1>5, SameRows DEF OneCanonicalPerTopic
<1> QED BY <1>3, <1>4, <1>5
        DEF ComputeStatus, PassCollisions, PassRaises, PassScan, PassDrivers, PassPair,
            PassSkip, PassEnd

LEMMA KeyInit == Init => KeyInv
<1> SUFFICES ASSUME Init PROVE KeyInv
  OBVIOUS
<1>1. docs \in Rows /\ \A i \in Ids : docs[i].status = "absent"
  BY RowFacts DEF Init, Rows
<1>2. Types
  BY <1>1, IdleFrame, ConstantsAssumption DEF Init, Types
<1>3. OneCanonicalPerTopic
  BY <1>1 DEF OneCanonicalPerTopic, UniqueTopics, UniqueExts, WithStatus, Present
<1> QED BY <1>2, <1>3 DEF KeyInv

LEMMA KeyStep == KeyInv /\ [Next]_vars => KeyInv'
<1> SUFFICES ASSUME KeyInv, [Next]_vars PROVE KeyInv'
  OBVIOUS
<1>1. CASE \E t \in Threads : Put(t) \/ Delete(t) \/ SetLifecycle(t) \/ Sweep(t)
  BY <1>1, PutKeys, OtherKeys
<1>2. CASE ComputeStatus
  BY <1>2, PassKeys
<1>3. CASE Age
  BY <1>3 DEF Age, KeyInv, Types, OneCanonicalPerTopic
<1>4. CASE UNCHANGED vars
  BY <1>4 DEF vars, KeyInv, Types, OneCanonicalPerTopic
<1> QED BY <1>1, <1>2, <1>3, <1>4 DEF Next

-----------------------------------------------------------------------------
(***************************************************************************)
(* The threads of one process.                                             *)
(***************************************************************************)

\* While a put is under way no thread gets the lock, and no other put is.
LEMMA Excluded ==
  ASSUME OneStore, Locked, NEW t \in Threads, Putting(t), NEW u \in Threads
  PROVE  ~LockFree(u) /\ (Putting(u) => u = t)
BY ConstantsAssumption DEF OneStore, Locked, LockFree

\* Rows that differ in statuses only.
Alike(rows) ==
  \A i \in Ids : /\ rows[i].ext = docs[i].ext /\ rows[i].topic = docs[i].topic
                 /\ rows[i].lifecycle = docs[i].lifecycle

LEMMA SetStatusAlike ==
  ASSUME Types, NEW S, NEW s \in Statuses
  PROVE  Alike(SetStatus(docs, S, s))
BY SetStatusFacts DEF Types, Alike

LEMMA PassAlike == Types /\ ComputeStatus => Alike(docs')
<1> SUFFICES ASSUME Types, ComputeStatus PROVE Alike(docs')
  OBVIOUS
<1>1. CASE PassReset
  <2> DEFINE mid == SetStatus(docs, pass.losers, "duplicate")
  <2>1. mid \in Rows /\ Alike(mid)
    BY SetStatusFacts, SetStatusAlike DEF Types, Statuses
  <2> HIDE DEF mid
  <2>2. docs' = SetStatus(mid, Unretired(docs) \ pass.losers, "canonical")
    BY <1>1 DEF PassReset, Reset, mid
  <2> QED BY <2>1, <2>2, SetStatusFacts DEF Alike, Statuses
<1>2. CASE PassMark \/ PassFlag
  <2>1. PICK S : docs' = SetStatus(docs, S, "stale") \/ docs' = SetStatus(docs, S, "duplicate")
    BY <1>2 DEF PassMark, PassFlag
  <2> QED BY <2>1, SetStatusAlike DEF Statuses
<1>3. CASE UNCHANGED docs
  BY <1>3 DEF Alike
<1> QED BY <1>1, <1>2, <1>3
        DEF ComputeStatus, PassCollisions, PassRaises, PassScan, PassDrivers, PassPair,
            PassSkip, PassEnd

\* What a thread does while it has no lock changes no row a put relies on; a
\* thread that is putting writes once.
LEMMA ThreadAlike ==
  ASSUME KeyInv, NEW t \in Threads, Put(t) \/ Delete(t) \/ SetLifecycle(t) \/ Sweep(t)
  PROVE  Alike(docs') \/ LockFree(t) \/ PutWrite(t)
<1>1. CASE PutFlagWrite(t)
  BY <1>1, SetStatusAlike DEF PutFlagWrite, KeyInv, Statuses
<1>2. CASE PutRefused(t) \/ PutCheck(t) \/ PutFails(t) \/ PutFlagRead(t) \/ PutReturn(t)
  BY <1>2 DEF PutRefused, PutCheck, PutFails, PutFlagRead, PutReturn, Alike
<1>3. CASE Delete(t) \/ SetLifecycle(t) \/ Sweep(t)
  BY <1>3 DEF Delete, SetLifecycle, Sweep, SweepRead, SweepDelete, SweepAge, Ready
<1> QED BY <1>1, <1>2, <1>3 DEF Put

\* put() writes the doc it was asked for, whatever row it had found.
LEMMA OutcomeStored ==
  ASSUME KeyInv, Holds, NEW t \in Threads, thread[t].pc = "checked", NEW o \in PutOutcomes(t)
  PROVE  Stored(o[1], t)
<1> DEFINE th == thread[t]
           stepped == StepDown(docs, th.prior)
<1>1. th.ext \in Exts /\ th.target = WithExt(docs, th.ext)
  BY DEF KeyInv, Types, Holds
<1>2. CASE th.target # {}
  <2>1. PICK i \in Ids : i \in th.target /\ docs[i].ext = th.ext
    BY <1>1, <1>2 DEF WithExt
  <2>2. docs[i] \in Row
    BY <1>1, <2>1, RowFacts, ConstantsAssumption DEF KeyInv, Types, Rows
  <2>3. stepped[i] \in Row /\ stepped[i].ext = th.ext
    BY <2>1, <2>2 DEF StepDown, Row, Statuses, Lifecycles
  <2>4. Present(stepped, i)
    BY <2>3 DEF Present, Row, Statuses
  <2> DEFINE up == [stepped[i] EXCEPT !.topic = th.topic, !.lifecycle = "active",
                                      !.mtime = now + 1]
  <2>5. up.ext = th.ext /\ up.topic = th.topic /\ up.lifecycle = "active"
    BY <2>3 DEF Row
  <2>6. o[1] = Rewritten(stepped, th.target, th.topic)
    BY <1>2 DEF PutOutcomes
  <2> HIDE DEF stepped
  <2>7. o[1][i] = up
    BY <2>1, <2>4, <2>6 DEF Rewritten
  <2> QED BY <2>5, <2>7 DEF Stored
<1>3. CASE th.target = {}
  <2>1. PICK i \in NextIds(docs) : o[1] = Inserted(stepped, i, th.ext, th.topic)
    BY <1>3 DEF PutOutcomes
  <2>2. i \in Ids /\ DOMAIN stepped = Ids
    BY DEF NextIds, StepDown
  <2> HIDE DEF stepped
  <2>3. o[1][i] = [ext |-> th.ext, topic |-> th.topic, status |-> "canonical",
                   lifecycle |-> "active", mtime |-> now + 1]
    BY <2>1, <2>2 DEF Inserted
  <2> QED BY <2>2, <2>3 DEF Stored
<1> QED BY <1>2, <1>3

\* Nothing happens to the rows behind a put that no status explains.
LEMMA RowsWait ==
  ASSUME OneStore, PutInv, [Next]_vars, NEW t \in Threads, Putting(t)
  PROVE  Alike(docs') \/ PutWrite(t)
<1>1. ASSUME NEW u \in Threads, Put(u) \/ Delete(u) \/ SetLifecycle(u) \/ Sweep(u)
      PROVE  Alike(docs') \/ PutWrite(t)
  <2>1. ~LockFree(u) /\ (Putting(u) => u = t)
    BY Excluded DEF PutInv
  <2>2. Alike(docs') \/ PutWrite(u)
    BY <1>1, <2>1, ThreadAlike DEF PutInv
  <2> QED BY <2>1, <2>2 DEF PutWrite, Putting
<1>2. CASE ComputeStatus
  BY <1>2, PassAlike DEF PutInv, KeyInv
<1>3. CASE Age \/ UNCHANGED vars
  BY <1>3 DEF Age, vars, Alike
<1> QED BY <1>1, <1>2, <1>3 DEF Next

LEMMA StoredStays ==
  ASSUME OneStore, PutInv, [Next]_vars, NEW t \in Threads, thread[t].pc \in {"stored", "flagging"}
  PROVE  Stored(docs', t)
<1>1. Alike(docs')
  BY RowsWait DEF Putting, PutWrite
<1>2. Stored(docs, t)
  BY DEF PutInv, Holds
<1> QED BY <1>1, <1>2 DEF Alike, Stored

LEMMA LockedStep ==
  ASSUME OneStore, PutInv, [Next]_vars
  PROVE  Locked'
<1> SUFFICES ASSUME NEW u \in Threads, Putting(u)' PROVE lock'[StoreOf[u]] = u
  BY DEF Locked
<1>0. /\ thread \in [Threads -> Frame] /\ lock \in [Stores -> Threads \cup {NoOne}]
      /\ StoreOf[u] \in Stores
  BY ConstantsAssumption DEF PutInv, KeyInv, Types
<1>1. ASSUME NEW t \in Threads, PutCheck(t) PROVE lock'[StoreOf[u]] = u
  <2>1. lock' = [lock EXCEPT ![StoreOf[t]] = t] /\ LockFree(t)
    BY <1>1 DEF PutCheck, Acquire, Ready
  <2>2. CASE u = t
    BY <1>0, <2>1, <2>2
  <2>3. CASE u # t
    <3>1. Putting(u)
      BY <1>0, <1>1, <2>3 DEF PutCheck, Putting
    <3> QED BY <2>1, <3>1, Excluded DEF PutInv
  <2> QED BY <2>2, <2>3
<1>2. ASSUME NEW t \in Threads, PutFails(t) \/ PutFlagWrite(t) \/ PutReturn(t)
      PROVE  FALSE
  <2>1. Putting(t) /\ thread' = [thread EXCEPT ![t] = thread'[t]] /\ thread'[t].pc = "idle"
    BY <1>0, <1>2, IdleFrame DEF PutFails, PutFlagWrite, PutReturn, Putting, Reply
  <2>2. u # t
    BY <2>1 DEF Putting
  <2>3. Putting(u)
    BY <1>0, <2>1, <2>2 DEF Putting
  <2> QED BY <2>1, <2>2, <2>3, Excluded DEF PutInv
<1>3. ASSUME NEW t \in Threads, UNCHANGED lock,
             \A v \in Threads \ {t} : thread'[v] = thread[v],
             Putting(t)' => Putting(t)
      PROVE  lock'[StoreOf[u]] = u
  BY <1>3 DEF PutInv, Locked, Putting
<1>4. ASSUME NEW t \in Threads, Put(t) PROVE lock'[StoreOf[u]] = u
  <2>1. CASE PutRefused(t)
    BY <1>0, <1>3, <2>1, IdleFrame DEF PutRefused, Reply, Putting
  <2>2. CASE PutWrite(t) \/ PutFlagRead(t)
    BY <1>0, <1>3, <2>2 DEF PutWrite, PutFlagRead, Putting
  <2> QED BY <1>1, <1>2, <1>4, <2>1, <2>2 DEF Put
<1>5. ASSUME NEW t \in Threads, Delete(t) \/ SetLifecycle(t) \/ Sweep(t)
      PROVE  lock'[StoreOf[u]] = u
  <2>1. CASE Delete(t) \/ SetLifecycle(t) \/ SweepAge(t)
    BY <1>0, <1>3, <2>1, IdleFrame DEF Delete, SetLifecycle, SweepAge, Reply, Putting
  <2>2. CASE SweepRead(t) \/ SweepDelete(t)
    BY <1>0, <1>3, <2>2 DEF SweepRead, SweepDelete, Putting, Idle, Frame
  <2> QED BY <1>5, <2>1, <2>2 DEF Sweep
<1>6. CASE ComputeStatus \/ Age \/ UNCHANGED vars
  <2>1. UNCHANGED <<lock, thread>>
    BY <1>6 DEF ComputeStatus, PassCollisions, PassReset, PassRaises, PassScan, PassMark,
         PassDrivers, PassPair, PassFlag, PassSkip, PassEnd, Age, vars
  <2> QED BY <2>1 DEF PutInv, Locked, Putting
<1> QED BY <1>4, <1>5, <1>6 DEF Next

LEMMA HoldsStep ==
  ASSUME OneStore, PutInv, [Next]_vars
  PROVE  Holds'
<1> SUFFICES ASSUME NEW t \in Threads
             PROVE  /\ thread'[t].pc = "checked" =>
                          thread'[t].target = WithExt(docs', thread'[t].ext)
                    /\ thread'[t].pc \in {"stored", "flagging"} => Stored(docs, t)'
  BY DEF Holds
<1>0. thread \in [Threads -> Frame]
  BY DEF PutInv, KeyInv, Types
<1>1. CASE PutCheck(t)
  <2>1. PICK e \in Exts, k \in Topics : thread'[t] =
            [Idle("none") EXCEPT !.pc = "checked", !.ext = e, !.topic = k,
               !.target = WithExt(docs, e), !.prior = Prior(e, k)]
    BY <1>0, <1>1 DEF PutCheck
  <2>2. /\ thread'[t].pc = "checked" /\ thread'[t].ext = e
        /\ thread'[t].target = WithExt(docs, e)
    BY <2>1 DEF Idle
  <2> QED BY <1>1, <2>2 DEF PutCheck
<1>2. CASE PutWrite(t)
  <2>1. PICK o \in PutOutcomes(t) : docs' = o[1] /\ thread'[t] =
            [thread[t] EXCEPT !.pc = "stored", !.target = o[2], !.prior = {}]
    BY <1>0, <1>2 DEF PutWrite
  <2>2. thread'[t].pc = "stored" /\ thread'[t].ext = thread[t].ext
        /\ thread'[t].topic = thread[t].topic
    BY <1>0, <2>1 DEF Frame
  <2>3. Stored(docs', t)
    BY <1>2, <2>1, OutcomeStored DEF PutWrite, PutInv
  <2> QED BY <2>2, <2>3 DEF Stored
<1>3. CASE PutFlagRead(t)
  <2>1. thread'[t].pc = "flagging" /\ thread'[t].ext = thread[t].ext
        /\ thread'[t].topic = thread[t].topic /\ thread[t].pc = "stored"
    BY <1>0, <1>3 DEF PutFlagRead, Frame
  <2> QED BY <2>1, StoredStays DEF Stored
<1>4. CASE thread'[t].pc \notin {"checked", "stored", "flagging"}
  BY <1>4
<1>5. CASE thread'[t] = thread[t] /\ ~PutWrite(t)
  <2>1. thread[t].pc = "checked" => Alike(docs')
    BY <1>5, RowsWait DEF Putting
  <2>2. thread[t].pc = "checked" => WithExt(docs', thread[t].ext) = WithExt(docs, thread[t].ext)
    BY <2>1 DEF Alike, WithExt
  <2>3. thread[t].pc = "checked" => thread[t].target = WithExt(docs, thread[t].ext)
    BY DEF PutInv, Holds
  <2>4. thread[t].pc \in {"stored", "flagging"} => Stored(docs', t)
    BY StoredStays
  <2> QED BY <1>5, <2>2, <2>3, <2>4 DEF Stored
<1>6. ASSUME NEW u \in Threads, Put(u) \/ Delete(u) \/ SetLifecycle(u) \/ Sweep(u), u # t
      PROVE  thread'[t] = thread[t]
  BY <1>0, <1>6 DEF Put, PutRefused, PutCheck, PutWrite, PutFails, PutFlagRead, PutFlagWrite,
       PutReturn, Delete, SetLifecycle, Sweep, SweepRead, SweepDelete, SweepAge, Reply
<1>7. CASE PutRefused(t) \/ PutFails(t) \/ PutFlagWrite(t) \/ PutReturn(t) \/ Delete(t)
           \/ SetLifecycle(t) \/ SweepAge(t)
  <2>1. Reply(t, "none") \/ Reply(t, "ok") \/ Reply(t, "collision") \/ Reply(t, "integrity")
    <3>1. PutRefused(t) => Reply(t, "collision")
      BY DEF PutRefused
    <3>2. PutFails(t) => Reply(t, "integrity")
      BY DEF PutFails
    <3>3. PutFlagWrite(t) \/ PutReturn(t) => Reply(t, "ok")
      BY DEF PutFlagWrite, PutReturn
    <3>4. Delete(t) => Reply(t, "none")
      BY DEF Delete
    <3>5. SetLifecycle(t) => Reply(t, "none")
      BY DEF SetLifecycle
    <3>6. SweepAge(t) => Reply(t, "none")
      BY DEF SweepAge
    <3> QED BY <1>7, <3>1, <3>2, <3>3, <3>4, <3>5, <3>6
  <2>2. thread'[t].pc = "idle"
    BY <1>0, <2>1, IdleFrame DEF Reply
  <2> QED BY <1>4, <2>2
<1>8. CASE SweepRead(t) \/ SweepDelete(t)
  <2>1. SweepRead(t) => thread'[t].pc = "sweeping"
    BY <1>0 DEF SweepRead, Idle
  <2>2. thread[t] \in Frame
    BY <1>0
  <2>3. SweepDelete(t) => thread'[t].pc = "sweeping"
    BY <1>0, <2>2 DEF SweepDelete, Frame
  <2> QED BY <1>4, <1>8, <2>1, <2>3
<1>9. CASE ComputeStatus \/ Age \/ UNCHANGED vars
  <2>1. thread'[t] = thread[t]
    BY <1>9 DEF ComputeStatus, PassCollisions, PassReset, PassRaises, PassScan, PassMark,
         PassDrivers, PassPair, PassFlag, PassSkip, PassEnd, Age, vars
  <2> QED BY <1>2, <1>5, <2>1
<1>10. ASSUME NEW u \in Threads, Put(u) \/ Delete(u) \/ SetLifecycle(u) \/ Sweep(u)
       PROVE  /\ thread'[t].pc = "checked" =>
                    thread'[t].target = WithExt(docs', thread'[t].ext)
              /\ thread'[t].pc \in {"stored", "flagging"} => Stored(docs, t)'
  <2>1. CASE u = t
    BY <1>1, <1>2, <1>3, <1>7, <1>8, <1>10, <2>1 DEF Put, Sweep
  <2>2. CASE u # t
    BY <1>2, <1>5, <1>6, <1>10, <2>2
  <2> QED BY <2>1, <2>2
<1> QED BY <1>9, <1>10 DEF Next

LEMMA PutInit == Init => PutInv
<1> SUFFICES ASSUME Init PROVE PutInv
  OBVIOUS
<1>1. \A t \in Threads : thread[t].pc = "idle"
  BY IdleFrame DEF Init
<1> QED BY <1>1, KeyInit DEF PutInv, Locked, Holds, Putting

\* In one process a put that answers has its doc in the store, under its topic
\* and active, however many threads write, delete, archive and sweep, and
\* whatever a status pass of another process does (store.py: the lock of put()).
THEOREM AnsweredIsStored == ASSUME OneStore PROVE Spec => AcknowledgedIsStored
<1>1. PutInv /\ [Next]_vars => PutInv'
  BY KeyStep, LockedStep, HoldsStep DEF PutInv
<1>2. PutInv /\ [Next]_vars =>
        [\A t \in Threads :
           thread[t].pc \in {"stored", "flagging"} /\ thread'[t].reply = "ok"
             => \E i \in Ids : /\ docs'[i].ext = thread[t].ext
                               /\ docs'[i].topic = thread[t].topic
                               /\ docs'[i].lifecycle = "active"]_vars
  BY StoredStays DEF Stored
<1> QED BY <1>1, <1>2, PutInit, PTL DEF Spec, AcknowledgedIsStored

-----------------------------------------------------------------------------
(***************************************************************************)
(* Serially: until a status pass overlaps an operation.                    *)
(***************************************************************************)
PassFrame == [pc : {"idle", "raised", "reset", "scan", "mark", "detect", "flag"},
              losers : SUBSET Ids, marks : SUBSET Ids,
              drivers : SUBSET (Ids \X (1..MaxWrites)),
              marked : SUBSET Ids, victim : SUBSET Ids]

\* One put at a time: it finds the clock below its bound, and so it is when it
\* writes.
Bounds ==
  /\ \A i \in Ids : Present(docs, i) => docs[i].mtime \in 1..MaxWrites
  /\ pass \in PassFrame
  /\ now \in 0..MaxWrites
  /\ horizon \in 0..now
  /\ overlapped \in BOOLEAN
  /\ \A t \in Threads : thread[t].pc = "checked" => now < MaxWrites

\* What a put has read is so when it writes.
ReadsHold ==
  \A t \in Threads :
    /\ thread[t].pc = "checked" => thread[t].prior = Prior(thread[t].ext, thread[t].topic)
    /\ thread[t].pc = "flagging" => thread[t].target \subseteq WithStatus(docs, "canonical")

\* What a pass has read is so when it writes; its own writes retire no doc.
PassHolds ==
  /\ PassResting => pass = NoPass(pass.pc)
  /\ pass.pc = "reset" => pass.losers = Losers
  /\ pass.marks \subseteq Unretired(docs)
  /\ \A d \in pass.drivers : d[1] \in Unretired(docs)
  /\ pass.victim \subseteq Unretired(docs)

Apart == PassResting \/ \A t \in Threads : thread[t].pc = "idle"

SerialInv ==
  ~overlapped => ReadsHold /\ PassHolds /\ Apart /\ NoRawIntegrityError /\ PassNeverRaises

TopicsInv == PutInv /\ Bounds /\ SerialInv

LEMMA NoPassIs ==
  \A pc : /\ NoPass(pc).pc = pc /\ NoPass(pc).losers = {} /\ NoPass(pc).marks = {}
          /\ NoPass(pc).drivers = {} /\ NoPass(pc).marked = {} /\ NoPass(pc).victim = {}
BY DEF NoPass

\* What a status update leaves, and what it sets.
LEMMA SetStatusIs ==
  ASSUME NEW rows \in Rows, NEW S, NEW s \in Statuses
  PROVE  \A i \in Ids :
           /\ SetStatus(rows, S, s)[i].mtime = rows[i].mtime
           /\ i \in S /\ Present(rows, i) => SetStatus(rows, S, s)[i].status = s
           /\ i \notin S \/ ~Present(rows, i) => SetStatus(rows, S, s)[i] = rows[i]
<1> DEFINE Set(i) == [rows[i] EXCEPT !.status = s]
<1>1. \A i \in Ids : SetStatus(rows, S, s)[i] =
        IF i \in S /\ Present(rows, i) THEN Set(i) ELSE rows[i]
  BY DEF SetStatus
<1>2. \A i \in Ids : Present(rows, i) => Set(i).mtime = rows[i].mtime /\ Set(i).status = s
  <2> TAKE i \in Ids
  <2> HAVE Present(rows, i)
  <2>1. rows[i] \in Row
    BY RowFacts DEF Rows, Present
  <2> QED BY <2>1 DEF Row
<1> HIDE DEF Set
<1> QED BY <1>1, <1>2

\* Rows that were there before, as old as they were.
Kept(rows) == \A i \in Ids : Present(rows, i) => Present(docs, i) /\ rows[i].mtime = docs[i].mtime

\* ... among them every retired doc there is.
KeptRetired(rows) ==
  \A i \in Ids : docs[i].status = "superseded" => rows[i].status \in {"superseded", "absent"}

LEMMA SetStatusKept ==
  ASSUME Types, NEW S, NEW s \in Statuses
  PROVE  /\ Kept(SetStatus(docs, S, s))
         /\ S \cap WithStatus(docs, "superseded") = {} => KeptRetired(SetStatus(docs, S, s))
<1>1. docs \in Rows
  BY DEF Types
<1>2. \A i \in Ids : Present(SetStatus(docs, S, s), i) <=> Present(docs, i)
  BY <1>1, SetStatusFacts DEF Present
<1>3. Kept(SetStatus(docs, S, s))
  BY <1>1, <1>2, SetStatusIs DEF Kept
<1>4. ASSUME S \cap WithStatus(docs, "superseded") = {}
      PROVE  KeptRetired(SetStatus(docs, S, s))
  BY <1>1, <1>4, SetStatusIs DEF KeptRetired, WithStatus
<1> QED BY <1>3, <1>4

\* While a put is under way no other thread of the process takes a step.
LEMMA OnlyThePutter ==
  ASSUME OneStore, PutInv, NEW t \in Threads, Putting(t), NEW u \in Threads,
         Put(u) \/ Delete(u) \/ SetLifecycle(u) \/ Sweep(u)
  PROVE  /\ u = t
         /\ PutWrite(t) \/ PutFails(t) \/ PutFlagRead(t) \/ PutFlagWrite(t) \/ PutReturn(t)
<1>1. ~LockFree(u) /\ (Putting(u) => u = t)
  BY Excluded DEF PutInv
<1>2. ~(PutRefused(u) \/ PutCheck(u) \/ Delete(u) \/ SetLifecycle(u) \/ SweepRead(u)
        \/ SweepDelete(u) \/ SweepAge(u))
  BY <1>1 DEF PutRefused, PutCheck, Delete, SetLifecycle, SweepRead, SweepDelete, SweepAge, Ready
<1>3. PutWrite(u) \/ PutFails(u) \/ PutFlagRead(u) \/ PutFlagWrite(u) \/ PutReturn(u)
  BY <1>2 DEF Put, Sweep
<1>4. Putting(u)
  BY <1>3 DEF PutWrite, PutFails, PutFlagRead, PutFlagWrite, PutReturn, Putting
<1> QED BY <1>1, <1>3, <1>4

\* A lookup by name finds one doc.
LEMMA OneOfAName ==
  ASSUME KeyInv, NEW e \in Exts, NEW i \in WithExt(docs, e), NEW j \in WithExt(docs, e)
  PROVE  i = j /\ Present(docs, i)
<1>1. i \in Ids /\ docs[i].ext = e /\ j \in Ids /\ docs[j].ext = e /\ e # NoExt
  BY ConstantsAssumption DEF WithExt
<1>2. docs[i] \in Row \cup {NoDoc} /\ docs[i] # NoDoc
  BY <1>1, RowFacts DEF KeyInv, Types, Rows
<1>3. Present(docs, i)
  BY <1>2, RowFacts DEF Present
<1> QED BY <1>1, <1>3 DEF KeyInv, OneCanonicalPerTopic, UniqueExts

\* What put() writes, field by field.
OverExisting(rows, t) ==
  /\ thread[t].target # {}
  /\ \A i \in Ids :
       /\ rows[i].ext = docs[i].ext
       /\ i \in thread[t].target => rows[i].topic = thread[t].topic /\ rows[i].mtime = now + 1
       /\ i \notin thread[t].target =>
            rows[i].topic = docs[i].topic /\ rows[i].mtime = docs[i].mtime
       /\ i \in thread[t].prior /\ Present(docs, i) => rows[i].status = "superseded"
       /\ i \notin thread[t].prior \/ ~Present(docs, i) => rows[i].status = docs[i].status

AtId(rows, t, n) ==
  /\ thread[t].target = {}
  /\ ~Present(docs, n)
  /\ rows[n] = [ext |-> thread[t].ext, topic |-> thread[t].topic, status |-> "canonical",
                lifecycle |-> "active", mtime |-> now + 1]
  /\ \A i \in Ids \ {n} :
       /\ rows[i].ext = docs[i].ext /\ rows[i].topic = docs[i].topic
       /\ rows[i].mtime = docs[i].mtime
       /\ i \in thread[t].prior /\ Present(docs, i) => rows[i].status = "superseded"
       /\ i \notin thread[t].prior \/ ~Present(docs, i) => rows[i].status = docs[i].status

LEMMA StepDownIs ==
  ASSUME Types, NEW S
  PROVE  /\ StepDown(docs, S) \in [Ids -> Row \cup {NoDoc}]
         /\ \A i \in Ids :
              /\ StepDown(docs, S)[i].ext = docs[i].ext /\ StepDown(docs, S)[i].topic = docs[i].topic
              /\ StepDown(docs, S)[i].mtime = docs[i].mtime
              /\ i \in S /\ Present(docs, i) => StepDown(docs, S)[i].status = "superseded"
              /\ i \notin S \/ ~Present(docs, i) => StepDown(docs, S)[i].status = docs[i].status
              /\ Present(StepDown(docs, S), i) <=> Present(docs, i)
<1> DEFINE Down(i) == [docs[i] EXCEPT !.status = "superseded", !.lifecycle = "archived"]
<1>1. \A i \in Ids : StepDown(docs, S)[i] = IF i \in S /\ Present(docs, i) THEN Down(i) ELSE docs[i]
  BY DEF StepDown
<1>2. \A i \in Ids : Present(docs, i) =>
        /\ Down(i) \in Row /\ Down(i).ext = docs[i].ext /\ Down(i).topic = docs[i].topic
        /\ Down(i).mtime = docs[i].mtime /\ Down(i).status = "superseded"
  <2> TAKE i \in Ids
  <2> HAVE Present(docs, i)
  <2>1. docs[i] \in Row
    BY RowFacts DEF Types, Rows, Present
  <2> QED BY <2>1 DEF Row, Statuses, Lifecycles
<1>3. StepDown(docs, S) = [i \in Ids |-> StepDown(docs, S)[i]]
  BY DEF StepDown
<1> HIDE DEF Down
<1>4. \A i \in Ids : StepDown(docs, S)[i] \in Row \cup {NoDoc}
  BY <1>1, <1>2 DEF Types, Rows
<1>5. StepDown(docs, S) \in [Ids -> Row \cup {NoDoc}]
  BY <1>3, <1>4
<1> QED BY <1>1, <1>2, <1>5 DEF Present

LEMMA OutcomeIs ==
  ASSUME PutInv, NEW t \in Threads, thread[t].pc = "checked", NEW o \in PutOutcomes(t)
  PROVE  OverExisting(o[1], t) \/ \E n \in Ids : AtId(o[1], t, n) /\ o[2] = {n}
<1> DEFINE th == thread[t]
           stepped == StepDown(docs, th.prior)
           Up(i) == [stepped[i] EXCEPT !.topic = th.topic, !.lifecycle = "active",
                                       !.mtime = now + 1]
<1>1. /\ Types /\ th.ext \in Exts /\ th.target = WithExt(docs, th.ext)
  BY DEF PutInv, KeyInv, Types, Holds
<1>2. /\ stepped \in [Ids -> Row \cup {NoDoc}]
      /\ \A i \in Ids :
              /\ stepped[i].ext = docs[i].ext /\ stepped[i].topic = docs[i].topic
              /\ stepped[i].mtime = docs[i].mtime
              /\ i \in th.prior /\ Present(docs, i) => stepped[i].status = "superseded"
              /\ i \notin th.prior \/ ~Present(docs, i) => stepped[i].status = docs[i].status
              /\ Present(stepped, i) <=> Present(docs, i)
  BY <1>1, StepDownIs
<1>3. CASE th.target # {}
  <2>1. o[1] = Rewritten(stepped, th.target, th.topic)
    BY <1>3 DEF PutOutcomes
  <2>2. \A i \in Ids : o[1][i] = IF i \in th.target /\ Present(stepped, i) THEN Up(i) ELSE stepped[i]
    BY <2>1 DEF Rewritten
  <2>3. \A i \in Ids : Present(stepped, i) =>
          /\ Up(i).ext = stepped[i].ext /\ Up(i).status = stepped[i].status
          /\ Up(i).topic = th.topic /\ Up(i).mtime = now + 1
    <3> TAKE i \in Ids
    <3> HAVE Present(stepped, i)
    <3>1. stepped[i] \in Row
      BY <1>2, RowFacts DEF Present
    <3> HIDE DEF stepped
    <3> QED BY <3>1 DEF Row
  <2>4. \A i \in th.target : Present(docs, i)
    BY <1>1, OneOfAName DEF PutInv
  <2> HIDE DEF Up, stepped
  <2>5. OverExisting(o[1], t)
    BY <1>2, <1>3, <2>2, <2>3, <2>4 DEF OverExisting
  <2> QED BY <2>5
<1>4. CASE th.target = {}
  <2>1. PICK n \in NextIds(docs) : o = <<Inserted(stepped, n, th.ext, th.topic), {n}>>
    BY <1>4 DEF PutOutcomes
  <2>2. n \in Ids /\ ~Present(docs, n)
    BY DEF NextIds, Ids
  <2> HIDE DEF stepped
  <2>3. /\ o[1][n] = [ext |-> th.ext, topic |-> th.topic, status |-> "canonical",
                      lifecycle |-> "active", mtime |-> now + 1]
        /\ \A i \in Ids \ {n} : o[1][i] = stepped[i]
    BY <1>2, <2>1, <2>2 DEF Inserted
  <2>4. AtId(o[1], t, n)
    BY <1>2, <1>4, <2>2, <2>3 DEF AtId
  <2> QED BY <2>1, <2>2, <2>4
<1> QED BY <1>3, <1>4

\* The reads of a put leave it nothing to collide with.
LEMMA OutcomeAdmissible ==
  ASSUME PutInv, NEW t \in Threads, thread[t].pc = "checked", NEW o \in PutOutcomes(t),
         thread[t].prior = Prior(thread[t].ext, thread[t].topic)
  PROVE  Admissible(o[1])
<1> DEFINE e == thread[t].ext
           k == thread[t].topic
           mine == thread[t].target
           prior == thread[t].prior
           rows == o[1]
<1>1. /\ KeyInv /\ e \in Exts /\ mine = WithExt(docs, e)
      /\ UniqueTopics(docs) /\ UniqueExts(docs)
      /\ rows \in Rows
  BY OutcomeType DEF PutInv, KeyInv, Types, Holds, OneCanonicalPerTopic
<1>2. \A i \in Ids : docs[i].ext = e => i \in mine /\ Present(docs, i)
  BY <1>1, OneOfAName DEF WithExt
<1>3. prior \subseteq WithStatus(docs, "canonical") \ mine
  BY <1>1 DEF Prior
<1>4. CASE OverExisting(rows, t)
  <2>1. \A i \in Ids : Present(rows, i) => Present(docs, i)
    BY <1>4 DEF OverExisting, Present
  <2>2. UniqueExts(rows)
    BY <1>1, <1>4, <2>1 DEF OverExisting, UniqueExts
  <2>3. PICK w \in Ids : mine = {w} /\ Present(docs, w)
    BY <1>1, <1>4, OneOfAName DEF OverExisting, WithExt
  <2>4. \A i \in Ids : rows[i].status = "canonical" => docs[i].status = "canonical" /\ i \notin prior
    BY <1>4 DEF OverExisting, Present
  <2>5. ASSUME NEW i \in Ids, NEW j \in Ids, rows[i].status = "canonical",
               rows[j].status = "canonical", rows[i].topic = rows[j].topic
        PROVE  i = j
    <3>1. docs[i].status = "canonical" /\ docs[j].status = "canonical"
          /\ i \notin prior /\ j \notin prior
      BY <2>4, <2>5
    <3>2. ASSUME NEW x \in Ids, NEW y \in Ids, x # y, x = w, docs[x].status = "canonical",
                 docs[y].status = "canonical", y \notin prior, rows[x].topic = rows[y].topic
          PROVE  FALSE
      <4>1. docs[y].topic = k
        BY <1>4, <2>3, <3>2 DEF OverExisting
      <4>2. \A m \in mine : docs[m].status = "canonical"
        BY <2>3, <3>2
      <4>3. prior = {m \in WithStatus(docs, "canonical") \ mine : docs[m].topic = k}
        BY <1>1, <4>2 DEF Prior
      <4> QED BY <2>3, <3>2, <4>1, <4>3 DEF WithStatus
    <3>3. CASE i = w \/ j = w
      BY <2>5, <3>1, <3>2, <3>3
    <3>4. CASE i # w /\ j # w
      <4>1. rows[i].topic = docs[i].topic /\ rows[j].topic = docs[j].topic
        BY <1>4, <2>3, <3>4 DEF OverExisting
      <4> QED BY <1>1, <2>5, <3>1, <4>1 DEF UniqueTopics, WithStatus
    <3> QED BY <3>3, <3>4
  <2> QED BY <2>2, <2>5 DEF Admissible, UniqueTopics, WithStatus
<1>5. CASE \E n \in Ids : AtId(rows, t, n)
  <2>1. PICK n \in Ids : AtId(rows, t, n)
    BY <1>5
  <2>2. /\ rows[n].ext = e /\ rows[n].topic = k
        /\ \A i \in Ids \ {n} : Present(rows, i) => Present(docs, i)
    BY <2>1 DEF AtId, Present
  <2>3. \A i \in Ids : docs[i].ext # e
    BY <1>2, <2>1 DEF AtId
  <2>4. UniqueExts(rows)
    <3> SUFFICES ASSUME NEW i \in Ids, NEW j \in Ids, Present(rows, i),
                        rows[i].ext = rows[j].ext, i # j
                 PROVE  FALSE
      BY DEF UniqueExts
    <3>1. \A x \in Ids \ {n} : rows[x].ext = docs[x].ext
      BY <2>1 DEF AtId
    <3>2. CASE i = n \/ j = n
      BY <2>2, <2>3, <3>1, <3>2
    <3>3. CASE i # n /\ j # n
      BY <1>1, <2>2, <3>1, <3>3 DEF UniqueExts
    <3> QED BY <3>2, <3>3
  <2>5. prior = {m \in WithStatus(docs, "canonical") : docs[m].topic = k}
    BY <1>1, <2>1 DEF Prior, AtId
  <2>6. \A i \in Ids \ {n} : rows[i].status = "canonical" =>
          /\ docs[i].status = "canonical" /\ i \notin prior /\ rows[i].topic = docs[i].topic
    BY <2>1 DEF AtId, Present
  <2>7. \A i \in Ids \ {n} : rows[i].status = "canonical" => rows[i].topic # k
    BY <2>5, <2>6 DEF WithStatus
  <2>8. UniqueTopics(rows)
    BY <1>1, <2>2, <2>6, <2>7 DEF UniqueTopics, WithStatus
  <2> QED BY <2>4, <2>8 DEF Admissible
<1> QED BY <1>4, <1>5, OutcomeIs

\* A step of a thread, and of a pass, as Next has them.
Acts(t) == Put(t) \/ Delete(t) \/ SetLifecycle(t) \/ Sweep(t)
ThreadStep(t) == Acts(t) /\ overlapped' = (overlapped \/ ~PassResting)
PassStep ==
  ComputeStatus /\ overlapped' = (overlapped \/ \E t \in Threads : thread[t].pc # "idle")

LEMMA NextIs ==
  [Next]_vars =>
    \/ \E t \in Threads : ThreadStep(t)
    \/ PassStep
    \/ Age /\ UNCHANGED overlapped
    \/ UNCHANGED vars
BY DEF Next, ThreadStep, Acts, PassStep

\* A thread's step is its own.
LEMMA ThreadStepIs ==
  ASSUME Types, NEW t \in Threads, Acts(t)
  PROVE  /\ pass' = pass /\ horizon' = horizon
         /\ \A u \in Threads \ {t} : thread'[u] = thread[u]
         /\ thread'[t].pc = "checked" => PutCheck(t)
         /\ thread'[t].pc = "stored" => PutWrite(t)
         /\ thread'[t].pc = "flagging" => PutFlagRead(t)
         /\ thread'[t].reply = "integrity" => PutFails(t) \/ thread[t].reply = "integrity"
         /\ PutWrite(t) \/ now' = now
<1>0. thread \in [Threads -> Frame] /\ thread[t] \in Frame
  BY DEF Types
<1>1. pass' = pass /\ horizon' = horizon
  BY DEF Acts, Put, PutRefused, PutCheck, PutWrite, PutFails, PutFlagRead, PutFlagWrite,
       PutReturn, Delete, SetLifecycle, Sweep, SweepRead, SweepDelete, SweepAge
<1>2. \A u \in Threads \ {t} : thread'[u] = thread[u]
  BY <1>0 DEF Acts, Put, PutRefused, PutCheck, PutWrite, PutFails, PutFlagRead, PutFlagWrite,
       PutReturn, Delete, SetLifecycle, Sweep, SweepRead, SweepDelete, SweepAge, Reply
<1>3. PutWrite(t) \/ now' = now
  BY DEF Acts, Put, PutRefused, PutCheck, PutFails, PutFlagRead, PutFlagWrite,
       PutReturn, Delete, SetLifecycle, Sweep, SweepRead, SweepDelete, SweepAge
<1>4. \A r : Idle(r).pc = "idle" /\ Idle(r).reply = r
  BY DEF Idle
<1>5. CASE PutRefused(t) \/ PutFlagWrite(t) \/ PutReturn(t) \/ Delete(t) \/ SetLifecycle(t)
           \/ SweepAge(t)
  <2>1. thread'[t] \in {Idle("collision"), Idle("ok"), Idle("none")}
    BY <1>0, <1>5 DEF PutRefused, PutFlagWrite, PutReturn, Delete, SetLifecycle, SweepAge, Reply
  <2> QED BY <1>1, <1>2, <1>3, <1>4, <2>1
<1>6. CASE PutFails(t)
  <2>1. thread'[t] = Idle("integrity")
    BY <1>0, <1>6 DEF PutFails, Reply
  <2> QED BY <1>1, <1>2, <1>3, <1>4, <1>6, <2>1
<1>7. CASE PutCheck(t)
  <2>1. thread'[t].pc = "checked" /\ thread'[t].reply = "none"
    BY <1>0, <1>7 DEF PutCheck, Idle
  <2> QED BY <1>1, <1>2, <1>3, <1>7, <2>1
<1>8. CASE PutWrite(t)
  <2>1. thread'[t].pc = "stored" /\ thread'[t].reply = thread[t].reply
    BY <1>0, <1>8 DEF PutWrite, Frame
  <2> QED BY <1>1, <1>2, <1>3, <1>8, <2>1
<1>9. CASE PutFlagRead(t)
  <2>1. thread'[t].pc = "flagging" /\ thread'[t].reply = thread[t].reply
    BY <1>0, <1>9 DEF PutFlagRead, Frame
  <2> QED BY <1>1, <1>2, <1>3, <1>9, <2>1
<1>10. CASE SweepRead(t)
  <2>1. thread'[t].pc = "sweeping" /\ thread'[t].reply = "none"
    BY <1>0, <1>10 DEF SweepRead, Idle
  <2> QED BY <1>1, <1>2, <1>3, <2>1
<1>11. CASE SweepDelete(t)
  <2>1. thread'[t].pc = thread[t].pc /\ thread'[t].reply = thread[t].reply
        /\ thread[t].pc = "sweeping"
    BY <1>0, <1>11 DEF SweepDelete, Frame
  <2> QED BY <1>1, <1>2, <1>3, <2>1
<1> QED
  BY <1>5, <1>6, <1>7, <1>8, <1>9, <1>10, <1>11 DEF Acts, Put, Sweep

LEMMA PassStepIs ==
  ASSUME ComputeStatus
  PROVE  UNCHANGED <<lock, thread, now, horizon>>
BY DEF ComputeStatus, PassCollisions, PassReset, PassRaises, PassScan, PassMark,
       PassDrivers, PassPair, PassFlag, PassSkip, PassEnd

LEMMA SameDocs ==
  ASSUME NEW t \in Threads,
         \/ PutRefused(t) \/ PutCheck(t) \/ PutFails(t) \/ PutFlagRead(t) \/ PutReturn(t)
         \/ SweepRead(t)
  PROVE  docs' = docs
BY DEF PutRefused, PutCheck, PutFails, PutFlagRead, PutReturn, SweepRead

\* Only put() gives a doc an mtime.
LEMMA RowsKept ==
  ASSUME KeyInv, [Next]_vars
  PROVE  Kept(docs') \/ \E t \in Threads : PutWrite(t)
<1>0. Types /\ docs \in Rows
  BY DEF KeyInv, Types
<1>1. ASSUME docs' = docs PROVE Kept(docs')
  BY <1>1 DEF Kept
<1>2. ASSUME NEW i \in Ids, docs' = [docs EXCEPT ![i] = NoDoc]
      PROVE  Kept(docs')
  BY <1>0, <1>2, RowFacts DEF Kept, Rows, Present
<1>3. ASSUME NEW S, NEW s \in Statuses, docs' = SetStatus(docs, S, s)
      PROVE  Kept(docs')
  BY <1>0, <1>3, SetStatusKept
<1>4. ASSUME NEW t \in Threads, Acts(t), ~PutWrite(t)
      PROVE  Kept(docs')
  <2>1. CASE PutRefused(t) \/ PutCheck(t) \/ PutFails(t) \/ PutFlagRead(t) \/ PutReturn(t)
             \/ SweepRead(t)
    BY <1>1, <2>1, SameDocs
  <2>2. CASE PutFlagWrite(t)
    BY <1>3, <2>2 DEF PutFlagWrite, Statuses
  <2>3. CASE SweepAge(t)
    BY <1>3, <2>3 DEF SweepAge, Statuses
  <2>4. CASE Delete(t)
    BY <1>2, <2>4 DEF Delete, WithExt
  <2>5. CASE SweepDelete(t)
    <3>1. thread[t].doomed \subseteq Ids
      BY <1>0 DEF Types, Frame
    <3> QED BY <1>2, <2>5, <3>1 DEF SweepDelete
  <2>6. CASE SetLifecycle(t)
    <3>0. PICK e \in Exts : \E i \in WithExt(docs, e) : \E l \in {"active", "archived"} :
            docs' = [docs EXCEPT ![i].lifecycle = l]
      BY <2>6 DEF SetLifecycle
    <3>1. PICK i \in WithExt(docs, e) : \E l \in {"active", "archived"} :
            docs' = [docs EXCEPT ![i].lifecycle = l]
      BY <3>0
    <3> PICK l \in {"active", "archived"} : docs' = [docs EXCEPT ![i].lifecycle = l]
      BY <3>1
    <3>2. i \in Ids /\ docs[i] \in Row
      BY <1>0, OneOfAName, RowFacts DEF WithExt, Rows, Present
    <3> DEFINE row == [docs[i] EXCEPT !.lifecycle = l]
    <3>3. row.status = docs[i].status /\ row.mtime = docs[i].mtime
      BY <3>2 DEF Row
    <3>4. docs' = [docs EXCEPT ![i] = row]
      OBVIOUS
    <3> HIDE DEF row
    <3> QED BY <1>0, <3>2, <3>3, <3>4 DEF Kept, Rows, Present
  <2> QED BY <1>4, <2>1, <2>2, <2>3, <2>4, <2>5, <2>6 DEF Acts, Put, Sweep
<1>5. CASE ComputeStatus
  <2>1. CASE PassMark \/ PassFlag
    BY <1>3, <2>1 DEF PassMark, PassFlag, Statuses
  <2>2. CASE PassReset
    <3> DEFINE mid == SetStatus(docs, pass.losers, "duplicate")
    <3>1. mid \in Rows /\ \A i \in Ids :
            mid[i].mtime = docs[i].mtime /\ (Present(mid, i) <=> Present(docs, i))
      BY <1>0, SetStatusFacts, SetStatusIs DEF Statuses, Present
    <3>2. docs' = SetStatus(mid, Unretired(docs) \ pass.losers, "canonical")
      BY <2>2 DEF PassReset, Reset
    <3> HIDE DEF mid
    <3>3. \A i \in Ids : docs'[i].mtime = mid[i].mtime /\ (Present(docs', i) <=> Present(mid, i))
      BY <3>1, <3>2, SetStatusFacts, SetStatusIs DEF Statuses, Present
    <3> QED BY <3>1, <3>3 DEF Kept
  <2> QED
    BY <1>1, <1>5, <2>1, <2>2 DEF ComputeStatus, PassCollisions, PassRaises, PassScan,
       PassDrivers, PassPair, PassSkip, PassEnd
<1>6. CASE Age \/ UNCHANGED vars
  BY <1>1, <1>6 DEF Age, vars
<1> QED
  BY <1>4, <1>5, <1>6, NextIs DEF ThreadStep, PassStep

LEMMA BoundsStep ==
  ASSUME OneStore, PutInv, Bounds, [Next]_vars
  PROVE  Bounds'
<1>0. KeyInv /\ Types /\ docs \in Rows /\ thread \in [Threads -> Frame]
  BY DEF PutInv, KeyInv, Types
<1>1. /\ now \in 0..MaxWrites /\ horizon \in 0..now /\ now \in Nat /\ MaxWrites \in Nat
      /\ pass \in PassFrame /\ overlapped \in BOOLEAN
      /\ \A i \in Ids : Present(docs, i) => docs[i].mtime \in 1..MaxWrites
      /\ \A t \in Threads : thread[t].pc = "checked" => now < MaxWrites
  BY ConstantsAssumption DEF Bounds
<1>2. \A i \in Ids : Present(docs', i) => docs'[i].mtime \in 1..MaxWrites
  <2>1. CASE Kept(docs')
    BY <1>1, <2>1 DEF Kept
  <2>2. ASSUME NEW t \in Threads, PutWrite(t)
        PROVE  \A i \in Ids : Present(docs', i) => docs'[i].mtime \in 1..MaxWrites
    <3>1. PICK o \in PutOutcomes(t) : docs' = o[1]
      BY <2>2 DEF PutWrite
    <3>2. now + 1 \in 1..MaxWrites /\ thread[t].pc = "checked"
      BY <1>1, <2>2 DEF PutWrite
    <3>3. CASE OverExisting(o[1], t)
      BY <1>1, <3>1, <3>2, <3>3 DEF OverExisting, Present
    <3>4. CASE \E n \in Ids : AtId(o[1], t, n)
      BY <1>1, <3>1, <3>2, <3>4 DEF AtId, Present
    <3> QED BY <3>2, <3>3, <3>4, OutcomeIs
  <2> QED BY <1>0, <2>1, <2>2, RowsKept
<1>3. /\ now' \in 0..MaxWrites /\ horizon' \in 0..now'
      /\ \A t \in Threads : thread'[t].pc = "checked" => now' < MaxWrites
  <2>1. ASSUME NEW t \in Threads, Acts(t)
        PROVE  /\ now' \in 0..MaxWrites /\ horizon' \in 0..now'
               /\ \A u \in Threads : thread'[u].pc = "checked" => now' < MaxWrites
    <3>1. CASE PutWrite(t)
      <4>0. now' = now + 1 /\ horizon' = horizon /\ thread[t].pc = "checked"
        BY <3>1 DEF PutWrite
      <4>1. now < MaxWrites /\ thread'[t].pc = "stored" /\ Putting(t)
        BY <1>0, <1>1, <3>1, <4>0 DEF PutWrite, Frame, Putting
      <4>2. \A u \in Threads \ {t} : thread'[u] = thread[u] /\ ~Putting(u)
        BY <1>0, <2>1, <4>1, ThreadStepIs, Excluded DEF PutInv
      <4> QED BY <1>1, <4>0, <4>1, <4>2 DEF Putting
    <3>2. CASE ~PutWrite(t)
      <4>1. now' = now /\ horizon' = horizon
        BY <1>0, <2>1, <3>2, ThreadStepIs
      <4>2. thread'[t].pc = "checked" => now < MaxWrites
        BY <1>0, <2>1, ThreadStepIs DEF PutCheck
      <4> QED BY <1>0, <1>1, <2>1, <4>1, <4>2, ThreadStepIs
    <3> QED BY <3>1, <3>2
  <2>2. CASE ComputeStatus
    BY <1>1, <2>2, PassStepIs
  <2>3. CASE Age \/ UNCHANGED vars
    BY <1>1, <2>3 DEF Age, vars
  <2> QED BY <2>1, <2>2, <2>3, NextIs DEF ThreadStep, PassStep
<1>4. overlapped' \in BOOLEAN
  <2>1. (\E t \in Threads : thread[t].pc # "idle") \in BOOLEAN /\ PassResting \in BOOLEAN
    BY DEF PassResting
  <2> QED
    BY <1>1, <2>1, NextIs DEF ThreadStep, PassStep, vars
<1>5. pass' \in PassFrame
  <2>1. CASE UNCHANGED pass
    BY <1>1, <2>1
  <2>2. CASE ComputeStatus
    <3>1. \A pc \in {"idle", "raised", "scan"} : NoPass(pc) \in PassFrame
      BY DEF NoPass, PassFrame
    <3>2. CASE PassReset \/ PassRaises \/ PassEnd
      BY <3>1, <3>2 DEF PassReset, PassRaises, PassEnd
    <3>3. CASE PassCollisions
      <4>1. Losers \in SUBSET Ids
        BY DEF Losers, Unretired
      <4> QED BY <3>3, <4>1 DEF PassCollisions, NoPass, PassFrame
    <3>4. CASE PassScan
      <4> DEFINE S == {i \in Unretired(docs) : docs[i].mtime <= horizon}
      <4>1. S \in SUBSET Ids /\ pass' = [NoPass("mark") EXCEPT !.marks = S]
        BY <3>4 DEF PassScan, Unretired
      <4> HIDE DEF S
      <4> QED BY <4>1 DEF NoPass, PassFrame
    <3>5. CASE PassDrivers
      <4> DEFINE D == {<<i, docs[i].mtime>> : i \in WithStatus(docs, "canonical")}
      <4>1. D \in SUBSET (Ids \X (1..MaxWrites))
        BY <1>1 DEF WithStatus, Present
      <4>2. pass' = [NoPass("detect") EXCEPT !.drivers = D]
        BY <3>5 DEF PassDrivers
      <4> HIDE DEF D
      <4> QED BY <4>1, <4>2 DEF NoPass, PassFrame
    <3>6. CASE PassMark
      BY <1>1, <3>6 DEF PassMark, PassFrame
    <3>7. CASE PassFlag
      BY <1>1, <3>7 DEF PassFlag, PassFrame
    <3>8. CASE PassSkip
      BY <1>1, <3>8 DEF PassSkip, PassFrame
    <3>9. CASE PassPair
      <4>1. PICK d \in pass.drivers, j \in WithStatus(docs, "canonical") :
              pass' = [pass EXCEPT !.pc = "flag", !.drivers = @ \ {d},
                          !.marked = @ \cup {Older(d[1], d[2], j)},
                          !.victim = {Older(d[1], d[2], j)}]
        BY <3>9 DEF PassPair
      <4> DEFINE older == Older(d[1], d[2], j)
      <4>2. older \in Ids
        BY <1>1 DEF Older, PassFrame, WithStatus
      <4>3. pass' = [pass EXCEPT !.pc = "flag", !.drivers = @ \ {d},
                          !.marked = @ \cup {older}, !.victim = {older}]
        BY <4>1
      <4> HIDE DEF older
      <4> QED BY <1>1, <4>2, <4>3 DEF PassFrame
    <3> QED
      BY <2>2, <3>2, <3>3, <3>4, <3>5, <3>6, <3>7, <3>8, <3>9 DEF ComputeStatus
  <2>3. UNCHANGED pass \/ ComputeStatus
    BY <1>0, NextIs, ThreadStepIs DEF ThreadStep, PassStep, Age, vars
  <2> QED BY <2>1, <2>2, <2>3
<1> QED BY <1>2, <1>3, <1>4, <1>5 DEF Bounds

\* Until an overlap the threads act while no pass is under way, and conversely.
LEMMA SerialCases ==
  ASSUME Bounds, [Next]_vars, ~overlapped'
  PROVE  /\ ~overlapped
         /\ \/ \E t \in Threads : Acts(t) /\ PassResting
            \/ ComputeStatus /\ \A t \in Threads : thread[t].pc = "idle"
            \/ Age
            \/ UNCHANGED vars
<1>1. CASE \E t \in Threads : ThreadStep(t)
  BY <1>1 DEF ThreadStep
<1>2. CASE PassStep
  BY <1>2 DEF PassStep
<1>3. CASE Age /\ UNCHANGED overlapped
  BY <1>3
<1>4. CASE UNCHANGED vars
  BY <1>4 DEF vars
<1> QED BY <1>1, <1>2, <1>3, <1>4, NextIs

LEMMA ReadsStep ==
  ASSUME OneStore, PutInv, ReadsHold, NEW t \in Threads, Acts(t)
  PROVE  ReadsHold'
<1> SUFFICES ASSUME NEW u \in Threads
             PROVE  /\ thread'[u].pc = "checked" =>
                         thread'[u].prior = Prior(thread[u].ext, thread[u].topic)'
                    /\ thread'[u].pc = "flagging" =>
                         thread'[u].target \subseteq WithStatus(docs', "canonical")
  BY DEF ReadsHold
<1>0. Types /\ thread \in [Threads -> Frame]
  BY DEF PutInv, KeyInv, Types
<1>1. CASE u # t
  <2>1. thread'[u] = thread[u] /\ ~Putting(u)
    BY <1>0, <1>1, ThreadStepIs, OnlyThePutter DEF Acts
  <2> QED BY <2>1 DEF Putting
<1>2. CASE u = t
  <2>1. CASE PutCheck(t)
    <3>1. PICK e \in Exts, k \in Topics : thread'[t] =
              [Idle("none") EXCEPT !.pc = "checked", !.ext = e, !.topic = k,
                 !.target = WithExt(docs, e), !.prior = Prior(e, k)]
      BY <1>0, <2>1 DEF PutCheck
    <3>2. /\ thread'[t].pc = "checked" /\ thread'[t].ext = e /\ thread'[t].topic = k
          /\ thread'[t].prior = Prior(e, k)
      BY <3>1 DEF Idle
    <3>3. docs' = docs
      BY <2>1, Zenon DEF PutCheck
    <3>4. Prior(thread[t].ext, thread[t].topic)' = Prior(e, k)
      BY <3>2, <3>3 DEF Prior, WithExt, WithStatus
    <3> QED BY <1>2, <3>2, <3>4
  <2>2. CASE PutFlagRead(t)
    <3>1. PICK i \in WithStatus(docs, "canonical"), j \in WithStatus(docs, "canonical") :
            thread' = [thread EXCEPT ![t].pc = "flagging",
                                     ![t].target = {Older(i, docs[i].mtime, j)}]
      BY <2>2 DEF PutFlagRead
    <3>2. thread'[t].pc = "flagging" /\ thread'[t].target = {Older(i, docs[i].mtime, j)}
      BY <1>0, <3>1 DEF Frame
    <3>3. docs' = docs
      BY <2>2, Zenon DEF PutFlagRead
    <3>4. Older(i, docs[i].mtime, j) \in WithStatus(docs, "canonical")
      BY DEF Older
    <3> QED BY <1>2, <3>2, <3>3, <3>4
  <2> QED BY <1>0, <1>2, <2>1, <2>2, ThreadStepIs
<1> QED BY <1>1, <1>2

LEMMA UnretiredKept ==
  ASSUME Types, NEW S, NEW s \in Statuses \ {"superseded"}
  PROVE  Unretired(docs) \subseteq Unretired(SetStatus(docs, S, s))
<1>1. docs \in Rows /\ s \in Statuses /\ s # "absent"
  BY DEF Types, Statuses
<1>2. \A i \in Ids : Present(SetStatus(docs, S, s), i) <=> Present(docs, i)
  BY <1>1, SetStatusFacts DEF Present
<1>3. \A i \in Ids : \/ SetStatus(docs, S, s)[i].status = s
                     \/ SetStatus(docs, S, s)[i] = docs[i]
  BY <1>1, SetStatusIs
<1> QED BY <1>2, <1>3 DEF Unretired

LEMMA PassHoldsStep ==
  ASSUME Types, Bounds, PassHolds, ComputeStatus
  PROVE  PassHolds'
<1>1. /\ pass.marks \subseteq Unretired(docs) /\ pass.victim \subseteq Unretired(docs)
      /\ \A d \in pass.drivers : d[1] \in Unretired(docs)
      /\ pass \in PassFrame
  BY DEF PassHolds, Bounds
<1>2. CASE PassReset \/ PassRaises \/ PassEnd
  <2>1. PICK pc \in {"scan", "raised", "idle"} : pass' = NoPass(pc)
    BY <1>2 DEF PassReset, PassRaises, PassEnd
  <2> QED BY <2>1, NoPassIs DEF PassHolds, PassResting
<1>3. CASE PassCollisions
  <2>1. docs' = docs /\ pass' = [NoPass("reset") EXCEPT !.losers = Losers]
    BY <1>3, Zenon DEF PassCollisions
  <2>2. Losers' = Losers
    BY <2>1 DEF Losers, Unretired, Present, Outranks
  <2>3. /\ pass'.pc = "reset" /\ pass'.losers = Losers /\ pass'.marks = {}
        /\ pass'.drivers = {} /\ pass'.victim = {}
    BY <2>1 DEF NoPass
  <2> QED BY <2>2, <2>3 DEF PassHolds, PassResting
<1>4. CASE PassScan
  <2> DEFINE S == {i \in Unretired(docs) : docs[i].mtime <= horizon}
  <2>1. docs' = docs /\ pass' = [NoPass("mark") EXCEPT !.marks = S]
    BY <1>4, Zenon DEF PassScan
  <2>2. S \subseteq Unretired(docs)
    OBVIOUS
  <2> HIDE DEF S
  <2>3. pass'.pc = "mark" /\ pass'.marks = S /\ pass'.drivers = {} /\ pass'.victim = {}
    BY <2>1 DEF NoPass
  <2> QED BY <2>1, <2>2, <2>3 DEF PassHolds, PassResting
<1>5. CASE PassDrivers
  <2> DEFINE D == {<<i, docs[i].mtime>> : i \in WithStatus(docs, "canonical")}
  <2>1. docs' = docs /\ pass' = [NoPass("detect") EXCEPT !.drivers = D]
    BY <1>5, Zenon DEF PassDrivers
  <2>2. \A d \in D : d[1] \in Unretired(docs)
    BY DEF Unretired, WithStatus, Present
  <2> HIDE DEF D
  <2>3. pass'.pc = "detect" /\ pass'.drivers = D /\ pass'.marks = {} /\ pass'.victim = {}
    BY <2>1 DEF NoPass
  <2> QED BY <2>1, <2>2, <2>3 DEF PassHolds, PassResting
<1>6. CASE PassMark
  <2>1. PICK i \in pass.marks : docs' = SetStatus(docs, {i}, "stale")
                                /\ pass' = [pass EXCEPT !.marks = @ \ {i}]
    BY <1>6 DEF PassMark
  <2>2. Unretired(docs) \subseteq Unretired(docs')
    BY <2>1, UnretiredKept DEF Statuses
  <2>3. /\ pass'.pc = "mark" /\ pass'.marks \subseteq pass.marks
        /\ pass'.drivers = pass.drivers /\ pass'.victim = pass.victim
    BY <1>1, <1>6, <2>1 DEF PassFrame, PassMark
  <2> QED BY <1>1, <2>2, <2>3 DEF PassHolds, PassResting
<1>7. CASE PassFlag
  <2>1. docs' = SetStatus(docs, pass.victim, "duplicate")
        /\ pass' = [pass EXCEPT !.pc = "detect", !.victim = {}]
    BY <1>7, Zenon DEF PassFlag
  <2>2. Unretired(docs) \subseteq Unretired(docs')
    BY <2>1, UnretiredKept DEF Statuses
  <2>3. /\ pass'.pc = "detect" /\ pass'.marks = pass.marks
        /\ pass'.drivers = pass.drivers /\ pass'.victim = {}
    BY <1>1, <2>1 DEF PassFrame
  <2> QED BY <1>1, <2>2, <2>3 DEF PassHolds, PassResting
<1>8. CASE PassSkip
  <2>1. PICK d \in pass.drivers : pass' = [pass EXCEPT !.drivers = @ \ {d}]
                                  /\ pass.pc = "detect"
    BY <1>8 DEF PassSkip, NextDriver
  <2>2. docs' = docs
    BY <1>8, Zenon DEF PassSkip
  <2>3. /\ pass'.pc = "detect" /\ pass'.marks = pass.marks
        /\ pass'.drivers \subseteq pass.drivers /\ pass'.victim = pass.victim
    BY <1>1, <2>1 DEF PassFrame
  <2> QED BY <1>1, <2>2, <2>3 DEF PassHolds, PassResting
<1>9. CASE PassPair
  <2>1. PICK d \in pass.drivers, j \in WithStatus(docs, "canonical") :
          pass' = [pass EXCEPT !.pc = "flag", !.drivers = @ \ {d},
                      !.marked = @ \cup {Older(d[1], d[2], j)},
                      !.victim = {Older(d[1], d[2], j)}]
    BY <1>9 DEF PassPair
  <2> DEFINE older == Older(d[1], d[2], j)
  <2>2. older \in Unretired(docs)
    BY <1>1 DEF Older, Unretired, WithStatus, Present
  <2>3. pass' = [pass EXCEPT !.pc = "flag", !.drivers = @ \ {d},
                             !.marked = @ \cup {older}, !.victim = {older}]
    BY <2>1
  <2> HIDE DEF older
  <2>4. /\ pass'.pc = "flag" /\ pass'.marks = pass.marks
        /\ pass'.drivers \subseteq pass.drivers /\ pass'.victim = {older}
    BY <1>1, <2>3 DEF PassFrame
  <2>5. docs' = docs
    BY <1>9, Zenon DEF PassPair
  <2> QED BY <1>1, <2>2, <2>4, <2>5 DEF PassHolds, PassResting
<1> QED
  BY <1>2, <1>3, <1>4, <1>5, <1>6, <1>7, <1>8, <1>9 DEF ComputeStatus

\* What the two updates of a reset leave of a doc.
LEMMA ResetIs ==
  ASSUME Types, NEW losers
  PROVE  \A i \in Ids : LET row == Reset(docs, losers)[i] IN
           /\ row.topic = docs[i].topic
           /\ row.status = "canonical" => i \in Unretired(docs) \ losers
           /\ i \notin Unretired(docs) \cup losers => row.status = docs[i].status
<1> DEFINE mid == SetStatus(docs, losers, "duplicate")
           S == Unretired(docs) \ losers
           rows == SetStatus(mid, S, "canonical")
<1>1. docs \in Rows
  BY DEF Types
<1>2. mid \in Rows /\ \A i \in Ids :
        /\ mid[i].topic = docs[i].topic
        /\ Present(mid, i) <=> Present(docs, i)
        /\ i \in losers /\ Present(docs, i) => mid[i].status = "duplicate"
        /\ i \notin losers \/ ~Present(docs, i) => mid[i].status = docs[i].status
  BY <1>1, SetStatusFacts, SetStatusIs DEF Statuses, Present
<1> HIDE DEF mid, S
<1>3. \A i \in Ids : /\ rows[i].topic = mid[i].topic
                     /\ i \notin S \/ ~Present(mid, i) => rows[i].status = mid[i].status
  BY <1>2, SetStatusFacts, SetStatusIs DEF Statuses
<1>4. Reset(docs, losers) = rows
  BY DEF Reset, mid, S
<1> HIDE DEF rows
<1>5. \A i \in Ids : docs[i].status = "canonical" => i \in Unretired(docs)
  BY DEF Unretired, Present
<1> QED BY <1>2, <1>3, <1>4, <1>5 DEF S, Present

\* One doc of a topic is outranked by none.
LEMMA ResetUnique ==
  ASSUME Types
  PROVE  UniqueTopics(Reset(docs, Losers))
<1> SUFFICES ASSUME NEW i \in Unretired(docs) \ Losers, NEW j \in Unretired(docs) \ Losers,
                    docs[i].topic = docs[j].topic
             PROVE  i = j
  BY ResetIs DEF UniqueTopics, WithStatus
<1>1. /\ i \in Ids /\ j \in Ids /\ i \in Nat /\ j \in Nat
      /\ docs[i].mtime \in Nat /\ docs[j].mtime \in Nat
  BY RowFacts, ConstantsAssumption DEF Types, Rows, Row, Unretired, Present, Ids
<1>2. i # j => Outranks(i, j) \/ Outranks(j, i)
  BY <1>1 DEF Outranks
<1> QED BY <1>2 DEF Losers

\* Serially a retired doc is left so, or deleted.
LEMMA RetiredKept ==
  ASSUME PutInv, Bounds, ReadsHold, PassHolds,
         (\E t \in Threads : Acts(t)) \/ ComputeStatus
  PROVE  KeptRetired(docs')
<1>0. Types /\ docs \in Rows /\ thread \in [Threads -> Frame]
  BY DEF PutInv, KeyInv, Types
<1>1. ASSUME docs' = docs PROVE KeptRetired(docs')
  BY <1>1 DEF KeptRetired
<1>2. ASSUME NEW i \in Ids, docs' = [docs EXCEPT ![i] = NoDoc]
      PROVE  KeptRetired(docs')
  BY <1>0, <1>2, RowFacts DEF KeptRetired, Rows
<1>3. ASSUME NEW S, NEW s \in Statuses, docs' = SetStatus(docs, S, s),
             S \cap WithStatus(docs, "superseded") = {}
      PROVE  KeptRetired(docs')
  BY <1>0, <1>3, SetStatusKept
<1>4. ASSUME NEW t \in Threads, Acts(t)
      PROVE  KeptRetired(docs')
  <2>1. CASE PutRefused(t) \/ PutCheck(t) \/ PutFails(t) \/ PutFlagRead(t) \/ PutReturn(t)
             \/ SweepRead(t)
    BY <1>1, <2>1, SameDocs
  <2>2. CASE PutFlagWrite(t)
    <3>1. docs' = SetStatus(docs, thread[t].target, "duplicate")
          /\ thread[t].target \subseteq WithStatus(docs, "canonical")
      BY <2>2 DEF PutFlagWrite, ReadsHold
    <3> QED BY <1>3, <3>1 DEF WithStatus, Statuses
  <2>3. CASE SweepAge(t)
    <3> DEFINE S == {i \in WithStatus(docs, "canonical") : docs[i].mtime <= horizon}
    <3>1. docs' = SetStatus(docs, S, "stale")
      BY <2>3, Zenon DEF SweepAge
    <3>2. S \cap WithStatus(docs, "superseded") = {}
      BY DEF WithStatus
    <3> HIDE DEF S
    <3> QED BY <1>3, <3>1, <3>2 DEF Statuses
  <2>4. CASE Delete(t)
    BY <1>2, <2>4 DEF Delete, WithExt
  <2>5. CASE SweepDelete(t)
    <3>1. thread[t].doomed \subseteq Ids
      BY <1>0 DEF Frame
    <3> QED BY <1>2, <2>5, <3>1 DEF SweepDelete
  <2>6. CASE SetLifecycle(t)
    <3>0. PICK e \in Exts : \E i \in WithExt(docs, e) : \E l \in {"active", "archived"} :
            docs' = [docs EXCEPT ![i].lifecycle = l]
      BY <2>6 DEF SetLifecycle
    <3>1. PICK i \in WithExt(docs, e) : \E l \in {"active", "archived"} :
            docs' = [docs EXCEPT ![i].lifecycle = l]
      BY <3>0
    <3> PICK l \in {"active", "archived"} : docs' = [docs EXCEPT ![i].lifecycle = l]
      BY <3>1
    <3>2. i \in Ids /\ docs[i] \in Row
      BY <1>0, OneOfAName, RowFacts DEF WithExt, Rows, Present, PutInv
    <3> DEFINE row == [docs[i] EXCEPT !.lifecycle = l]
    <3>3. row.status = docs[i].status
      BY <3>2 DEF Row
    <3>4. docs' = [docs EXCEPT ![i] = row]
      OBVIOUS
    <3> HIDE DEF row
    <3> QED BY <1>0, <3>2, <3>3, <3>4 DEF KeptRetired, Rows
  <2>7. CASE PutWrite(t)
    <3>1. PICK o \in PutOutcomes(t) : docs' = o[1]
      BY <2>7 DEF PutWrite
    <3>2. thread[t].pc = "checked"
      BY <2>7 DEF PutWrite
    <3>3. CASE OverExisting(o[1], t)
      BY <3>1, <3>3 DEF OverExisting, KeptRetired, Present
    <3>4. CASE \E n \in Ids : AtId(o[1], t, n)
      BY <3>1, <3>4 DEF AtId, KeptRetired, Present
    <3> QED BY <3>2, <3>3, <3>4, OutcomeIs
  <2> QED BY <1>4, <2>1, <2>2, <2>3, <2>4, <2>5, <2>6, <2>7 DEF Acts, Put, Sweep
<1>5. CASE ComputeStatus
  <2>0. Unretired(docs) \cap WithStatus(docs, "superseded") = {}
    BY DEF Unretired, WithStatus
  <2>1. CASE PassMark
    <3>1. PICK i \in pass.marks : docs' = SetStatus(docs, {i}, "stale")
      BY <2>1 DEF PassMark
    <3>2. {i} \cap WithStatus(docs, "superseded") = {}
      BY <2>0 DEF PassHolds
    <3> QED BY <1>3, <3>1, <3>2 DEF Statuses
  <2>2. CASE PassFlag
    <3>1. docs' = SetStatus(docs, pass.victim, "duplicate")
      BY <2>2, Zenon DEF PassFlag
    <3>2. pass.victim \cap WithStatus(docs, "superseded") = {}
      BY <2>0 DEF PassHolds
    <3> QED BY <1>3, <3>1, <3>2 DEF Statuses
  <2>3. CASE PassReset
    <3>1. docs' = Reset(docs, pass.losers) /\ pass.losers = Losers
      BY <2>3 DEF PassReset, PassHolds
    <3>2. Losers \subseteq Unretired(docs)
      BY DEF Losers
    <3>3. \A i \in Ids : docs[i].status = "superseded" => i \notin Unretired(docs) \cup pass.losers
      BY <3>1, <3>2 DEF Unretired
    <3> QED BY <1>0, <3>1, <3>3, ResetIs DEF KeptRetired
  <2>4. CASE PassCollisions \/ PassRaises \/ PassScan \/ PassDrivers \/ PassPair \/ PassSkip
             \/ PassEnd
    <3>1. docs' = docs
      BY <2>4, Zenon DEF PassCollisions, PassRaises, PassScan, PassDrivers, PassPair,
           PassSkip, PassEnd
    <3> QED BY <1>1, <3>1
  <2> QED BY <1>5, <2>1, <2>2, <2>3, <2>4 DEF ComputeStatus
<1> QED BY <1>4, <1>5

\* Serially a put that takes a canonical down puts another in its place.
LEMMA SwapStep ==
  ASSUME PutInv, ReadsHold, NEW t \in Threads, PutWrite(t), NEW i \in thread[t].prior
  PROVE  \E j \in WithStatus(docs', "canonical") : docs'[j].topic = docs[i].topic
<1> DEFINE e == thread[t].ext
           k == thread[t].topic
<1>1. thread[t].pc = "checked" /\ thread[t].target = WithExt(docs, e)
      /\ i \in Prior(e, k) /\ KeyInv
  BY DEF PutWrite, PutInv, Holds, ReadsHold
<1>2. /\ docs[i].topic = k /\ \A m \in WithExt(docs, e) : docs[m].status = "canonical"
      /\ Prior(e, k) \cap WithExt(docs, e) = {}
  BY <1>1 DEF Prior
<1>3. PICK o \in PutOutcomes(t) : docs' = o[1]
  BY DEF PutWrite
<1>4. CASE OverExisting(o[1], t)
  <2>1. PICK w \in WithExt(docs, e) : w \in thread[t].target
    BY <1>1, <1>4 DEF OverExisting
  <2>2. w \in Ids /\ w \notin thread[t].prior /\ docs[w].status = "canonical"
    BY <1>1, <1>2, <2>1 DEF WithExt, ReadsHold
  <2>3. docs'[w].status = "canonical" /\ docs'[w].topic = k
    BY <1>3, <1>4, <2>1, <2>2 DEF OverExisting
  <2> QED BY <1>2, <2>2, <2>3 DEF WithStatus
<1>5. CASE \E n \in Ids : AtId(o[1], t, n)
  <2>1. PICK n \in Ids : AtId(o[1], t, n)
    BY <1>5
  <2>2. docs'[n].status = "canonical" /\ docs'[n].topic = k
    BY <1>3, <2>1 DEF AtId
  <2> QED BY <1>2, <2>2 DEF WithStatus
<1> QED BY <1>1, <1>4, <1>5, OutcomeIs

\* No thread meets the unique index, and no reset does.
LEMMA RaisesStep ==
  ASSUME PutInv, Bounds, ReadsHold, PassHolds, NoRawIntegrityError, PassNeverRaises,
         (\E t \in Threads : Acts(t)) \/ ComputeStatus
  PROVE  NoRawIntegrityError' /\ PassNeverRaises'
<1>0. Types
  BY DEF PutInv, KeyInv
<1>1. ASSUME NEW t \in Threads, Acts(t)
      PROVE  NoRawIntegrityError' /\ PassNeverRaises'
  <2>1. ~PutFails(t)
    <3> SUFFICES ASSUME thread[t].pc = "checked" PROVE \A o \in PutOutcomes(t) : Admissible(o[1])
      BY DEF PutFails
    <3>1. thread[t].prior = Prior(thread[t].ext, thread[t].topic)
      BY DEF ReadsHold
    <3> QED BY <3>1, OutcomeAdmissible
  <2> QED BY <1>0, <1>1, <2>1, ThreadStepIs DEF NoRawIntegrityError, PassNeverRaises
<1>2. CASE ComputeStatus
  <2>1. NoRawIntegrityError'
    BY <1>2, PassStepIs DEF NoRawIntegrityError
  <2>2. ~PassRaises
    BY <1>0, ResetUnique DEF PassRaises, PassHolds
  <2>3. CASE PassReset \/ PassEnd
    <3>1. PICK pc \in {"scan", "idle"} : pass' = NoPass(pc)
      BY <2>3 DEF PassReset, PassEnd
    <3> QED BY <2>1, <3>1, NoPassIs DEF PassNeverRaises
  <2>4. CASE PassCollisions \/ PassScan \/ PassDrivers
    <3>1. pass'.pc \in {"reset", "mark", "detect"}
      BY <2>4 DEF PassCollisions, PassScan, PassDrivers, NoPass
    <3> QED BY <2>1, <3>1 DEF PassNeverRaises
  <2>5. CASE PassMark \/ PassPair \/ PassFlag \/ PassSkip
    <3>1. pass \in PassFrame
      BY DEF Bounds
    <3>2. pass'.pc \in {pass.pc, "flag", "detect"}
      BY <2>5, <3>1 DEF PassMark, PassPair, PassFlag, PassSkip, PassFrame
    <3> QED BY <2>1, <3>2 DEF PassNeverRaises
  <2> QED BY <1>2, <2>1, <2>2, <2>3, <2>4, <2>5 DEF ComputeStatus
<1> QED BY <1>1, <1>2

LEMMA SerialStep ==
  ASSUME OneStore, TopicsInv, [Next]_vars
  PROVE  SerialInv'
<1> SUFFICES ASSUME ~overlapped'
             PROVE  ReadsHold' /\ PassHolds' /\ Apart' /\ NoRawIntegrityError' /\ PassNeverRaises'
  BY DEF SerialInv
<1>0. PutInv /\ Types /\ Bounds
  BY DEF TopicsInv, PutInv, KeyInv
<1>1. ReadsHold /\ PassHolds /\ Apart /\ NoRawIntegrityError /\ PassNeverRaises
  BY <1>0, SerialCases DEF TopicsInv, SerialInv
<1>2. ASSUME NEW t \in Threads, Acts(t), PassResting
      PROVE  ReadsHold' /\ PassHolds' /\ Apart'
  <2>1. pass' = pass
    BY <1>0, <1>2, ThreadStepIs
  <2>2. PassResting' /\ Apart'
    BY <1>2, <2>1 DEF PassResting, Apart
  <2>3. pass' = NoPass(pass'.pc)
    BY <1>1, <1>2, <2>1 DEF PassHolds
  <2>4. /\ pass'.pc # "reset" /\ pass'.marks = {} /\ pass'.drivers = {} /\ pass'.victim = {}
    BY <2>2, <2>3, NoPassIs DEF PassResting
  <2> QED BY <1>0, <1>1, <1>2, <2>2, <2>3, <2>4, ReadsStep DEF PassHolds
<1>3. ASSUME ComputeStatus, \A t \in Threads : thread[t].pc = "idle"
      PROVE  ReadsHold' /\ PassHolds' /\ Apart'
  <2>1. thread' = thread
    BY <1>3, PassStepIs
  <2>2. ReadsHold' /\ Apart'
    BY <1>3, <2>1 DEF ReadsHold, Apart
  <2> QED BY <1>0, <1>1, <1>3, <2>2, PassHoldsStep
<1>4. CASE Age \/ UNCHANGED vars
  <2>1. docs' = docs /\ thread' = thread /\ pass' = pass
    BY <1>4 DEF Age, vars
  <2>2. ReadsHold'
    BY <1>1, <2>1 DEF ReadsHold, Prior, WithExt, WithStatus
  <2>3. PassHolds'
    <3>1. Losers' = Losers
      BY <2>1 DEF Losers, Unretired, Present, Outranks
    <3> QED BY <1>1, <2>1, <3>1 DEF PassHolds, PassResting
  <2> QED BY <1>1, <2>1, <2>2, <2>3 DEF Apart, PassResting, NoRawIntegrityError, PassNeverRaises
<1> QED BY <1>0, <1>1, <1>2, <1>3, <1>4, SerialCases, RaisesStep

LEMMA TopicsInit == Init => TopicsInv
<1> SUFFICES ASSUME Init PROVE TopicsInv
  OBVIOUS
<1>1. /\ \A i \in Ids : ~Present(docs, i)
      /\ \A t \in Threads : thread[t].pc = "idle" /\ thread[t].reply = "none"
      /\ pass = NoPass("idle") /\ now = 0 /\ horizon = 0 /\ overlapped = FALSE
  BY RowFacts DEF Init, Present, Idle
<1>2. pass \in PassFrame /\ PassResting /\ pass = NoPass(pass.pc)
  BY <1>1 DEF PassFrame, NoPass, PassResting
<1>3. Bounds
  <2>1. now \in 0..MaxWrites /\ horizon \in 0..now
    BY <1>1, ConstantsAssumption
  <2>2. overlapped \in BOOLEAN
    BY <1>1
  <2>3. \A t \in Threads : thread[t].pc # "checked"
    BY <1>1
  <2> QED BY <1>1, <1>2, <2>1, <2>2, <2>3 DEF Bounds
<1>4. SerialInv
  BY <1>1, <1>2, NoPassIs
     DEF SerialInv, ReadsHold, PassHolds, Apart, NoRawIntegrityError, PassNeverRaises
<1> QED BY <1>3, <1>4, PutInit DEF TopicsInv

LEMMA TopicsTyped == TopicsInv => TypeOK
<1> SUFFICES ASSUME TopicsInv PROVE TypeOK
  OBVIOUS
<1>1. Types /\ Bounds
  BY DEF TopicsInv, PutInv, KeyInv
<1>2. \A i \in Ids : docs[i] \in Doc \cup {NoDoc}
  <2> TAKE i \in Ids
  <2>1. CASE docs[i] = NoDoc
    BY <2>1
  <2>2. CASE docs[i] \in Row
    <3>1. docs[i].mtime \in 1..MaxWrites
      BY <1>1, <2>2, RowFacts DEF Bounds, Present, Row, Statuses
    <3> QED BY <2>2, <3>1 DEF Row, Doc, Statuses, Lifecycles
  <2> QED BY <1>1, <2>1, <2>2 DEF Types, Rows
<1>3. docs \in [Ids -> Doc \cup {NoDoc}]
  BY <1>1, <1>2 DEF Types, Rows
<1> QED BY <1>1, <1>3 DEF Types, Bounds, PassFrame, Frame, Stages, TypeOK

\* Whatever the threads of one process interleave: answered puts are stored, and
\* until a status pass overlaps an operation of theirs nothing meets the unique
\* index, swaps are whole and retired docs stay retired (store.py: put, sweep,
\* status.py: compute_status).
THEOREM TopicsHold == ASSUME OneStore PROVE Spec => TopicsHoldSerially
<1>1. TopicsInv /\ [Next]_vars => TopicsInv'
  BY KeyStep, LockedStep, HoldsStep, BoundsStep, SerialStep DEF TopicsInv, PutInv
<1>2. TopicsInv => TypeOK /\ NoIntegrityErrorSerially
  BY TopicsTyped DEF TopicsInv, SerialInv, NoIntegrityErrorSerially
<1>3. ASSUME TopicsInv, [Next]_vars, ~overlapped'
      PROVE  ReadsHold /\ PassHolds /\ PutInv /\ Types /\ Bounds
  BY <1>3, SerialCases DEF TopicsInv, SerialInv, PutInv, KeyInv
<1>4. ASSUME TopicsInv, [Next]_vars, ~overlapped', NEW t \in Threads
      PROVE  SwapWhole(t)
  <2> SUFFICES ASSUME thread[t].pc = "checked", thread'[t].pc = "stored",
                      NEW i \in thread[t].prior
               PROVE  \E j \in WithStatus(docs', "canonical") : docs'[j].topic = docs[i].topic
    BY DEF SwapWhole
  <2>1. ASSUME NEW u \in Threads, Acts(u) PROVE PutWrite(t)
    BY <1>3, <1>4, <2>1, ThreadStepIs
  <2>2. ~ComputeStatus /\ ~Age /\ ~UNCHANGED vars
    BY PassStepIs DEF Age, vars
  <2>3. PutWrite(t)
    BY <1>3, <1>4, <2>1, <2>2, SerialCases
  <2> QED BY <1>3, <1>4, <2>3, SwapStep
<1>5. ASSUME TopicsInv, [Next]_vars, ~overlapped', NEW i \in Ids
      PROVE  StaysSuperseded(i)
  <2>1. CASE Age \/ UNCHANGED vars
    BY <2>1 DEF Age, vars, StaysSuperseded
  <2>2. CASE (\E t \in Threads : Acts(t)) \/ ComputeStatus
    BY <1>3, <1>5, <2>2, RetiredKept DEF KeptRetired, StaysSuperseded
  <2> QED BY <1>3, <1>5, <2>1, <2>2, SerialCases
<1>6. TopicsInv /\ [Next]_vars => [~overlapped' => \A t \in Threads : SwapWhole(t)]_vars
  BY <1>4
<1>7. TopicsInv /\ [Next]_vars => [~overlapped' => \A i \in Ids : StaysSuperseded(i)]_vars
  BY <1>5
<1> QED
  BY <1>1, <1>2, <1>6, <1>7, TopicsInit, AnsweredIsStored, PTL
     DEF Spec, TopicsHoldSerially, SwapLeavesACanonicalSerially, SupersededStaysSerially
=============================================================================
