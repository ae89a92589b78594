-------------------------- MODULE IndexJobsProofs --------------------------
(***************************************************************************)
(* Proofs about IndexJobs, for any number of callers, keys, paths, rows    *)
(* and crashes, and whatever way the jobs of each key raise.               *)
(***************************************************************************)
EXTENDS IndexJobs, TLAPS

(***************************************************************************)
(* The inductive invariant.  What a property says of the rows has to be    *)
(* said of both tables: a commit makes the view durable, a rollback or a   *)
(* crash makes the durable table the view.                                 *)
(***************************************************************************)

\* Whoever is inside enqueue() holds index_jobs_lock.
LockInv ==
  /\ \A c \in Callers : caller[c].pc # "idle" =>
       /\ lock = c
       /\ caller[c].key \in JobKeys
       /\ caller[c].items \in Requests(caller[c].key)
       /\ caller[c].reply = "none"
  /\ applier.pc = "down" => \A c \in Callers : caller[c].pc = "idle"

\* Only a caller that has written and not committed tells the tables apart.
ViewInv == (\A c \in Callers : caller[c].pc # "written") => view = committed

OneLive(rows) ==
  \A i, j \in Ids :
    rows[i].state \in Live /\ rows[j].state \in Live /\ rows[i].key = rows[j].key
      => i = j

Runs(rows) ==
  \A j \in Ids :
    Executing(j) => rows[j].state = "processing" /\ rows[j].payload = applier.payload

Flagged(rows) == \A j \in Ids : rows[j].rerun => rows[j].state \in Live

\* A live row has a key, and a request that carries no paths asks for one thing.
WholeRows(rows) ==
  \A j \in Ids :
    /\ rows[j].state \in Live => rows[j].key \in JobKeys
    /\ rows[j].key \in JobKeys \ PathKeys =>
         /\ rows[j].payload = {Whole}
         /\ rows[j].rerunPayload \subseteq {Whole}
         /\ rows[j].rerun => rows[j].rerunPayload = {Whole}

\* The view differs from the disk by what one request adds.
Extends(old, new) ==
  \A j \in Ids :
    /\ old[j].state # "absent" =>
         /\ new[j].key = old[j].key
         /\ new[j].state = old[j].state
         /\ old[j].payload \subseteq new[j].payload
    /\ old[j].rerun =>
         /\ new[j].key = old[j].key
         /\ new[j].rerun
         /\ old[j].rerunPayload \subseteq new[j].rerunPayload

RowsInv(rows) == OneLive(rows) /\ Runs(rows) /\ Flagged(rows) /\ WholeRows(rows)

IndInv ==
  /\ TypeOK
  /\ LockInv
  /\ ViewInv
  /\ applier.pc \in {"running", "ending"} => applier.job \in Ids
  /\ RowsInv(committed)
  /\ RowsInv(view)
  /\ Extends(committed, view)
-----------------------------------------------------------------------------
\* What a request asks for are items.
LEMMA RequestsAreItems ==
  ASSUME NEW k \in JobKeys, NEW S \in Requests(k)
  PROVE  S \in SUBSET Items
BY DEF Requests, Items

\* One row replaced by another.
LEMMA RowReplaced ==
  ASSUME NEW rows \in [Ids -> Row], NEW j \in Ids, NEW r \in Row
  PROVE  [rows EXCEPT ![j] = r] \in [Ids -> Row]
OBVIOUS

\* A row and a caller's items are typed.
LEMMA Reads ==
  ASSUME TypeOK
  PROVE  /\ \A j \in Ids : view[j] \in Row /\ committed[j] \in Row
         /\ \A c \in Callers : /\ caller[c].items \in SUBSET Items
                              /\ caller[c].key \in JobKeys \cup {NoKey}
         /\ applier.payload \in SUBSET Items
BY DEF TypeOK

\* A job that raises leaves a request where it is, or rolls back what it wrote.
LEMMA RaiseSpares ==
  ASSUME TypeOK, Raise
  PROVE  /\ \A c \in Callers :
              \/ caller'[c] = caller[c]
              \/ caller[c].pc = "written" /\ caller'[c] = [caller[c] EXCEPT !.pc = "undone"]
         /\ TypeOK'
<1>1. \/ UNCHANGED caller
      \/ caller' = [c \in Callers |-> IF caller[c].pc = "written" /\ view # committed
                                    THEN [caller[c] EXCEPT !.pc = "undone"]
                                    ELSE caller[c]]
  BY DEF Raise
<1>2. \A c \in Callers :
        \/ caller'[c] = caller[c]
        \/ caller[c].pc = "written" /\ caller'[c] = [caller[c] EXCEPT !.pc = "undone"]
  BY <1>1
<1>3. caller' \in [Callers -> [pc : {"idle", "begun", "written", "undone"},
                             key : JobKeys \cup {NoKey}, items : SUBSET Items,
                             reply : {"none", "accepted", "rejected"}]]
  BY <1>1 DEF TypeOK
<1>4. view' \in [Ids -> Row] /\ inTxn' \in BOOLEAN /\ UNCHANGED <<committed, lock, crashes>>
  BY DEF Raise, TypeOK
<1>5. applier' = [applier EXCEPT !.pc = "ending", !.dirty = FALSE, !.failed = TRUE]
  BY DEF Raise
<1> QED BY <1>2, <1>3, <1>4, <1>5 DEF TypeOK

(***************************************************************************)
(* What each operation that writes index_jobs makes of the view: it        *)
(* replaces one row j by r.                                                *)
(***************************************************************************)
LEMMA MergeEffect ==
  ASSUME TypeOK, NEW c \in Callers, MergeIntoQueued(c)
  PROVE  \E j \in Ids, r \in Row :
           /\ Written(c, [view EXCEPT ![j] = r])
           /\ view[j].key = caller[c].key /\ view[j].state = "queued"
           /\ r = [view[j] EXCEPT !.payload = view[j].payload \cup caller[c].items]
<1>1. PICK j \in Ids :
        /\ Written(c, [view EXCEPT ![j].payload = @ \cup caller[c].items])
        /\ view[j].key = caller[c].key /\ view[j].state = "queued"
  BY DEF MergeIntoQueued, RowsOf
<1> DEFINE r == [view[j] EXCEPT !.payload = view[j].payload \cup caller[c].items]
<1>2. r \in Row
  <2>1. view[j] \in Row /\ caller[c].items \in SUBSET Items BY Reads
  <2> QED BY <2>1 DEF Row
<1>3. [view EXCEPT ![j].payload = @ \cup caller[c].items] = [view EXCEPT ![j] = r]
  OBVIOUS
<1> QED BY <1>1, <1>2, <1>3

LEMMA FlagEffect ==
  ASSUME TypeOK, NEW c \in Callers, FlagRerun(c)
  PROVE  \E j \in Ids, S \in SUBSET Items, r \in Row :
           /\ Written(c, [view EXCEPT ![j] = r])
           /\ view[j].key = caller[c].key /\ view[j].state = "processing"
           /\ S = IF caller[c].key \in PathKeys
                  THEN view[j].rerunPayload \cup caller[c].items ELSE caller[c].items
           /\ r = [view[j] EXCEPT !.rerun = TRUE, !.rerunPayload = S]
<1> DEFINE more(j) == IF caller[c].key \in PathKeys
                      THEN view[j].rerunPayload \cup caller[c].items
                      ELSE caller[c].items
           r(j) == [view[j] EXCEPT !.rerun = TRUE, !.rerunPayload = more(j)]
<1>1. PICK j \in Ids :
        /\ Written(c, [view EXCEPT ![j].rerun = TRUE, ![j].rerunPayload =
             IF caller[c].key \in PathKeys THEN @ \cup caller[c].items
                                           ELSE caller[c].items])
        /\ view[j].key = caller[c].key /\ view[j].state = "processing"
  BY DEF FlagRerun, RowsOf
<1>2. view[j] \in Row /\ caller[c].items \in SUBSET Items BY Reads
<1>3. more(j) \in SUBSET Items BY <1>2 DEF Row
<1>4. r(j) \in Row BY <1>2, <1>3 DEF Row
<1>5. [view EXCEPT ![j].rerun = TRUE, ![j].rerunPayload =
         IF caller[c].key \in PathKeys THEN @ \cup caller[c].items
                                       ELSE caller[c].items]
        = [view EXCEPT ![j] = r(j)]
  OBVIOUS
<1>6. Written(c, [view EXCEPT ![j] = r(j)]) BY <1>1, <1>5
<1> QED BY <1>1, <1>3, <1>4, <1>6

LEMMA InsertEffect ==
  ASSUME TypeOK, NEW c \in Callers, InsertRow(c)
  PROVE  \E j \in Ids, r \in Row :
           /\ Written(c, [view EXCEPT ![j] = r])
           /\ view[j].state = "absent"
           /\ r = QueuedRow(caller[c].key, caller[c].items)
           /\ \A i \in Ids : view[i].state \in Live => view[i].key # caller[c].key
<1> DEFINE r == QueuedRow(caller[c].key, caller[c].items)
<1>1. PICK j \in NextIds(view) : Written(c, [view EXCEPT ![j] = r])
  BY DEF InsertRow
<1>2. j \in Ids /\ view[j].state = "absent" BY DEF NextIds, Ids
<1>3. r \in Row BY Reads DEF Row, QueuedRow
<1>4. \A i \in Ids : view[i].state \in Live => view[i].key # caller[c].key
  BY DEF InsertRow, RowsOf, Live
<1> QED BY <1>1, <1>2, <1>3, <1>4

LEMMA ClaimEffect ==
  ASSUME TypeOK, Claim
  PROVE  \E j \in Ids, r \in Row :
           /\ view' = [view EXCEPT ![j] = r]
           /\ view[j].state = "queued"
           /\ r = [view[j] EXCEPT !.state = "processing"]
           /\ applier' = [pc |-> "running", job |-> j, payload |-> view[j].payload,
                          dirty |-> FALSE, failed |-> FALSE]
<1>1. PICK j \in Ids :
        /\ view' = [view EXCEPT ![j].state = "processing"]
        /\ view[j].state = "queued"
        /\ applier' = [Stopped("running") EXCEPT !.job = j, !.payload = view[j].payload]
  BY DEF Claim, InState
<1> DEFINE r == [view[j] EXCEPT !.state = "processing"]
<1>2. r \in Row
  <2>1. view[j] \in Row BY Reads
  <2> QED BY <2>1 DEF Row
<1>3. view' = [view EXCEPT ![j] = r] BY <1>1
<1> QED BY <1>1, <1>2, <1>3 DEF Stopped

LEMMA RerunEffect ==
  ASSUME TypeOK, applier.job \in Ids, Rerun
  PROVE  \E r \in Row :
           /\ view' = [view EXCEPT ![applier.job] = r]
           /\ view[applier.job].rerun
           /\ r = [view[applier.job] EXCEPT !.rerun = FALSE, !.rerunPayload = {},
                     !.payload = view[applier.job].rerunPayload]
           /\ applier' = [pc |-> "running", job |-> applier.job,
                          payload |-> view[applier.job].rerunPayload,
                          dirty |-> FALSE, failed |-> FALSE]
<1> DEFINE j == applier.job
           r == [view[j] EXCEPT !.rerun = FALSE, !.rerunPayload = {},
                                !.payload = view[j].rerunPayload]
<1>1. r \in Row
  <2>1. view[j] \in Row BY Reads
  <2> QED BY <2>1 DEF Row
<1>2. view' = [view EXCEPT ![j] = r] BY DEF Rerun
<1> QED BY <1>1, <1>2 DEF Rerun, Stopped

LEMMA FinishEffect ==
  ASSUME TypeOK, applier.job \in Ids, Finish
  PROVE  \E r \in Row, s \in {"failed", "succeeded"} :
           /\ view' = [view EXCEPT ![applier.job] = r]
           /\ ~view[applier.job].rerun
           /\ r = [view[applier.job] EXCEPT !.state = s]
<1> DEFINE j == applier.job
           s == IF applier.failed THEN "failed" ELSE "succeeded"
           r == [view[j] EXCEPT !.state = s]
<1>1. r \in Row
  <2>1. view[j] \in Row BY Reads
  <2> QED BY <2>1 DEF Row
<1>2. view' = [view EXCEPT ![j] = r] BY DEF Finish
<1> QED BY <1>1, <1>2 DEF Finish
-----------------------------------------------------------------------------
LEMMA InitTyped == Init => TypeOK
<1> SUFFICES ASSUME Init PROVE TypeOK OBVIOUS
<1>1. NoRow \in Row BY ConstantsAssumption DEF Row, NoRow
<1>2. committed \in [Ids -> Row] BY <1>1 DEF Init
<1>3. crashes \in 0..MaxCrashes BY ConstantsAssumption DEF Init
<1> QED BY <1>2, <1>3, ConstantsAssumption DEF Init, TypeOK, Idle, Stopped

\* Every operation of enqueue() keeps the variables in their types.
LEMMA EnqueueTyped ==
  ASSUME TypeOK, NEW c \in Callers, Enqueue(c)
  PROVE  TypeOK'
<1>1. ASSUME NEW k \in JobKeys, NEW S \in Requests(k), EnqueueBegin(c, k, S)
      PROVE  TypeOK'
  <2>1. S \in SUBSET Items BY RequestsAreItems
  <2> QED BY <1>1, <2>1 DEF EnqueueBegin, TypeOK
<1>2. CASE EnqueueRejected(c) BY <1>2 DEF EnqueueRejected, TypeOK, Idle
<1>3. CASE MatchQueued(c) BY <1>3 DEF MatchQueued, TypeOK
<1>4. ASSUME NEW j \in Ids, NEW r \in Row, Written(c, [view EXCEPT ![j] = r])
      PROVE  TypeOK'
  <2>1. view' \in [Ids -> Row] BY <1>4, RowReplaced DEF Written, TypeOK
  <2>2. caller' = [caller EXCEPT ![c].pc = "written"] /\ inTxn' = TRUE
        /\ UNCHANGED <<committed, lock, applier, crashes>>
    BY <1>4 DEF Written
  <2> QED BY <2>1, <2>2 DEF TypeOK
<1>5. CASE MergeIntoQueued(c) BY <1>4, <1>5, MergeEffect
<1>6. CASE FlagRerun(c) BY <1>4, <1>6, FlagEffect
<1>7. CASE InsertRow(c) BY <1>4, <1>7, InsertEffect
<1>8. CASE EnqueueAborts(c) BY <1>8 DEF EnqueueAborts, TypeOK, Idle
<1>9. CASE EnqueueReply(c) BY <1>9 DEF EnqueueReply, TypeOK, Idle
<1> QED BY <1>1, <1>2, <1>3, <1>5, <1>6, <1>7, <1>8, <1>9 DEF Enqueue

\* So does every step of the Applier.
LEMMA ApplierTyped ==
  ASSUME TypeOK, ApplierStep,
         applier.pc \in {"running", "ending"} => applier.job \in Ids
  PROVE  TypeOK'
<1>1. CASE Start
  <2>1. \A j \in Ids : Requeued(committed)[j] \in Row
    <3> SUFFICES ASSUME NEW j \in Ids PROVE Requeued(committed)[j] \in Row OBVIOUS
    <3>1. committed[j] \in Row BY DEF TypeOK
    <3>2. [committed[j] EXCEPT !.state = "queued"] \in Row BY <3>1 DEF Row
    <3> QED BY <3>1, <3>2 DEF Requeued
  <2>2. Requeued(committed) \in [Ids -> Row] BY <2>1 DEF Requeued
  <2> QED BY <1>1, <2>2 DEF Start, TypeOK, Stopped
<1>2. CASE Claim
  <2>1. PICK j \in Ids, r \in Row :
          /\ view' = [view EXCEPT ![j] = r]
          /\ applier' = [pc |-> "running", job |-> j, payload |-> view[j].payload,
                         dirty |-> FALSE, failed |-> FALSE]
    BY <1>2, ClaimEffect
  <2>2. view[j].payload \in SUBSET Items BY DEF Row, TypeOK
  <2>3. view' \in [Ids -> Row] BY <2>1 DEF TypeOK
  <2>4. committed' = view' BY <1>2 DEF Claim
  <2> QED BY <1>2, <2>1, <2>2, <2>3, <2>4 DEF Claim, TypeOK
<1>3. CASE Write BY <1>3 DEF Write, TypeOK
<1>4. CASE CommitBatch BY <1>4 DEF CommitBatch, TypeOK
<1>5. CASE Return BY <1>5 DEF Return, TypeOK
<1>6. CASE Raise BY <1>6, RaiseSpares
<1>7. CASE Rerun
  <2> DEFINE j == applier.job
  <2>1. applier.pc = "ending" BY <1>7 DEF Rerun
  <2>2. PICK r \in Row :
          /\ view' = [view EXCEPT ![j] = r]
          /\ applier' = [pc |-> "running", job |-> j, payload |-> view[j].rerunPayload,
                         dirty |-> FALSE, failed |-> FALSE]
    BY <1>7, <2>1, RerunEffect
  <2>3. view[j].rerunPayload \in SUBSET Items BY <2>1 DEF Row, TypeOK
  <2>4. view' \in [Ids -> Row] BY <2>1, <2>2 DEF TypeOK
  <2>5. committed' = view' BY <1>7 DEF Rerun
  <2>6. UNCHANGED <<inTxn, lock, caller, crashes>> BY <1>7 DEF Rerun
  <2> QED BY <2>1, <2>2, <2>3, <2>4, <2>5, <2>6 DEF TypeOK
<1>8. CASE Finish
  <2>1. applier.pc = "ending" BY <1>8 DEF Finish
  <2>2. PICK r \in Row : view' = [view EXCEPT ![applier.job] = r]
    BY <1>8, <2>1, FinishEffect
  <2>3. view' \in [Ids -> Row] BY <2>1, <2>2 DEF TypeOK
  <2> QED BY <1>8, <2>3 DEF Finish, TypeOK, Stopped
<1>9. CASE ApplierDies BY <1>9 DEF ApplierDies, TypeOK, Stopped
<1> QED BY <1>1, <1>2, <1>3, <1>4, <1>5, <1>6, <1>7, <1>8, <1>9 DEF ApplierStep

LEMMA CrashTyped ==
  ASSUME TypeOK, Crash
  PROVE  TypeOK'
<1>1. crashes' \in 0..MaxCrashes BY ConstantsAssumption DEF Crash, TypeOK
<1>2. caller' = [d \in Callers |-> [pc |-> "idle", key |-> NoKey, items |-> {},
                                   reply |-> "none"]]
  BY DEF Crash, Idle
<1>3. applier' = [pc |-> "down", job |-> 0, payload |-> {},
                  dirty |-> FALSE, failed |-> FALSE]
  BY DEF Crash, Stopped
<1>4. view' = committed /\ committed' = committed /\ inTxn' = FALSE /\ lock' = NoOne
  BY DEF Crash
<1>5. view' \in [Ids -> Row] /\ committed' \in [Ids -> Row] BY <1>4 DEF TypeOK
<1> QED BY <1>1, <1>2, <1>3, <1>4, <1>5 DEF TypeOK
-----------------------------------------------------------------------------
(***************************************************************************)
(* The rest of the invariant, one lemma per kind of step.  Every proof has *)
(* one step per conjunct the action can disturb.                           *)
(***************************************************************************)
RowsAndLocks ==
  /\ LockInv
  /\ ViewInv
  /\ applier.pc \in {"running", "ending"} => applier.job \in Ids
  /\ RowsInv(committed)
  /\ RowsInv(view)
  /\ Extends(committed, view)

\* While no caller has written, the two tables are one.
LEMMA SameTables ==
  ASSUME IndInv,
         \/ lock = NoOne
         \/ \E c \in Callers : caller[c].pc = "begun"
  PROVE  view = committed
<1>1. ASSUME NEW c \in Callers, caller[c].pc = "written" PROVE FALSE
  <2>1. lock = c BY <1>1 DEF IndInv, LockInv
  <2>2. PICK d \in Callers : caller[d].pc = "begun"
    BY <2>1, ConstantsAssumption
  <2>3. lock = d BY <2>2 DEF IndInv, LockInv
  <2> QED BY <1>1, <2>1, <2>2, <2>3
<1> QED BY <1>1 DEF IndInv, ViewInv

\* Steps of enqueue() that write nothing.
LEMMA QuietSteps ==
  ASSUME IndInv, NEW c \in Callers,
         \/ \E k \in JobKeys : \E S \in Requests(k) : EnqueueBegin(c, k, S)
         \/ EnqueueRejected(c)
         \/ MatchQueued(c)
         \/ EnqueueAborts(c)
  PROVE  RowsAndLocks'
<1>1. UNCHANGED <<committed, view, applier>>
  BY DEF EnqueueBegin, EnqueueRejected, MatchQueued, EnqueueAborts
<1>2. LockInv'
  <2>1. CASE \E k \in JobKeys : \E S \in Requests(k) : EnqueueBegin(c, k, S)
    <3>0. PICK k \in JobKeys : \E S \in Requests(k) : EnqueueBegin(c, k, S) BY <2>1
    <3>1. PICK S \in Requests(k) : EnqueueBegin(c, k, S) BY <3>0
    <3>2. \A d \in Callers : caller[d].pc = "idle"
      BY <3>1, ConstantsAssumption DEF EnqueueBegin, IndInv, LockInv
    <3> QED BY <3>1, <3>2 DEF EnqueueBegin, IndInv, TypeOK, LockInv
  <2>2. CASE EnqueueRejected(c)
    BY <2>2 DEF EnqueueRejected, Idle, IndInv, TypeOK, LockInv
  <2>3. CASE MatchQueued(c)
    BY <2>3 DEF MatchQueued, IndInv, TypeOK, LockInv
  <2>4. CASE EnqueueAborts(c)
    BY <2>4 DEF EnqueueAborts, Idle, IndInv, TypeOK, LockInv
  <2> QED BY <2>1, <2>2, <2>3, <2>4
<1>3. ViewInv'
  <2>1. CASE MatchQueued(c)
    BY <1>1, <2>1, SameTables DEF MatchQueued, ViewInv
  <2>2. CASE EnqueueAborts(c)
    BY <1>1, <2>2, SameTables DEF EnqueueAborts, ViewInv
  <2>3. CASE EnqueueRejected(c)
    BY <1>1, <2>3, SameTables DEF EnqueueRejected, ViewInv
  <2>4. CASE \E k \in JobKeys : \E S \in Requests(k) : EnqueueBegin(c, k, S)
    BY <1>1, <2>4, SameTables DEF EnqueueBegin, ViewInv
  <2> QED BY <2>1, <2>2, <2>3, <2>4
<1> QED BY <1>1, <1>2, <1>3
     DEF RowsAndLocks, IndInv, RowsInv, OneLive, Runs, Flagged, WholeRows, Extends,
         Executing

\* The steps of enqueue() that write a row.
LEMMA WritingSteps ==
  ASSUME IndInv, NEW c \in Callers, caller[c].pc = "begun",
         MergeIntoQueued(c) \/ FlagRerun(c) \/ InsertRow(c)
  PROVE  RowsAndLocks'
<1>1. view = committed BY SameTables
<1>2. UNCHANGED <<committed, lock, applier>>
      /\ caller' = [caller EXCEPT ![c].pc = "written"]
  BY DEF MergeIntoQueued, FlagRerun, InsertRow, Written
<1>3. LockInv' BY <1>2 DEF IndInv, TypeOK, LockInv
<1>4. ViewInv' BY <1>2 DEF IndInv, TypeOK, ViewInv
<1>5. lock = c /\ caller[c].key \in JobKeys
      /\ caller[c].items \in Requests(caller[c].key)
  BY DEF IndInv, LockInv
<1> DEFINE k == caller[c].key
           S == caller[c].items
<1>6. S \subseteq Items /\ (k \notin PathKeys => S = {Whole})
  BY <1>5, RequestsAreItems DEF Requests
<1>7. RowsInv(view)' /\ Extends(committed, view)'
  <2>1. CASE MergeIntoQueued(c)
    <3>1. PICK j \in Ids, r \in Row :
            /\ Written(c, [view EXCEPT ![j] = r])
            /\ view[j].key = k /\ view[j].state = "queued"
            /\ r = [view[j] EXCEPT !.payload = view[j].payload \cup S]
      BY <2>1, MergeEffect DEF IndInv
    <3>2. k \in PathKeys BY <2>1 DEF MergeIntoQueued
    <3>3. /\ r.key = view[j].key /\ r.state = "queued"
          /\ r.payload = view[j].payload \cup S
          /\ r.rerun = view[j].rerun /\ r.rerunPayload = view[j].rerunPayload
      BY <3>1, Reads DEF IndInv, Row
    <3>4. \A i \in Ids : view'[i] = IF i = j THEN r ELSE view[i]
      BY <3>1 DEF Written, IndInv, TypeOK
    <3>5. OneLive(view)'
      <4>1. \A i \in Ids : view'[i].key = view[i].key /\ view'[i].state = view[i].state
        BY <3>1, <3>3, <3>4
      <4>2. OneLive(view) BY DEF IndInv, RowsInv
      <4> QED BY <4>1, <4>2 DEF OneLive
    <3>6. Runs(view)'
      <4>1. Runs(view) /\ applier' = applier BY <1>2 DEF IndInv, RowsInv
      <4> QED BY <4>1, <3>1, <3>3, <3>4 DEF Runs, Executing
    <3>7. Flagged(view)' BY <3>1, <3>3, <3>4 DEF IndInv, RowsInv, Flagged, Live
    <3>8. WholeRows(view)' BY <3>1, <3>2, <3>3, <3>4 DEF IndInv, RowsInv, WholeRows
    <3>9. Extends(committed, view)' BY <1>1, <1>2, <3>1, <3>3, <3>4 DEF Extends
    <3> QED BY <3>5, <3>6, <3>7, <3>8, <3>9 DEF RowsInv
  <2>2. CASE FlagRerun(c)
    <3>1. PICK j \in Ids, T \in SUBSET Items, r \in Row :
            /\ Written(c, [view EXCEPT ![j] = r])
            /\ view[j].key = k /\ view[j].state = "processing"
            /\ T = IF k \in PathKeys THEN view[j].rerunPayload \cup S ELSE S
            /\ r = [view[j] EXCEPT !.rerun = TRUE, !.rerunPayload = T]
      BY <2>2, FlagEffect DEF IndInv
    <3>2. view[j].rerunPayload \subseteq T
      BY <1>5, <1>6, <3>1 DEF IndInv, RowsInv, WholeRows
    <3>3. /\ r.key = view[j].key /\ r.state = "processing"
          /\ r.payload = view[j].payload /\ r.rerun /\ r.rerunPayload = T
      BY <3>1, Reads DEF IndInv, Row
    <3>4. \A i \in Ids : view'[i] = IF i = j THEN r ELSE view[i]
      BY <3>1 DEF Written, IndInv, TypeOK
    <3>5. OneLive(view)'
      <4>1. \A i \in Ids : view'[i].key = view[i].key /\ view'[i].state = view[i].state
        BY <3>1, <3>3, <3>4
      <4>2. OneLive(view) BY DEF IndInv, RowsInv
      <4> QED BY <4>1, <4>2 DEF OneLive
    <3>6. Runs(view)'
      <4>1. Runs(view) /\ applier' = applier BY <1>2 DEF IndInv, RowsInv
      <4> QED BY <4>1, <3>1, <3>3, <3>4 DEF Runs, Executing
    <3>7. Flagged(view)' BY <3>1, <3>3, <3>4 DEF IndInv, RowsInv, Flagged, Live
    <3>8. WholeRows(view)'
      BY <1>6, <3>1, <3>3, <3>4 DEF IndInv, RowsInv, WholeRows
    <3>9. Extends(committed, view)' BY <1>1, <1>2, <3>1, <3>2, <3>3, <3>4 DEF Extends
    <3> QED BY <3>5, <3>6, <3>7, <3>8, <3>9 DEF RowsInv
  <2>3. CASE InsertRow(c)
    <3>1. PICK j \in Ids, r \in Row :
            /\ Written(c, [view EXCEPT ![j] = r])
            /\ view[j].state = "absent"
            /\ r = QueuedRow(k, S)
            /\ \A i \in Ids : view[i].state \in Live => view[i].key # k
      BY <2>3, InsertEffect DEF IndInv
    <3>2. r.key = k /\ r.state = "queued" /\ r.payload = S /\ ~r.rerun
          /\ r.rerunPayload = {}
      BY <3>1 DEF QueuedRow
    <3>3. \A i \in Ids : view'[i] = IF i = j THEN r ELSE view[i]
      BY <3>1 DEF Written, IndInv, TypeOK
    <3>4. ~view[j].rerun BY <3>1 DEF IndInv, RowsInv, Flagged, Live
    <3>5. OneLive(view)' BY <3>1, <3>2, <3>3 DEF IndInv, RowsInv, OneLive
    <3>6. Runs(view)' BY <1>2, <3>1, <3>2, <3>3 DEF IndInv, RowsInv, Runs, Executing
    <3>7. Flagged(view)' BY <3>1, <3>2, <3>3 DEF IndInv, RowsInv, Flagged, Live
    <3>8. WholeRows(view)' BY <1>5, <1>6, <3>1, <3>2, <3>3 DEF IndInv, RowsInv, WholeRows
    <3>9. Extends(committed, view)' BY <1>1, <1>2, <3>1, <3>3, <3>4 DEF Extends
    <3> QED BY <3>5, <3>6, <3>7, <3>8, <3>9 DEF RowsInv
  <2> QED BY <2>1, <2>2, <2>3
<1>8. RowsInv(committed)'
  BY <1>2 DEF IndInv, RowsInv, OneLive, Runs, Flagged, WholeRows, Executing
<1> QED BY <1>2, <1>3, <1>4, <1>7, <1>8 DEF RowsAndLocks, IndInv
\* The commits and the rollbacks of the shared transaction.
LEMMA CommitSteps ==
  ASSUME IndInv,
         \/ \E c \in Callers : EnqueueReply(c)
         \/ Write \/ CommitBatch \/ Return \/ Raise
  PROVE  RowsAndLocks'
<1> USE DEF IndInv
<1>1. \/ view' = view /\ committed' \in {view, committed}
      \/ view' = committed /\ committed' = committed
  BY DEF EnqueueReply, Write, CommitBatch, Return, Raise
<1>2. /\ applier'.job = applier.job /\ applier'.payload = applier.payload
      /\ \A j \in Ids : Executing(j)' <=> Executing(j)
      /\ applier'.pc \in {"running", "ending"} <=> applier.pc \in {"running", "ending"}
      /\ applier'.pc = "down" <=> applier.pc = "down"
  BY DEF EnqueueReply, Write, CommitBatch, Return, Raise, TypeOK, Executing
<1>3. LockInv'
  <2>1. CASE UNCHANGED <<lock, caller>> BY <1>2, <2>1 DEF LockInv
  <2>2. ASSUME NEW c \in Callers, EnqueueReply(c) PROVE LockInv'
    <3>1. lock = c BY <2>2 DEF EnqueueReply, LockInv
    <3>2. \A d \in Callers : d # c => caller[d].pc = "idle" BY <3>1 DEF LockInv
    <3> QED BY <2>2, <3>2 DEF EnqueueReply, LockInv, TypeOK, Idle
  <2>3. ASSUME Raise PROVE LockInv'
    <3>1. UNCHANGED lock BY <2>3 DEF Raise
    <3>2. ASSUME NEW c \in Callers
          PROVE  /\ caller'[c].pc # "idle" => caller[c].pc # "idle"
                 /\ caller'[c].key = caller[c].key /\ caller'[c].items = caller[c].items
                 /\ caller'[c].reply = caller[c].reply
      <4>1. [caller[c] EXCEPT !.pc = "undone"].key = caller[c].key
            /\ [caller[c] EXCEPT !.pc = "undone"].items = caller[c].items
            /\ [caller[c] EXCEPT !.pc = "undone"].reply = caller[c].reply
        BY DEF TypeOK
      <4> QED BY <2>3, <4>1, RaiseSpares
    <3>3. applier'.pc # "down" BY <1>2, <2>3 DEF Raise
    <3> QED BY <3>1, <3>2, <3>3 DEF LockInv
  <2> QED BY <2>1, <2>2, <2>3 DEF Write, CommitBatch, Return
<1>4. ViewInv'
  <2>1. CASE Write BY <2>1 DEF Write, ViewInv
  <2>2. CASE Raise BY <2>2 DEF Raise, ViewInv
  <2>3. CASE (\E c \in Callers : EnqueueReply(c)) \/ CommitBatch \/ Return
    BY <2>3 DEF EnqueueReply, CommitBatch, Return, ViewInv
  <2> QED BY <2>1, <2>2, <2>3
<1>5. RowsInv(committed)' /\ RowsInv(view)'
  BY <1>1, <1>2 DEF RowsInv, OneLive, Runs, Flagged, WholeRows
<1>6. Extends(committed, view)' BY <1>1 DEF Extends
<1> QED BY <1>2, <1>3, <1>4, <1>5, <1>6 DEF RowsAndLocks

\* A step that holds index_jobs_lock meets no caller inside enqueue().
LEMMA LockFree ==
  ASSUME IndInv, lock = NoOne
  PROVE  \A c \in Callers : caller[c].pc = "idle"
BY ConstantsAssumption DEF IndInv, LockInv

\* What is left to show of a step that ends with one table.
LEMMA OneTable ==
  ASSUME IndInv, lock = NoOne, committed' = view', UNCHANGED <<lock, caller>>,
         applier'.pc \in {"running", "ending"} => applier'.job \in Ids,
         RowsInv(view)'
  PROVE  RowsAndLocks'
<1>1. \A c \in Callers : caller'[c].pc = "idle" BY LockFree
<1>2. LockInv' /\ ViewInv' BY <1>1 DEF LockInv, ViewInv
<1>3. RowsInv(committed)' BY DEF RowsInv, OneLive, Runs, Flagged, WholeRows
<1>4. Extends(committed, view)' BY DEF Extends
<1> QED BY <1>2, <1>3, <1>4 DEF RowsAndLocks

LEMMA ClaimStep ==
  ASSUME IndInv, Claim
  PROVE  RowsAndLocks'
<1>1. PICK j \in Ids, r \in Row :
        /\ view' = [view EXCEPT ![j] = r]
        /\ view[j].state = "queued"
        /\ r = [view[j] EXCEPT !.state = "processing"]
        /\ applier' = [pc |-> "running", job |-> j, payload |-> view[j].payload,
                       dirty |-> FALSE, failed |-> FALSE]
  BY ClaimEffect DEF IndInv
<1>2. /\ r.key = view[j].key /\ r.state = "processing" /\ r.payload = view[j].payload
      /\ r.rerun = view[j].rerun /\ r.rerunPayload = view[j].rerunPayload
  BY <1>1, Reads DEF IndInv, Row
<1>3. \A i \in Ids : view'[i] = IF i = j THEN r ELSE view[i]
  BY <1>1 DEF IndInv, TypeOK
<1>4. OneLive(view)'
  <2>1. \A i \in Ids : /\ view'[i].key = view[i].key
                       /\ view'[i].state \in Live <=> view[i].state \in Live
    BY <1>1, <1>2, <1>3 DEF Live
  <2>2. OneLive(view) BY DEF IndInv, RowsInv
  <2> QED BY <2>1, <2>2 DEF OneLive
<1>5. Runs(view)' BY <1>1, <1>2, <1>3 DEF Runs, Executing
<1>6. Flagged(view)' BY <1>2, <1>3 DEF IndInv, RowsInv, Flagged, Live
<1>7. WholeRows(view)' BY <1>1, <1>2, <1>3 DEF IndInv, RowsInv, WholeRows, Live
<1>8. RowsInv(view)' BY <1>4, <1>5, <1>6, <1>7 DEF RowsInv
<1>9. lock = NoOne /\ committed' = view' /\ UNCHANGED <<lock, caller>> BY DEF Claim
<1> QED BY <1>1, <1>8, <1>9, OneTable

LEMMA RerunStep ==
  ASSUME IndInv, Rerun
  PROVE  RowsAndLocks'
<1> DEFINE j == applier.job
<1>0. applier.pc = "ending" /\ j \in Ids BY DEF Rerun, IndInv
<1>1. PICK r \in Row :
        /\ view' = [view EXCEPT ![j] = r]
        /\ view[j].rerun
        /\ r = [view[j] EXCEPT !.rerun = FALSE, !.rerunPayload = {},
                 !.payload = view[j].rerunPayload]
        /\ applier' = [pc |-> "running", job |-> j, payload |-> view[j].rerunPayload,
                       dirty |-> FALSE, failed |-> FALSE]
  BY <1>0, RerunEffect DEF IndInv
<1>2. /\ r.key = view[j].key /\ r.state = view[j].state
      /\ r.payload = view[j].rerunPayload /\ ~r.rerun /\ r.rerunPayload = {}
  BY <1>0, <1>1, Reads DEF IndInv, Row
<1>3. \A i \in Ids : view'[i] = IF i = j THEN r ELSE view[i]
  BY <1>1 DEF IndInv, TypeOK
<1>4. OneLive(view)'
  <2>1. \A i \in Ids : view'[i].key = view[i].key /\ view'[i].state = view[i].state
    BY <1>2, <1>3
  <2>2. OneLive(view) BY DEF IndInv, RowsInv
  <2> QED BY <2>1, <2>2 DEF OneLive
<1>5. Runs(view)'
  <2>1. view[j].state = "processing"
    BY <1>0 DEF IndInv, RowsInv, Runs, Executing
  <2> QED BY <1>0, <1>1, <1>2, <1>3, <2>1 DEF Runs, Executing
<1>6. Flagged(view)' BY <1>2, <1>3 DEF IndInv, RowsInv, Flagged
<1>7. WholeRows(view)' BY <1>0, <1>1, <1>2, <1>3 DEF IndInv, RowsInv, WholeRows
<1>8. RowsInv(view)' BY <1>4, <1>5, <1>6, <1>7 DEF RowsInv
<1>9. lock = NoOne /\ committed' = view' /\ UNCHANGED <<lock, caller>> BY DEF Rerun
<1> QED BY <1>0, <1>1, <1>8, <1>9, OneTable

LEMMA FinishStep ==
  ASSUME IndInv, Finish
  PROVE  RowsAndLocks'
<1> DEFINE j == applier.job
<1>0. applier.pc = "ending" /\ j \in Ids BY DEF Finish, IndInv
<1>1. PICK r \in Row, s \in {"failed", "succeeded"} :
        /\ view' = [view EXCEPT ![j] = r]
        /\ ~view[j].rerun
        /\ r = [view[j] EXCEPT !.state = s]
  BY <1>0, FinishEffect DEF IndInv
<1>2. /\ r.key = view[j].key /\ r.state \notin Live /\ r.payload = view[j].payload
      /\ ~r.rerun /\ r.rerunPayload = view[j].rerunPayload
  BY <1>0, <1>1, Reads DEF IndInv, Row, Live
<1>3. \A i \in Ids : view'[i] = IF i = j THEN r ELSE view[i]
  BY <1>1 DEF IndInv, TypeOK
<1>4. applier'.pc = "polling" BY DEF Finish, Stopped
<1>5. OneLive(view)' BY <1>2, <1>3 DEF IndInv, RowsInv, OneLive
<1>6. Runs(view)' BY <1>4 DEF Runs, Executing
<1>7. Flagged(view)' BY <1>2, <1>3 DEF IndInv, RowsInv, Flagged
<1>8. WholeRows(view)' BY <1>2, <1>3 DEF IndInv, RowsInv, WholeRows
<1>9. RowsInv(view)' BY <1>5, <1>6, <1>7, <1>8 DEF RowsInv
<1>10. lock = NoOne /\ committed' = view' /\ UNCHANGED <<lock, caller>> BY DEF Finish
<1> QED BY <1>4, <1>9, <1>10, OneTable

\* The steps that leave nothing executing.
LEMMA StopSteps ==
  ASSUME IndInv, Start \/ ApplierDies \/ Crash
  PROVE  RowsAndLocks'
<1>1. applier'.pc \notin {"running", "ending"} /\ \A j \in Ids : ~Executing(j)'
  BY DEF Start, ApplierDies, Crash, Stopped, Executing
<1>2. CASE ApplierDies
  <2>1. applier'.pc # "down" /\ UNCHANGED <<committed, view, lock, caller>>
    BY <1>2 DEF ApplierDies, Stopped
  <2> QED BY <1>1, <2>1
       DEF IndInv, RowsAndLocks, LockInv, ViewInv, RowsInv, OneLive, Runs, Flagged,
           WholeRows, Extends
<1>3. CASE Crash
  <2>1. /\ view' = committed /\ committed' = committed
        /\ \A c \in Callers : caller'[c].pc = "idle"
    BY <1>3 DEF Crash, Idle
  <2> QED BY <1>1, <2>1
       DEF IndInv, RowsAndLocks, LockInv, ViewInv, RowsInv, OneLive, Runs, Flagged,
           WholeRows, Extends
<1>4. CASE Start
  <2>1. /\ committed' = Requeued(committed) /\ view' = committed'
        /\ UNCHANGED <<lock, caller>> /\ applier'.pc # "down" /\ applier.pc = "down"
    BY <1>4 DEF Start, Stopped
  <2>2. \A c \in Callers : caller'[c].pc = "idle" BY <2>1 DEF IndInv, LockInv
  <2>3. \A j \in Ids :
          /\ view'[j].key = committed[j].key
          /\ view'[j].payload = committed[j].payload
          /\ view'[j].rerun = committed[j].rerun
          /\ view'[j].rerunPayload = committed[j].rerunPayload
          /\ view'[j].state \in Live <=> committed[j].state \in Live
    <3> SUFFICES ASSUME NEW j \in Ids
                 PROVE  /\ view'[j].key = committed[j].key
                        /\ view'[j].payload = committed[j].payload
                        /\ view'[j].rerun = committed[j].rerun
                        /\ view'[j].rerunPayload = committed[j].rerunPayload
                        /\ view'[j].state \in Live <=> committed[j].state \in Live
      OBVIOUS
    <3>1. committed[j] \in Row BY Reads DEF IndInv
    <3> QED BY <2>1, <3>1 DEF Requeued, Live, Row
  <2>4. OneLive(view)' BY <2>3 DEF IndInv, RowsInv, OneLive
  <2>5. Runs(view)' BY <1>1 DEF Runs
  <2>6. Flagged(view)' BY <2>3 DEF IndInv, RowsInv, Flagged
  <2>7. WholeRows(view)' BY <2>3 DEF IndInv, RowsInv, WholeRows
  <2>8. RowsInv(view)' BY <2>4, <2>5, <2>6, <2>7 DEF RowsInv
  <2>9. RowsInv(committed)'
    BY <2>1, <2>8 DEF RowsInv, OneLive, Runs, Flagged, WholeRows
  <2>10. Extends(committed, view)' BY <2>1 DEF Extends
  <2>11. LockInv' /\ ViewInv' BY <2>1, <2>2 DEF LockInv, ViewInv
  <2> QED BY <1>1, <2>8, <2>9, <2>10, <2>11 DEF RowsAndLocks
<1> QED BY <1>2, <1>3, <1>4
LEMMA InitIndInv == Init => IndInv
<1> SUFFICES ASSUME Init PROVE IndInv OBVIOUS
<1>1. TypeOK BY InitTyped
<1>2. /\ \A j \in Ids : committed[j] = NoRow /\ view[j] = NoRow
      /\ \A c \in Callers : caller[c].pc = "idle"
      /\ applier.pc = "down" /\ view = committed
  BY DEF Init, Idle, Stopped
<1>3. LockInv /\ ViewInv BY <1>2 DEF LockInv, ViewInv
<1>4. RowsInv(committed) /\ RowsInv(view)
  BY <1>2, ConstantsAssumption
     DEF RowsInv, OneLive, Runs, Flagged, WholeRows, NoRow, Live, Executing
<1>5. Extends(committed, view) BY <1>2 DEF Extends
<1> QED BY <1>1, <1>2, <1>3, <1>4, <1>5 DEF IndInv

LEMMA NextIndInv == IndInv /\ [Next]_vars => IndInv'
<1> SUFFICES ASSUME IndInv, [Next]_vars PROVE IndInv' OBVIOUS
<1>1. TypeOK'
  <2>1. CASE UNCHANGED vars BY <2>1 DEF vars, IndInv, TypeOK
  <2>2. CASE Crash BY <2>2, CrashTyped DEF IndInv
  <2>3. CASE ApplierStep BY <2>3, ApplierTyped DEF IndInv
  <2>4. CASE \E c \in Callers : Enqueue(c) BY <2>4, EnqueueTyped DEF IndInv
  <2> QED BY <2>1, <2>2, <2>3, <2>4 DEF Next
<1>2. RowsAndLocks'
  <2>1. CASE UNCHANGED vars
    BY <2>1 DEF vars, IndInv, RowsAndLocks, LockInv, ViewInv, RowsInv, OneLive, Runs,
                Flagged, WholeRows, Extends, Executing
  <2>2. CASE Crash BY <2>2, StopSteps
  <2>3. CASE ApplierStep
    BY <2>3, StopSteps, ClaimStep, CommitSteps, RerunStep, FinishStep DEF ApplierStep
  <2>4. ASSUME NEW c \in Callers, Enqueue(c) PROVE RowsAndLocks'
    <3>1. CASE MergeIntoQueued(c) \/ FlagRerun(c) \/ InsertRow(c)
      BY <3>1, WritingSteps DEF MergeIntoQueued, FlagRerun, InsertRow
    <3>2. CASE EnqueueReply(c) BY <3>2, CommitSteps
    <3> QED BY <2>4, <3>1, <3>2, QuietSteps DEF Enqueue
  <2> QED BY <2>1, <2>2, <2>3, <2>4 DEF Next
<1> QED BY <1>1, <1>2 DEF IndInv, RowsAndLocks

LEMMA Invariance == Spec => []IndInv
BY InitIndInv, NextIndInv, PTL DEF Spec
-----------------------------------------------------------------------------
(***************************************************************************)
(* The invariants of the runs, for every instance.                         *)
(***************************************************************************)

\* The tables, the lock, the request threads and the Applier stay in their
\* types: no operation writes a state the index_jobs column does not have.
THEOREM TypeCorrect == Spec => []TypeOK
BY Invariance, PTL DEF IndInv

\* enqueue(), the claim, the rerun and the recovery of start() never make a
\* second live row of a (kind, source_key).
THEOREM OneLiveRow == Spec => []OneLiveRowPerKey
<1>1. IndInv => OneLiveRowPerKey
  BY DEF IndInv, RowsInv, OneLive, OneLiveRowPerKey
<1> QED BY Invariance, <1>1, PTL

\* At every moment a crash would make start() requeue the very run in progress.
THEOREM CrashReplaysTheRun == Spec => []ReplayIsTheRun
<1>1. IndInv => ReplayIsTheRun
  BY DEF IndInv, RowsInv, Runs, ReplayIsTheRun
<1> QED BY Invariance, <1>1, PTL

\* _run_job's completion transaction leaves no rerun flag behind on a row.
THEOREM NoLostFlag == Spec => []NoFlagOnEndedRow
<1>1. IndInv => NoFlagOnEndedRow
  BY DEF IndInv, RowsInv, Flagged, NoFlagOnEndedRow
<1> QED BY Invariance, <1>1, PTL
-----------------------------------------------------------------------------
(***************************************************************************)
(* The op-log implements ReindexIntents.                                   *)
(***************************************************************************)
Intents == JobKeys \X Items

\* What is owed only depends on the durable table and on the row executed.
LEMMA OwedGrows ==
  ASSUME IndInv, Extends(committed, committed'),
         \A j \in Ids : Executing(j)' => Executing(j)
  PROVE  Owed \subseteq Owed'
<1> SUFFICES ASSUME NEW k \in JobKeys, NEW i \in Items, NEW j \in Ids, OwedBy(j, k, i)
             PROVE  OwedBy(j, k, i)'
  BY DEF Owed
<1>1. CASE committed[j].rerun /\ i \in committed[j].rerunPayload
  BY <1>1 DEF Extends, OwedBy
<1>2. CASE /\ committed[j].state \in Live /\ ~Executing(j)
           /\ i \in committed[j].payload
  <2>1. committed[j].state # "absent" BY <1>2 DEF Live
  <2>2. committed'[j].state \in Live /\ ~Executing(j)' /\ i \in committed'[j].payload
        /\ committed'[j].key = committed[j].key
    BY <1>2, <2>1 DEF Extends
  <2> QED BY <2>2 DEF OwedBy
<1> QED BY <1>1, <1>2 DEF OwedBy

\* A commit of the shared connection makes requests durable: Accept.
LEMMA CommitAccepts ==
  ASSUME IndInv, committed' \in {view, committed},
         applier'.payload = applier.payload,
         \A j \in Ids : Executing(j)' <=> Executing(j)
  PROVE  Promise!Accept
<1>1. Extends(committed, committed') BY DEF IndInv, Extends
<1>2. Owed \subseteq Owed' BY <1>1, OwedGrows
<1>3. ASSUME NEW j \in Ids, Executing(j) PROVE committed'[j].key = committed[j].key
  <2>1. committed[j].state = "processing" BY <1>3 DEF IndInv, RowsInv, Runs
  <2> QED BY <1>1, <2>1 DEF Extends
<1>4. Running' = Running BY <1>3 DEF Running
<1>5. Owed' \in SUBSET Intents BY DEF Owed, Intents
<1> QED BY <1>2, <1>4, <1>5 DEF Promise!Accept, Intents

\* Claiming a row takes what its payload asks for.
LEMMA ClaimTakes ==
  ASSUME IndInv, Claim
  PROVE  Promise!Take
<1>1. PICK j \in Ids, r \in Row :
        /\ view' = [view EXCEPT ![j] = r]
        /\ view[j].state = "queued"
        /\ r = [view[j] EXCEPT !.state = "processing"]
        /\ applier' = [pc |-> "running", job |-> j, payload |-> view[j].payload,
                       dirty |-> FALSE, failed |-> FALSE]
  BY ClaimEffect DEF IndInv
<1>2. view = committed BY SameTables DEF Claim
<1>3. \A i \in Ids : /\ committed'[i].key = committed[i].key
                     /\ committed'[i].state \in Live <=> committed[i].state \in Live
                     /\ committed'[i].payload = committed[i].payload
                     /\ committed'[i].rerun = committed[i].rerun
                     /\ committed'[i].rerunPayload = committed[i].rerunPayload
  <2>1. /\ r.key = view[j].key /\ r.state = "processing"
        /\ r.payload = view[j].payload /\ r.rerun = view[j].rerun
        /\ r.rerunPayload = view[j].rerunPayload
    BY <1>1, Reads DEF IndInv, Row
  <2>2. \A i \in Ids : committed'[i] = IF i = j THEN r ELSE committed[i]
    BY <1>1, <1>2 DEF Claim, IndInv, TypeOK
  <2> QED BY <1>1, <1>2, <2>1, <2>2 DEF Live
<1>4. \A i \in Ids : /\ ~Executing(i)
                     /\ Executing(i)' <=> i = j
  BY <1>1 DEF Claim, Executing
<1>5. Running' = {p \in Intents : committed[j].key = p[1] /\ p[2] \in committed[j].payload}
  BY <1>1, <1>2, <1>3, <1>4 DEF Running, Intents
<1>6. committed[j].state \in Live BY <1>1, <1>2 DEF Live
<1>7. Running' \subseteq Owed BY <1>4, <1>5, <1>6 DEF Owed, OwedBy, Intents
<1>8. Owed' \subseteq Owed
  <2> SUFFICES ASSUME NEW k \in JobKeys, NEW x \in Items, NEW i \in Ids, OwedBy(i, k, x)'
               PROVE  OwedBy(i, k, x)
    BY DEF Owed
  <2> QED BY <1>3, <1>4 DEF OwedBy
<1>9. Owed \ Running' \subseteq Owed'
  <2> SUFFICES ASSUME NEW k \in JobKeys, NEW x \in Items, NEW i \in Ids,
                      OwedBy(i, k, x), <<k, x>> \notin Running'
               PROVE  OwedBy(i, k, x)'
    BY DEF Owed
  <2>1. CASE i = j BY <2>1, <1>3, <1>5 DEF OwedBy, Intents
  <2>2. CASE i # j BY <2>2, <1>3, <1>4 DEF OwedBy
  <2> QED BY <2>1, <2>2
<1> QED BY <1>7, <1>8, <1>9 DEF Promise!Take

\* Running a row again takes what was asked for while it ran.
LEMMA RerunTakes ==
  ASSUME IndInv, Rerun
  PROVE  Promise!Take
<1> DEFINE j == applier.job
<1>0. applier.pc = "ending" /\ j \in Ids BY DEF Rerun, IndInv
<1>1. PICK r \in Row :
        /\ view' = [view EXCEPT ![j] = r]
        /\ view[j].rerun
        /\ r = [view[j] EXCEPT !.rerun = FALSE, !.rerunPayload = {},
                 !.payload = view[j].rerunPayload]
        /\ applier' = [pc |-> "running", job |-> j, payload |-> view[j].rerunPayload,
                       dirty |-> FALSE, failed |-> FALSE]
  BY <1>0, RerunEffect DEF IndInv
<1>2. view = committed BY SameTables DEF Rerun
<1>3. \A i \in Ids : Executing(i)' <=> Executing(i)
  BY <1>0, <1>1 DEF Executing
<1>4. Executing(j) BY <1>0 DEF Executing
<1>5. /\ committed'[j].key = committed[j].key
      /\ ~committed'[j].rerun
  BY <1>0, <1>1, <1>2, Reads DEF Rerun, IndInv, TypeOK, Row
<1>6. \A i \in Ids : i # j => committed'[i] = committed[i]
  BY <1>0, <1>1, <1>2 DEF Rerun, IndInv, TypeOK
<1>7. Running' = {p \in Intents : /\ committed[j].key = p[1]
                                 /\ p[2] \in committed[j].rerunPayload}
  BY <1>0, <1>1, <1>2, <1>3, <1>4, <1>5 DEF Running, Intents, Executing
<1>8. Running' \subseteq Owed BY <1>0, <1>1, <1>2, <1>7 DEF Owed, OwedBy, Intents
<1>9. Owed' \subseteq Owed
  <2> SUFFICES ASSUME NEW k \in JobKeys, NEW x \in Items, NEW i \in Ids, OwedBy(i, k, x)'
               PROVE  OwedBy(i, k, x)
    BY DEF Owed
  <2>1. i # j BY <1>3, <1>4, <1>5 DEF OwedBy
  <2> QED BY <2>1, <1>3, <1>6 DEF OwedBy
<1>10. Owed \ Running' \subseteq Owed'
  <2> SUFFICES ASSUME NEW k \in JobKeys, NEW x \in Items, NEW i \in Ids,
                      OwedBy(i, k, x), <<k, x>> \notin Running'
               PROVE  OwedBy(i, k, x)'
    BY DEF Owed
  <2>1. i # j BY <1>4, <1>7 DEF OwedBy, Intents
  <2> QED BY <2>1, <1>3, <1>6 DEF OwedBy
<1> QED BY <1>8, <1>9, <1>10 DEF Promise!Take

\* A row that ends owes nothing, and nothing is running.
LEMMA FinishFinishes ==
  ASSUME IndInv, Finish
  PROVE  Promise!Finish
<1> DEFINE j == applier.job
<1>0. applier.pc = "ending" /\ j \in Ids BY DEF Finish, IndInv
<1>1. PICK r \in Row, s \in {"failed", "succeeded"} :
        /\ view' = [view EXCEPT ![j] = r]
        /\ ~view[j].rerun
        /\ r = [view[j] EXCEPT !.state = s]
  BY <1>0, FinishEffect DEF IndInv
<1>2. view = committed BY SameTables DEF Finish
<1>3. ~r.rerun /\ r.state \notin Live
  BY <1>0, <1>1, Reads DEF IndInv, Row, Live
<1>4. \A i \in Ids : committed'[i] = IF i = j THEN r ELSE committed[i]
  BY <1>1, <1>2 DEF Finish, IndInv, TypeOK
<1>5. \A i \in Ids : ~Executing(i)' /\ (Executing(i) <=> i = j)
  BY <1>0 DEF Finish, Stopped, Executing
<1>6. ASSUME NEW i \in Ids, NEW k, NEW x PROVE OwedBy(i, k, x)' <=> OwedBy(i, k, x)
  <2>1. CASE i = j BY <2>1, <1>1, <1>2, <1>3, <1>4, <1>5 DEF OwedBy
  <2>2. CASE i # j BY <2>2, <1>4, <1>5 DEF OwedBy
  <2> QED BY <2>1, <2>2
<1>7. Owed' = Owed BY <1>6 DEF Owed
<1>8. Running' = {} BY <1>5 DEF Running
<1> QED BY <1>7, <1>8 DEF Promise!Finish

\* A run that is lost gives back what it had taken.
LEMMA StopAbandons ==
  ASSUME IndInv, ApplierDies \/ Crash
  PROVE  Promise!Abandon
<1>1. committed' = committed /\ \A i \in Ids : ~Executing(i)'
  BY DEF ApplierDies, Crash, Stopped, Executing
<1>2. \A i \in Ids : Executing(i) => /\ committed[i].state \in Live
                                    /\ committed[i].payload = applier.payload
  BY DEF IndInv, RowsInv, Runs, Live
<1>3. Running' = {} BY <1>1 DEF Running
<1>4. Owed' = Owed \cup Running
  <2>1. ASSUME NEW k \in JobKeys, NEW x \in Items, NEW i \in Ids
        PROVE  OwedBy(i, k, x)' <=>
                 \/ OwedBy(i, k, x)
                 \/ Executing(i) /\ committed[i].key = k /\ x \in applier.payload
    BY <1>1, <1>2 DEF OwedBy
  <2> QED BY <2>1 DEF Owed, Running
<1> QED BY <1>3, <1>4 DEF Promise!Abandon

\* Recovery at start() changes nothing of what is owed.
LEMMA StartStutters ==
  ASSUME IndInv, Start
  PROVE  UNCHANGED <<Owed, Running>>
<1>1. \A i \in Ids : ~Executing(i) /\ ~Executing(i)'
  BY DEF Start, Stopped, Executing
<1>2. ASSUME NEW i \in Ids
      PROVE  /\ committed'[i].key = committed[i].key
             /\ committed'[i].payload = committed[i].payload
             /\ committed'[i].rerun = committed[i].rerun
             /\ committed'[i].rerunPayload = committed[i].rerunPayload
             /\ committed'[i].state \in Live <=> committed[i].state \in Live
  <2>1. committed[i] \in Row BY Reads DEF IndInv
  <2> QED BY <2>1 DEF Start, Requeued, Live, Row
<1>3. ASSUME NEW i \in Ids, NEW k, NEW x PROVE OwedBy(i, k, x)' <=> OwedBy(i, k, x)
  BY <1>1, <1>2 DEF OwedBy
<1>4. Owed' = Owed BY <1>3 DEF Owed
<1>5. Running' = {} /\ Running = {} BY <1>1 DEF Running
<1> QED BY <1>4, <1>5

\* The op-log keeps the promise of ReindexIntents: whatever the coalescing, the
\* failures and the crashes, an intent that became durable is owed until a run
\* takes it, and owed again when that run is lost.
THEOREM PromiseHolds == Spec => PromiseKept
<1>1. Init => Promise!Init
  <2> SUFFICES ASSUME Init PROVE Promise!Init OBVIOUS
  <2>1. \A j \in Ids : ~Executing(j) /\ committed[j] = NoRow
    BY DEF Init, Stopped, Executing
  <2> QED BY <2>1 DEF Promise!Init, Owed, OwedBy, Running, NoRow, Live
<1>2. IndInv /\ [Next]_vars => [Promise!Next]_(Promise!vars)
  <2> SUFFICES ASSUME IndInv, [Next]_vars
               PROVE  Promise!Next \/ UNCHANGED <<Owed, Running>>
    BY DEF Promise!vars
  <2>1. CASE UNCHANGED vars
    BY <2>1 DEF vars, Owed, OwedBy, Running, Executing
  <2>2. CASE Crash BY <2>2, StopAbandons DEF Promise!Next
  <2>3. CASE ApplierStep
    <3>1. CASE Start BY <3>1, StartStutters
    <3>2. CASE Claim BY <3>2, ClaimTakes DEF Promise!Next
    <3>3. CASE Write \/ CommitBatch \/ Return \/ Raise
      <4>1. committed' \in {view, committed} /\ applier'.payload = applier.payload
            /\ \A j \in Ids : Executing(j)' <=> Executing(j)
        BY <3>3 DEF Write, CommitBatch, Return, Raise, IndInv, TypeOK, Executing
      <4> QED BY <4>1, CommitAccepts DEF Promise!Next
    <3>4. CASE Rerun BY <3>4, RerunTakes DEF Promise!Next
    <3>5. CASE Finish BY <3>5, FinishFinishes DEF Promise!Next
    <3>6. CASE ApplierDies BY <3>6, StopAbandons DEF Promise!Next
    <3> QED BY <2>3, <3>1, <3>2, <3>3, <3>4, <3>5, <3>6 DEF ApplierStep
  <2>4. ASSUME NEW c \in Callers, Enqueue(c) PROVE Promise!Next
    <3>1. committed' \in {view, committed} /\ applier' = applier
      BY <2>4 DEF Enqueue, EnqueueBegin, EnqueueRejected, MatchQueued, MergeIntoQueued,
                  FlagRerun, InsertRow, EnqueueAborts, EnqueueReply, Written
    <3> QED BY <3>1, CommitAccepts DEF Promise!Next, Executing
  <2> QED BY <2>1, <2>2, <2>3, <2>4 DEF Next
<1> QED BY <1>1, <1>2, Invariance, PTL DEF Spec, PromiseKept, Promise!Spec
-----------------------------------------------------------------------------
(***************************************************************************)
(* The answer 202.  What a caller has written but not yet committed is in  *)
(* the view, until an executing job rolls the connection back.             *)
(***************************************************************************)
HeldBy(row, k, i) ==
  /\ row.key = k
  /\ \/ row.state = "queued" /\ i \in row.payload
     \/ row.rerun /\ i \in row.rerunPayload

WrittenIsHeld ==
  \A c \in Callers : caller[c].pc = "written" =>
    \A i \in caller[c].items : \E j \in Ids : HeldBy(view[j], caller[c].key, i)

LEMMA WritingHolds ==
  ASSUME IndInv, NEW c \in Callers, caller[c].pc = "begun",
         MatchQueued(c) \/ MergeIntoQueued(c) \/ FlagRerun(c) \/ InsertRow(c)
  PROVE  WrittenIsHeld'
<1> DEFINE k == caller[c].key
           S == caller[c].items
<1>1. caller' = [caller EXCEPT ![c].pc = "written"]
  BY DEF MatchQueued, MergeIntoQueued, FlagRerun, InsertRow, Written
<1>2. lock = c /\ k \in JobKeys /\ S \in Requests(k) BY DEF IndInv, LockInv
<1>3. \A d \in Callers : caller'[d].pc = "written" => d = c
  BY <1>1, <1>2 DEF IndInv, TypeOK, LockInv
<1>4. caller'[c].key = k /\ caller'[c].items = S
  BY <1>1 DEF IndInv, TypeOK
<1>5. \A i \in S : \E j \in Ids : HeldBy(view'[j], k, i)
  <2>1. CASE MatchQueued(c)
    <3>1. k \in JobKeys \ PathKeys /\ S = {Whole} /\ view' = view
      BY <2>1, <1>2 DEF MatchQueued, Requests
    <3>2. PICK j \in Ids : view[j].key = k /\ view[j].state = "queued"
      BY <2>1 DEF MatchQueued, RowsOf
    <3>3. view[j].payload = {Whole} BY <3>1, <3>2 DEF IndInv, RowsInv, WholeRows
    <3> QED BY <3>1, <3>2, <3>3 DEF HeldBy
  <2>2. CASE MergeIntoQueued(c)
    <3>1. PICK j \in Ids, r \in Row :
            /\ Written(c, [view EXCEPT ![j] = r])
            /\ view[j].key = k /\ view[j].state = "queued"
            /\ r = [view[j] EXCEPT !.payload = view[j].payload \cup S]
      BY <2>2, MergeEffect DEF IndInv
    <3>2. view'[j] = r BY <3>1 DEF Written, IndInv, TypeOK
    <3>3. r.key = k /\ r.state = "queued" /\ S \subseteq r.payload
      BY <3>1, Reads DEF IndInv, Row
    <3> QED BY <3>2, <3>3 DEF HeldBy
  <2>3. CASE FlagRerun(c)
    <3>1. PICK j \in Ids, T \in SUBSET Items, r \in Row :
            /\ Written(c, [view EXCEPT ![j] = r])
            /\ view[j].key = k /\ view[j].state = "processing"
            /\ T = IF k \in PathKeys THEN view[j].rerunPayload \cup S ELSE S
            /\ r = [view[j] EXCEPT !.rerun = TRUE, !.rerunPayload = T]
      BY <2>3, FlagEffect DEF IndInv
    <3>2. view'[j] = r BY <3>1 DEF Written, IndInv, TypeOK
    <3>3. r.key = k /\ r.rerun /\ S \subseteq r.rerunPayload
      BY <3>1, Reads DEF IndInv, Row
    <3> QED BY <3>2, <3>3 DEF HeldBy
  <2>4. CASE InsertRow(c)
    <3>1. PICK j \in Ids, r \in Row :
            /\ Written(c, [view EXCEPT ![j] = r])
            /\ r = QueuedRow(k, S)
      BY <2>4, InsertEffect DEF IndInv
    <3>2. view'[j] = r BY <3>1 DEF Written, IndInv, TypeOK
    <3> QED BY <3>1, <3>2 DEF HeldBy, QueuedRow
  <2> QED BY <2>1, <2>2, <2>3, <2>4
<1> QED BY <1>3, <1>4, <1>5 DEF WrittenIsHeld

LEMMA HoldingKept ==
  ASSUME IndInv, WrittenIsHeld, [Next]_vars
  PROVE  WrittenIsHeld'
<1>1. CASE /\ view' = view
           /\ \A c \in Callers : caller'[c].pc = "written" => caller'[c] = caller[c]
  BY <1>1 DEF WrittenIsHeld, HeldBy
<1>2. CASE \A c \in Callers : caller'[c].pc # "written"
  BY <1>2 DEF WrittenIsHeld
<1>3. CASE UNCHANGED vars BY <1>1, <1>3 DEF vars
<1>4. CASE Crash BY <1>2, <1>4 DEF Crash, Idle
<1>5. CASE ApplierStep
  <2>1. CASE Start
    <3>1. \A c \in Callers : caller'[c].pc = "idle" BY <2>1 DEF Start, IndInv, LockInv
    <3> QED BY <3>1, <1>2
  <2>2. CASE Claim \/ Rerun \/ Finish
    <3>1. lock = NoOne /\ caller' = caller BY <2>2 DEF Claim, Rerun, Finish
    <3> QED BY <3>1, <1>2, LockFree
  <2>3. CASE Write \/ CommitBatch \/ Return \/ ApplierDies
    BY <1>1, <2>3 DEF Write, CommitBatch, Return, ApplierDies
  <2>4. CASE Raise
    <3>1. CASE UNCHANGED <<view, caller>> BY <3>1, <1>1
    <3>2. CASE /\ view' = committed
               /\ caller' = [c \in Callers |-> IF caller[c].pc = "written" /\ view # committed
                                             THEN [caller[c] EXCEPT !.pc = "undone"]
                                             ELSE caller[c]]
      <4>1. CASE view = committed BY <1>1, <3>2, <4>1
      <4>2. CASE view # committed
        <5>1. ASSUME NEW c \in Callers PROVE caller'[c].pc # "written"
          <6>1. caller[c].pc = "written" => caller'[c] = [caller[c] EXCEPT !.pc = "undone"]
            BY <3>2, <4>2
          <6>2. caller[c].pc # "written" => caller'[c] = caller[c]
            BY <3>2
          <6>3. [caller[c] EXCEPT !.pc = "undone"].pc = "undone"
            BY DEF IndInv, TypeOK
          <6> QED BY <6>1, <6>2, <6>3
        <5> QED BY <1>2, <5>1
      <4> QED BY <4>1, <4>2
    <3> QED BY <2>4, <3>1, <3>2 DEF Raise
  <2> QED BY <1>5, <2>1, <2>2, <2>3, <2>4 DEF ApplierStep
<1>6. ASSUME NEW c \in Callers, Enqueue(c) PROVE WrittenIsHeld'
  <2>1. CASE MatchQueued(c) \/ MergeIntoQueued(c) \/ FlagRerun(c) \/ InsertRow(c)
    BY <2>1, WritingHolds DEF MatchQueued, MergeIntoQueued, FlagRerun, InsertRow
  <2>2. CASE \/ \E k \in JobKeys : \E S \in Requests(k) : EnqueueBegin(c, k, S)
             \/ EnqueueRejected(c) \/ EnqueueAborts(c) \/ EnqueueReply(c)
    <3>1. view' = view
          /\ \A d \in Callers : caller'[d].pc = "written" => caller'[d] = caller[d]
      BY <2>2 DEF EnqueueBegin, EnqueueRejected, EnqueueAborts, EnqueueReply, Idle,
                  IndInv, TypeOK
    <3> QED BY <3>1, <1>1
  <2> QED BY <1>6, <2>1, <2>2 DEF Enqueue
<1> QED BY <1>3, <1>4, <1>5, <1>6 DEF Next

\* Whatever a request was told is accepted is owed, durably, at that moment, unless
\* a failing job rolled back what the request had written: whichever way jobs raise.
THEOREM AcceptanceIsOwed == Spec => AcceptedIsOwedUnlessUndone
<1>1. Init => WrittenIsHeld BY DEF Init, Idle, WrittenIsHeld
<1>2. WrittenIsHeld /\ IndInv /\ [Next]_vars => WrittenIsHeld' BY HoldingKept
<1>3. WrittenIsHeld /\ IndInv /\ [Next]_vars =>
        [\A c \in Callers :
           Accepts(c) /\ caller[c].pc # "undone"
             => Asked(c) \subseteq Owed']_vars
  <2> SUFFICES ASSUME WrittenIsHeld, IndInv, Next, NEW c \in Callers,
                      caller[c].pc # "idle", caller[c].pc # "undone",
                      caller'[c].reply = "accepted"
               PROVE  Asked(c) \subseteq Owed'
    BY DEF Accepts
  <2> DEFINE k == caller[c].key
  <2>1. EnqueueReply(c)
    <3>1. lock = c /\ applier.pc # "down" /\ caller[c].reply = "none"
      BY DEF IndInv, LockInv
    <3>2. caller'[c] # caller[c] BY <3>1
    <3>3. ~Crash BY DEF Crash, Idle
    <3>4. ~ApplierStep
      <4>1. ~Raise
        <5>1. [caller[c] EXCEPT !.pc = "undone"].reply = caller[c].reply
          BY DEF IndInv, TypeOK
        <5> QED BY <3>1, <3>2, <5>1, RaiseSpares DEF IndInv
      <4> QED BY <3>1, <3>2, <4>1 DEF ApplierStep, Start, Claim, Write, CommitBatch, Return,
                                      Rerun, Finish, ApplierDies
    <3>5. PICK d \in Callers : Enqueue(d) BY <3>3, <3>4 DEF Next
    <3>6. d = c
      <4>1. d # c => caller'[c] = caller[c]
        BY <3>5
           DEF Enqueue, EnqueueBegin, EnqueueRejected, MatchQueued, MergeIntoQueued,
               FlagRerun, InsertRow, EnqueueAborts, EnqueueReply, Written,
               IndInv, TypeOK
      <4> QED BY <3>2, <4>1
    <3>7. ~EnqueueRejected(c) /\ ~EnqueueAborts(c)
      BY DEF EnqueueRejected, EnqueueAborts, Idle, IndInv, TypeOK
    <3>8. ~(\E q \in JobKeys : \E S \in Requests(q) : EnqueueBegin(c, q, S))
      BY DEF EnqueueBegin
    <3>9. ASSUME MatchQueued(c) \/ MergeIntoQueued(c) \/ FlagRerun(c) \/ InsertRow(c)
          PROVE  FALSE
      <4>1. caller' = [caller EXCEPT ![c].pc = "written"]
        BY <3>9 DEF MatchQueued, MergeIntoQueued, FlagRerun, InsertRow, Written
      <4>2. caller'[c].reply = caller[c].reply BY <4>1 DEF IndInv, TypeOK
      <4> QED BY <3>1, <4>2
    <3> QED BY <3>5, <3>6, <3>7, <3>8, <3>9 DEF Enqueue
  <2>2. committed' = view /\ applier' = applier BY <2>1 DEF EnqueueReply
  <2>3. k \in JobKeys /\ caller[c].items \subseteq Items
    BY Reads DEF IndInv, LockInv
  <2>4. ASSUME NEW i \in caller[c].items, NEW q \in JobKeys, q = k
        PROVE  <<q, i>> \in Owed'
    <3>0. caller[c].pc = "written" BY <2>1 DEF EnqueueReply
    <3>1. PICK j \in Ids : HeldBy(view[j], q, i) BY <2>4, <3>0 DEF WrittenIsHeld
    <3>2. Executing(j)' => committed'[j].state = "processing"
      BY <2>2 DEF Executing, IndInv, RowsInv, Runs
    <3>3. OwedBy(j, q, i)' BY <2>2, <3>1, <3>2 DEF HeldBy, OwedBy, Live
    <3> QED BY <2>3, <3>3 DEF Owed
  <2> QED BY <2>3, <2>4 DEF Asked
<1> QED BY <1>1, <1>2, <1>3, Invariance, PTL DEF Spec, AcceptedIsOwedUnlessUndone
=============================================================================
