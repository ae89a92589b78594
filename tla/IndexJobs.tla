----------------------------- MODULE IndexJobs -----------------------------
(***************************************************************************)
(* The reindex op-log (src/trovex/index_jobs.py): enqueue() coalesces a    *)
(* request into the index_jobs table, and the single Applier thread claims *)
(* a row, executes it, and either runs it again or finishes it.            *)
(*                                                                         *)
(* Both sides use ONE sqlite connection, indexer.db.  index_jobs_lock      *)
(* orders enqueue()'s transaction with the Applier's claim and finish      *)
(* transactions, but an executing job writes, commits and rolls back on    *)
(* that connection WITHOUT the lock, so its transactions and those of      *)
(* enqueue() are the same transaction.  `committed' is the table on disk,  *)
(* `view' what the connection sees, `inTxn' is connection.in_transaction.  *)
(*                                                                         *)
(* A row's number stands for both its id and its seq: rows are never       *)
(* deleted, so the two grow together.                                      *)
(***************************************************************************)
EXTENDS Naturals, FiniteSets

CONSTANTS
  Callers,       \* request threads that call enqueue()
  JobKeys,       \* the (kind, source_key) pairs requests carry
  PathKeys,      \* those of kind 'paths', whose payloads are unioned
  Paths,         \* what a 'paths' request names
  Whole,         \* the one thing a request of another kind asks for
  NoKey, NoOne,
  MaxRows,       \* bound on the rows ever inserted
  MaxCrashes,    \* bound on process crashes
  FailureModes,  \* how a job of each key may raise, see Raise
  ForeignWriter  \* may another writer hold SQLite's lock past busy_timeout?

ASSUME ConstantsAssumption ==
  /\ PathKeys \subseteq JobKeys
  /\ NoKey \notin JobKeys
  /\ NoOne \notin Callers
  /\ MaxRows \in Nat
  /\ MaxCrashes \in Nat
  /\ FailureModes \in [JobKeys -> SUBSET {"clean", "rollback", "leak"}]
  /\ ForeignWriter \in BOOLEAN

VARIABLES
  committed,  \* index_jobs, durable
  view,       \* index_jobs as the shared connection sees it
  inTxn,      \* the shared connection has a transaction open
  lock,       \* holder of index_jobs_lock between two steps
  caller,     \* per request thread: where it is in enqueue(), with what
  applier,    \* the Applier thread
  crashes     \* crashes so far

vars == <<committed, view, inTxn, lock, caller, applier, crashes>>

Ids == 1..MaxRows

Items == Paths \cup {Whole}

\* What one request of key k can ask for.
Requests(k) == IF k \in PathKeys THEN (SUBSET Paths) \ {{}} ELSE {{Whole}}

Row == [key : JobKeys \cup {NoKey},
        state : {"absent", "queued", "processing", "succeeded", "failed"},
        payload : SUBSET Items, rerun : BOOLEAN, rerunPayload : SUBSET Items]

NoRow == [key |-> NoKey, state |-> "absent", payload |-> {},
          rerun |-> FALSE, rerunPayload |-> {}]

QueuedRow(k, S) == [key |-> k, state |-> "queued", payload |-> S,
                    rerun |-> FALSE, rerunPayload |-> {}]

Idle(reply) == [pc |-> "idle", key |-> NoKey, items |-> {}, reply |-> reply]

Stopped(pc) == [pc |-> pc, job |-> 0, payload |-> {},
                dirty |-> FALSE, failed |-> FALSE]

Live == {"queued", "processing"}

RowsOf(rows, k, s) == {j \in Ids : rows[j].key = k /\ rows[j].state = s}

InState(rows, s) == {j \in Ids : rows[j].state = s}

\* The next seq: above every row there is.
NextIds(rows) ==
  {j \in Ids : \A i \in Ids : rows[i].state = "absent" <=> i >= j}

\* Bound: a request is only made when its row would fit in 1..MaxRows.
HasRoom(rows, k) ==
  NextIds(rows) \cup RowsOf(rows, k, "queued") \cup RowsOf(rows, k, "processing") # {}

Init ==
  /\ committed = [j \in Ids |-> NoRow]
  /\ view = committed
  /\ inTxn = FALSE
  /\ lock = NoOne
  /\ caller = [c \in Callers |-> Idle("none")]
  /\ applier = Stopped("down")
  /\ crashes = 0
-----------------------------------------------------------------------------
(***************************************************************************)
(* enqueue(), on a request thread, under index_jobs_lock.                  *)
(***************************************************************************)

\* BEGIN IMMEDIATE succeeds only on a connection with no transaction open.
EnqueueBegin(c, k, S) ==
  /\ applier.pc # "down"
  /\ caller[c].pc = "idle"
  /\ lock = NoOne
  /\ ~inTxn
  /\ HasRoom(view, k)
  /\ inTxn' = TRUE
  /\ lock' = c
  /\ caller' = [caller EXCEPT ![c] =
                  [pc |-> "begun", key |-> k, items |-> S, reply |-> "none"]]
  /\ UNCHANGED <<committed, view, applier, crashes>>

\* It raises inside the transaction an executing job has open on the same
\* connection, or when the lock stays taken past busy_timeout; the statement
\* is before the try, so nothing is rolled back and the request is an error.
EnqueueRejected(c) ==
  /\ applier.pc # "down"
  /\ caller[c].pc = "idle"
  /\ lock = NoOne
  /\ inTxn \/ ForeignWriter
  /\ caller' = [caller EXCEPT ![c] = Idle("rejected")]
  /\ UNCHANGED <<committed, view, inTxn, lock, applier, crashes>>

\* What a statement of enqueue() leaves: it opens a transaction of its own if
\* the one BEGIN IMMEDIATE opened was ended by an executing job meanwhile.
Written(c, rows) ==
  /\ view' = rows
  /\ inTxn' = TRUE
  /\ caller' = [caller EXCEPT ![c].pc = "written"]
  /\ UNCHANGED <<committed, lock, applier, crashes>>

\* A queued match stands for the request, as it is...
MatchQueued(c) ==
  LET k == caller[c].key IN
  /\ caller[c].pc = "begun"
  /\ k \notin PathKeys
  /\ RowsOf(view, k, "queued") # {}
  /\ caller' = [caller EXCEPT ![c].pc = "written"]
  /\ UNCHANGED <<committed, view, inTxn, lock, applier, crashes>>

\* ... or with the request's paths added to its own.
MergeIntoQueued(c) ==
  LET k == caller[c].key IN
  /\ caller[c].pc = "begun"
  /\ k \in PathKeys
  /\ \E j \in RowsOf(view, k, "queued") :
       Written(c, [view EXCEPT ![j].payload = @ \cup caller[c].items])

\* A processing match is flagged to run again.
FlagRerunDropsEarlier(c) ==   \* mutant
  LET k == caller[c].key IN
  /\ caller[c].pc = "begun"
  /\ RowsOf(view, k, "queued") = {}
  /\ \E j \in RowsOf(view, k, "processing") :
       Written(c, [view EXCEPT ![j].rerun = TRUE,
                               ![j].rerunPayload = caller[c].items])

FlagRerun(c) ==
  LET k == caller[c].key IN
  /\ caller[c].pc = "begun"
  /\ RowsOf(view, k, "queued") = {}
  /\ \E j \in RowsOf(view, k, "processing") :
       Written(c, [view EXCEPT
         ![j].rerun = TRUE,
         ![j].rerunPayload =
            IF k \in PathKeys THEN @ \cup caller[c].items ELSE caller[c].items])

\* No live match: a fresh row at the tail.
InsertBesideProcessing(c) ==   \* mutant
  LET k == caller[c].key IN
  /\ caller[c].pc = "begun"
  /\ RowsOf(view, k, "queued") = {}
  /\ \E j \in NextIds(view) :
       Written(c, [view EXCEPT ![j] = QueuedRow(k, caller[c].items)])

InsertRow(c) ==
  LET k == caller[c].key IN
  /\ caller[c].pc = "begun"
  /\ RowsOf(view, k, "queued") = {}
  /\ RowsOf(view, k, "processing") = {}
  /\ \E j \in NextIds(view) :
       Written(c, [view EXCEPT ![j] = QueuedRow(k, caller[c].items)])

\* The except branch: the job ended the transaction of BEGIN IMMEDIATE, and the
\* statement that has to open another one meets a foreign writer.
EnqueueAborts(c) ==
  /\ caller[c].pc = "begun"
  /\ ~inTxn
  /\ ForeignWriter
  /\ lock' = NoOne
  /\ caller' = [caller EXCEPT ![c] = Idle("rejected")]
  /\ UNCHANGED <<committed, view, inTxn, applier, crashes>>

\* commit() ends whatever transaction the connection has; the reply follows.
EnqueueReplyUncommitted(c) ==   \* mutant
  /\ caller[c].pc \in {"written", "undone"}
  /\ lock' = NoOne
  /\ caller' = [caller EXCEPT ![c] = Idle("accepted")]
  /\ UNCHANGED <<committed, view, inTxn, applier, crashes>>

EnqueueReply(c) ==
  /\ caller[c].pc \in {"written", "undone"}
  /\ committed' = view
  /\ inTxn' = FALSE
  /\ lock' = NoOne
  /\ caller' = [caller EXCEPT ![c] = Idle("accepted")]
  /\ UNCHANGED <<view, applier, crashes>>

Enqueue(c) ==
  \/ \E k \in JobKeys : \E S \in Requests(k) : EnqueueBegin(c, k, S)
  \/ EnqueueRejected(c)
  \/ MatchQueued(c)
  \/ MergeIntoQueued(c)
  \/ FlagRerun(c)
  \/ InsertRow(c)
  \/ EnqueueAborts(c)
  \/ EnqueueReply(c)
-----------------------------------------------------------------------------
(***************************************************************************)
(* The Applier thread.  Claiming and finishing hold index_jobs_lock from   *)
(* BEGIN IMMEDIATE to commit, so nobody else can use the connection in     *)
(* between and each is one step.                                           *)
(***************************************************************************)

\* Mutant: a recovered row forgets that it was to run again.
RequeuedFresh(rows) ==
  [j \in Ids |-> IF rows[j].state = "processing"
                 THEN [rows[j] EXCEPT !.state = "queued", !.rerun = FALSE]
                 ELSE rows[j]]

Requeued(rows) ==
  [j \in Ids |-> IF rows[j].state = "processing"
                 THEN [rows[j] EXCEPT !.state = "queued"] ELSE rows[j]]

\* start() in a new process: the rows a crash left 'processing' are queued again.
Start ==
  /\ applier.pc = "down"
  /\ committed' = Requeued(committed)
  /\ view' = committed'
  /\ applier' = Stopped("polling")
  /\ UNCHANGED <<inTxn, lock, caller, crashes>>

\* _claim_next(): the queued row of the lowest seq.
Claim ==
  /\ applier.pc = "polling"
  /\ lock = NoOne
  /\ ~inTxn
  /\ \E j \in InState(view, "queued") :
       /\ \A i \in InState(view, "queued") : j <= i
       /\ view' = [view EXCEPT ![j].state = "processing"]
       /\ applier' = [Stopped("running") EXCEPT !.job = j,
                                                !.payload = view[j].payload]
  /\ committed' = view'
  /\ UNCHANGED <<inTxn, lock, caller, crashes>>

\* A batch of document writes: the first statement opens a transaction.
Write ==
  /\ applier.pc = "running"
  /\ inTxn' = TRUE
  /\ applier' = [applier EXCEPT !.dirty = TRUE]
  /\ UNCHANGED <<committed, view, lock, caller, crashes>>

\* A batch is committed, with whatever else the connection's transaction holds.
CommitBatch ==
  /\ applier.pc = "running"
  /\ applier.dirty
  /\ committed' = view
  /\ inTxn' = FALSE
  /\ applier' = [applier EXCEPT !.dirty = FALSE]
  /\ UNCHANGED <<view, lock, caller, crashes>>

\* The job returns; its last statement is a commit.
Return ==
  /\ applier.pc = "running"
  /\ committed' = view
  /\ inTxn' = FALSE
  /\ applier' = [applier EXCEPT !.pc = "ending", !.dirty = FALSE]
  /\ UNCHANGED <<view, lock, caller, crashes>>

\* The job raises
\*   "clean":    with no write of its own pending (an unknown source, the
\*               embedder, sweep_bloat on its own connection);
\*   "rollback": inside reindex() or reindex_paths(), whose wrapper rolls the
\*               shared connection back;
\*   "leak":     in the middle of the writes of gc_source, compute_status after
\*               it, or rebuild_vec's staging, which nothing rolls back.
\* What a request has written and nobody committed is lost to the rollback; its
\* thread goes on to its commit and its reply ("undone").
Raise ==
  /\ applier.pc = "running"
  /\ applier' = [applier EXCEPT !.pc = "ending", !.dirty = FALSE, !.failed = TRUE]
  /\ \E mode \in FailureModes[view[applier.job].key] :
       \/ /\ mode = "clean"
          /\ ~applier.dirty
          /\ UNCHANGED <<view, inTxn, caller>>
       \/ /\ mode = "rollback"
          /\ view' = committed
          /\ inTxn' = FALSE
          /\ caller' = [c \in Callers |-> IF caller[c].pc = "written" /\ view # committed
                                        THEN [caller[c] EXCEPT !.pc = "undone"]
                                        ELSE caller[c]]
       \/ /\ mode = "leak"
          /\ applier.dirty
          /\ UNCHANGED <<view, inTxn, caller>>
  /\ UNCHANGED <<committed, lock, crashes>>

\* The completion transaction: flagged meanwhile, the same row runs again with
\* the payload collected for the rerun...
RerunKeepsOldPayload ==   \* mutant
  /\ applier.pc = "ending"
  /\ lock = NoOne
  /\ ~inTxn
  /\ LET j == applier.job IN
       /\ view[j].rerun
       /\ view' = [view EXCEPT ![j].rerun = FALSE, ![j].rerunPayload = {}]
       /\ applier' = [Stopped("running") EXCEPT !.job = j,
                                                !.payload = view[j].rerunPayload]
  /\ committed' = view'
  /\ UNCHANGED <<inTxn, lock, caller, crashes>>

Rerun ==
  /\ applier.pc = "ending"
  /\ lock = NoOne
  /\ ~inTxn
  /\ LET j == applier.job IN
       /\ view[j].rerun
       /\ view' = [view EXCEPT ![j].rerun = FALSE, ![j].rerunPayload = {},
                               ![j].payload = view[j].rerunPayload]
       /\ applier' = [Stopped("running") EXCEPT !.job = j,
                                                !.payload = view[j].rerunPayload]
  /\ committed' = view'
  /\ UNCHANGED <<inTxn, lock, caller, crashes>>

\* ... otherwise it ends.

FinishIgnoringRerun ==   \* mutant
  /\ applier.pc = "ending"
  /\ lock = NoOne
  /\ ~inTxn
  /\ view' = [view EXCEPT ![applier.job].state =
                IF applier.failed THEN "failed" ELSE "succeeded"]
  /\ committed' = view'
  /\ applier' = Stopped("polling")
  /\ UNCHANGED <<inTxn, lock, caller, crashes>>

Finish ==
  /\ applier.pc = "ending"
  /\ lock = NoOne
  /\ ~inTxn
  /\ ~view[applier.job].rerun
  /\ view' = [view EXCEPT ![applier.job].state =
                IF applier.failed THEN "failed" ELSE "succeeded"]
  /\ committed' = view'
  /\ applier' = Stopped("polling")
  /\ UNCHANGED <<inTxn, lock, caller, crashes>>

\* BEGIN IMMEDIATE of the claim or of the completion raises: neither _loop nor
\* _run_job catches it, and the thread ends.
ApplierDies ==
  /\ applier.pc \in {"polling", "ending"}
  /\ lock = NoOne
  /\ inTxn \/ ForeignWriter
  /\ applier' = Stopped("dead")
  /\ UNCHANGED <<committed, view, inTxn, lock, caller, crashes>>

\* The process ends: what was not committed is gone, and so are the threads.
Crash ==
  /\ applier.pc # "down"
  /\ crashes < MaxCrashes
  /\ crashes' = crashes + 1
  /\ view' = committed
  /\ inTxn' = FALSE
  /\ lock' = NoOne
  /\ caller' = [c \in Callers |-> Idle("none")]
  /\ applier' = Stopped("down")
  /\ UNCHANGED committed

ApplierStep ==
  Start \/ Claim \/ Write \/ CommitBatch \/ Return \/ Raise
        \/ Rerun \/ Finish \/ ApplierDies

Next == ApplierStep \/ Crash \/ \E c \in Callers : Enqueue(c)

Spec == Init /\ [][Next]_vars

\* A request thread inside enqueue() runs on; a job ends, it does not write for
\* ever; the loop polls every POLL_INTERVAL_SEC; the supervisor restarts a
\* crashed process.  No caller has to call enqueue() and no job has to raise.
Fairness ==
  /\ WF_vars(Start)
  /\ WF_vars(Claim)
  /\ WF_vars(Return \/ Raise)
  /\ WF_vars(Rerun \/ Finish)
  /\ \A c \in Callers : WF_vars(MatchQueued(c) \/ MergeIntoQueued(c)
                                  \/ FlagRerun(c) \/ InsertRow(c)
                                  \/ EnqueueAborts(c) \/ EnqueueReply(c))

FairSpec == Spec /\ Fairness
-----------------------------------------------------------------------------
TypeOK ==
  /\ committed \in [Ids -> Row]
  /\ view \in [Ids -> Row]
  /\ inTxn \in BOOLEAN
  /\ lock \in Callers \cup {NoOne}
  /\ caller \in [Callers -> [pc : {"idle", "begun", "written", "undone"},
                             key : JobKeys \cup {NoKey}, items : SUBSET Items,
                             reply : {"none", "accepted", "rejected"}]]
  /\ applier \in [pc : {"down", "polling", "running", "ending", "dead"},
                  job : Ids \cup {0}, payload : SUBSET Items,
                  dirty : BOOLEAN, failed : BOOLEAN]
  /\ crashes \in 0..MaxCrashes

(***************************************************************************)
(* At most one live row per (kind, source_key): what enqueue() inserts,    *)
(* merges and flags, and what start() queues again, never makes a second   *)
(* one ("Two rows with the same (kind, source_key) never both sit 'queued' *)
(* at once", db.py:1981-1983, and a rerun is never a second row).          *)
(***************************************************************************)
OneLiveRowPerKey ==
  \A i, j \in Ids :
    /\ view[i].state \in Live
    /\ view[j].state \in Live
    /\ view[i].key = view[j].key
    => i = j

Executing(j) == applier.pc \in {"running", "ending"} /\ applier.job = j

(***************************************************************************)
(* The row a crash would find 'processing' is the row being executed, with *)
(* the payload it is being executed with: replaying it after the crash     *)
(* repeats that very run and no other (index_jobs.py:197-201).             *)
(***************************************************************************)
ReplayIsTheRun ==
  \A j \in Ids :
    Executing(j) => /\ committed[j].state = "processing"
                    /\ committed[j].payload = applier.payload

(***************************************************************************)
(* A row that has ended carries no rerun flag, on disk or in the open      *)
(* transaction: the flag is read by the completion transaction only, so a  *)
(* flag on an ended row would be a request nobody ever runs.               *)
(***************************************************************************)
NoFlagOnEndedRow ==
  \A j \in Ids : view[j].rerun => view[j].state \in Live

\* What row j owes its requesters: its payload until a run has it in hand,
\* and what was asked for while it ran.
OwedBy(j, k, i) ==
  /\ committed[j].key = k
  /\ \/ /\ committed[j].state \in Live
        /\ ~Executing(j)
        /\ i \in committed[j].payload
     \/ /\ committed[j].rerun
        /\ i \in committed[j].rerunPayload

Owed == {p \in JobKeys \X Items : \E j \in Ids : OwedBy(j, p[1], p[2])}

Running ==
  {p \in JobKeys \X Items :
     \E j \in Ids : Executing(j) /\ committed[j].key = p[1] /\ p[2] \in applier.payload}

Asked(c) == {<<caller[c].key, i>> : i \in caller[c].items}

(***************************************************************************)
(* The op-log implements the promise of ReindexIntents.                    *)
(***************************************************************************)
Promise == INSTANCE ReindexIntents
             WITH Intents <- JobKeys \X Items, owed <- Owed, running <- Running

PromiseKept == Promise!Spec

(***************************************************************************)
(* The answer 202 tells the truth: whatever the request asked for is owed, *)
(* durably, when it is given (index_jobs.py:14-18).                        *)
(***************************************************************************)
Accepts(c) == caller[c].pc # "idle" /\ caller'[c].reply = "accepted"

AcceptedIsOwed ==
  [][\A c \in Callers : Accepts(c) => Asked(c) \subseteq Owed']_vars

(***************************************************************************)
(* Only a rollback between the request's write and its commit makes it     *)
(* lie: passes that roll back before the write, or after the commit, jobs  *)
(* that commit the row themselves or leave their own writes open, foreign  *)
(* writers and crashes do not.                                             *)
(***************************************************************************)
AcceptedIsOwedUnlessUndone ==
  [][\A c \in Callers :
       Accepts(c) /\ caller[c].pc # "undone" => Asked(c) \subseteq Owed']_vars

(***************************************************************************)
(* Every owed intent is taken by a run, unless new requests keep arriving  *)
(* for ever: a row flagged again in each of its passes keeps the Applier   *)
(* from the rest of the queue.                                             *)
(***************************************************************************)
Quiet == \A c \in Callers : caller[c].pc = "idle"

QueueDrains ==
  \A intent \in JobKeys \X Items :
    <>[]Quiet => (intent \in Owed ~> intent \in Running)

(***************************************************************************)
(* "Two callers hitting this while a run is already in flight never        *)
(* collide on the DB or get a bare rejection" (server.py:1387-1389).       *)
(***************************************************************************)
NoBareRejection == \A c \in Callers : caller[c].reply # "rejected"

(***************************************************************************)
(* "one bad job must never kill the applier thread" (index_jobs.py:255).   *)
(***************************************************************************)
BadJobNeverKillsApplier == applier.pc # "dead"

(***************************************************************************)
(* A pass that raised is not forgotten: the row ends 'failed', or what it  *)
(* was to do is part of the rerun (index_jobs.py:14-18).                   *)
(***************************************************************************)
FailedPassNotForgotten ==
  [][applier.pc = "ending" /\ applier.failed /\ applier'.pc = "running"
       => applier.payload \subseteq applier'.payload]_vars
=============================================================================
