------------------------------ MODULE QueryLog ------------------------------
(***************************************************************************)
(* The log of recall queries (usage.py): /api/boot puts a row on a bounded *)
(* queue and one thread stores the queue in batches on its own connection, *)
(* competing for the writer's lock with the reindex.  Logging is best      *)
(* effort: a full queue drops the row, a failed batch is dropped whole.    *)
(* Where no thread runs, a boot stores its row on the served connection;   *)
(* the tools always do, what they log and the labels of results read back. *)
(***************************************************************************)
EXTENDS Naturals, Sequences, SequencesExt

CONSTANTS
    Rows,         \* what is logged: a query with its results, or a label
    BadRows,      \* of these, rows with a number SQLite cannot hold
    QueueMax,     \* _QUERYLOG_QUEUE_MAX
    BatchMax      \* _QUERYLOG_BATCH_MAX

ASSUME QueryLogAssumption ==
    BadRows \subseteq Rows /\ QueueMax \in Nat \ {0} /\ BatchMax \in Nat \ {0}

VARIABLES
    fresh,      \* rows not logged yet
    pending,    \* the queue
    thread,     \* the writer: "off", "idle", "batch" or "ended"
    stopping,   \* the stop event
    batch,      \* what the writer took and has not inserted
    calling,    \* who logs on the served connection: "boot" and "tool"
    inserted,   \* rows of the open transaction of each connection
    stored,     \* rows committed
    lock,       \* the writer's lock of the database
    reindex     \* the other writer: "idle", "waits" or "txn"

queryLogVars ==
    <<fresh, pending, thread, stopping, batch, calling, inserted, stored, lock, reindex>>

QueryLogInit ==
    /\ fresh = Rows /\ pending = <<>> /\ thread = "off" /\ stopping = FALSE
    /\ batch = <<>> /\ calling = {} /\ inserted = [c \in {"log", "served"} |-> {}] /\ stored = {}
    /\ lock = "none" /\ reindex = "idle"

Alive == thread \in {"idle", "batch"}

\* start_query_log_writer, in the lifespan
StartWriter ==
    /\ thread = "off" /\ thread' = "idle"
    /\ UNCHANGED <<fresh, pending, stopping, batch, calling, inserted, stored, lock, reindex>>

\* stop_query_log_writer, when the server shuts down
StopWriter ==
    /\ Alive /\ stopping' = TRUE
    /\ UNCHANGED <<fresh, pending, thread, batch, calling, inserted, stored, lock, reindex>>

\* enqueue_pointer_query while the writer runs: put_nowait, or drop
Enqueue(row) ==
    /\ Alive /\ ~stopping /\ row \in fresh
    /\ fresh' = fresh \ {row}
    /\ pending' = IF Len(pending) < QueueMax THEN Append(pending, row) ELSE pending
    /\ UNCHANGED <<thread, stopping, batch, calling, inserted, stored, lock, reindex>>

\* _run: one row waited for, then what else is there
TakeBatch ==
    /\ thread = "idle" /\ pending # <<>>
    /\ \E n \in 1..Len(pending) :
          /\ n <= BatchMax
          /\ batch' = SubSeq(pending, 1, n)
          /\ pending' = SubSeq(pending, n + 1, Len(pending))
    /\ thread' = "batch"
    /\ UNCHANGED <<fresh, stopping, calling, inserted, stored, lock, reindex>>

ExitWriter ==
    /\ thread = "idle" /\ pending = <<>> /\ stopping
    /\ thread' = "ended"
    /\ UNCHANGED <<fresh, pending, stopping, batch, calling, inserted, stored, lock, reindex>>

\* The first statement of a transaction takes the writer's lock.
Insert(conn, row) ==
    /\ lock \in {"none", conn} /\ row \notin BadRows
    /\ lock' = conn
    /\ inserted' = [inserted EXCEPT ![conn] = @ \cup {row}]

InsertRow ==
    /\ thread = "batch" /\ batch # <<>>
    /\ Insert("log", Head(batch)) /\ batch' = Tail(batch)
    /\ UNCHANGED <<fresh, pending, thread, stopping, calling, stored, reindex>>

\* commit of one connection
Stores(conn) ==
    /\ stored' = stored \cup inserted[conn]
    /\ inserted' = [inserted EXCEPT ![conn] = {}]
    /\ lock' = IF lock = conn THEN "none" ELSE lock

\* mutant: the failed batch is dropped and its transaction left open
DiscardsLater(conn) == UNCHANGED <<inserted, lock>>

\* rollback of one connection
Discards(conn) ==
    /\ inserted' = [inserted EXCEPT ![conn] = {}]
    /\ lock' = IF lock = conn THEN "none" ELSE lock

CommitBatch ==
    /\ thread = "batch" /\ batch = <<>>
    /\ Stores("log") /\ thread' = "idle"
    /\ UNCHANGED <<fresh, pending, stopping, batch, calling, reindex>>

\* any sqlite3.Error at any statement: busy past the short timeout, a full disk
DropBatch ==
    /\ thread = "batch"
    /\ Discards("log") /\ batch' = <<>> /\ thread' = "idle"
    /\ UNCHANGED <<fresh, pending, stopping, calling, stored, reindex>>

\* an OverflowError is no sqlite3.Error: _run closes the connection and ends
WriterDies ==
    /\ thread = "batch" /\ batch # <<>> /\ Head(batch) \in BadRows
    /\ Discards("log") /\ batch' = <<>> /\ thread' = "ended"
    /\ UNCHANGED <<fresh, pending, stopping, calling, stored, reindex>>

\* _insert_pointer_query of a boot, where no thread runs; log_query and
\* mark_result_used of a tool.  What the connection has open takes it in.
LogDirect(by, row) ==
    /\ by \notin calling /\ row \in fresh /\ (by = "boot" => ~Alive)
    /\ Insert("served", row)
    /\ calling' = calling \cup {by} /\ fresh' = fresh \ {row}
    /\ UNCHANGED <<pending, thread, stopping, batch, stored, reindex>>

CommitDirect(by) ==
    /\ by \in calling /\ calling' = calling \ {by}
    /\ Stores("served")
    /\ UNCHANGED <<fresh, pending, thread, stopping, batch, reindex>>

\* A later insert or the commit fails.  log_pointer_query rolls back; the tools
\* swallow the error and leave the transaction as it is.
FailDirect(by) ==
    /\ by \in calling /\ calling' = calling \ {by}
    /\ IF by = "boot" THEN Discards("served") ELSE UNCHANGED <<inserted, lock>>
    /\ UNCHANGED <<fresh, pending, thread, stopping, batch, stored, reindex>>

EndDirect == \E by \in calling : CommitDirect(by) \/ FailDirect(by)

\* The first insert fails: busy past its timeout, or a row that cannot be bound.
MissDirect(by, row) ==
    /\ by \notin calling /\ row \in fresh /\ (by = "boot" => ~Alive)
    /\ fresh' = fresh \ {row}
    /\ IF by = "boot" THEN Discards("served") ELSE UNCHANGED <<inserted, lock>>
    /\ UNCHANGED <<pending, thread, stopping, batch, calling, stored, reindex>>

\* any other write on the served connection ends what is open there
OtherWrite ==
    /\ inserted["served"] # {}
    /\ Stores("served") \/ (Discards("served") /\ UNCHANGED stored)
    /\ UNCHANGED <<fresh, pending, thread, stopping, batch, calling, reindex>>

ReindexWants ==
    /\ reindex = "idle" /\ reindex' = "waits"
    /\ UNCHANGED <<fresh, pending, thread, stopping, batch, calling, inserted, stored, lock>>

ReindexBegins ==
    /\ reindex = "waits" /\ lock = "none"
    /\ reindex' = "txn" /\ lock' = "index"
    /\ UNCHANGED <<fresh, pending, thread, stopping, batch, calling, inserted, stored>>

ReindexEnds ==
    /\ reindex = "txn" /\ reindex' = "idle" /\ lock' = "none"
    /\ UNCHANGED <<fresh, pending, thread, stopping, batch, calling, inserted, stored>>

WriterSteps ==
    TakeBatch \/ ExitWriter \/ InsertRow \/ CommitBatch \/ DropBatch \/ WriterDies

QueryLogNext ==
    \/ StartWriter \/ StopWriter \/ WriterSteps \/ EndDirect \/ OtherWrite
    \/ \E row \in Rows : Enqueue(row)
    \/ \E by \in {"boot", "tool"}, row \in Rows : LogDirect(by, row) \/ MissDirect(by, row)
    \/ ReindexWants \/ ReindexBegins \/ ReindexEnds

(***************************************************************************)
(* Properties.                                                             *)
(***************************************************************************)

\* what a tool left open when its logging failed
LeftOpen == calling = {} /\ inserted["served"] # {}

\* Logging keeps no write lock: whatever fails between the inserts of a row or a
\* batch, the reindex gets the lock in the end (incident 35c0631e: a swallowed
\* error left the transaction open, and every writer met "database is locked").
\* The one thing that keeps it out is the transaction a failed log of a tool left
\* open, for as long as nothing else is written on the served connection.
ReindexGetsTheLock == reindex = "waits" ~> (reindex = "txn" \/ []LeftOpen)

\* "Always release it" (usage.py:343), of the tools' logging too.
ToolsReleaseTheLock == reindex = "waits" ~> reindex = "txn"

\* "the hot path never takes that branch" (usage.py:450): while the server runs
\* the writer runs.  A row the driver refuses with anything but a sqlite3.Error
\* ends the thread for good, and every later boot writes on the event loop.
WriterSurvives == thread = "ended" => stopping
=============================================================================
