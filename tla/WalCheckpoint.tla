--------------------------- MODULE WalCheckpoint ---------------------------
(***************************************************************************)
(* The write-ahead log of the store and what keeps it small (db.py): the   *)
(* PASSIVE backstop after every commit and the periodic tick, which may    *)
(* TRUNCATE.  The tick runs on the connection of the Store, so while it    *)
(* waits for a lock the Store's writes wait for the connection.            *)
(*                                                                         *)
(* SQLite is external: a reader that starts when the whole log is in the   *)
(* database reads the database alone (mark 0), any other pins the frame it *)
(* started at; a checkpoint copies no frame past the oldest mark, and none *)
(* while a mark-0 reader is on; TRUNCATE takes the writer's lock and waits *)
(* for every reader with a mark above 0; a commit restarts a fully copied  *)
(* log that nobody reads.  Nothing but TRUNCATE shrinks the file.          *)
(***************************************************************************)
EXTENDS Integers, FiniteSets, FiniteSetsExt

CONSTANTS
    Readers,       \* connections that read: search, boot, health, other processes
    MaxFrames,     \* bound on the frames of the log
    WarnFrames     \* WAL_WARN_BYTES

ASSUME WalAssumption == MaxFrames \in Nat /\ WarnFrames \in 0..MaxFrames

VARIABLES
    frames,     \* committed frames since the log last started over
    filled,     \* how many of them the database file holds
    file,       \* size of the -wal file: its high-water mark
    mark,       \* what each reader pins; None when it is not reading
    writer,     \* who holds the writer's lock: "none", "store", "index" or "tick"
    step,       \* of "store", "index" and "tick": what the thread is at
    backoff     \* whether _checkpoint_backoff defers the next attempt

walVars == <<frames, filled, file, mark, writer, step, backoff>>

None == -1
Pinned == {mark[r] : r \in Readers} \ {None}
Oldest == Min(Pinned \cup {frames})

WalInit ==
    /\ frames = 0 /\ filled = 0 /\ file = 0 /\ mark = [r \in Readers |-> None]
    /\ writer = "none" /\ step = [t \in {"store", "index", "tick"} |-> "idle"]
    /\ backoff = FALSE

\* The tick has the Store's connection while it is inside the TRUNCATE.
ConnBusy == step["tick"] \in {"locking", "draining"}

\* PASSIVE: copy what no reader needs kept
Passive == filled' = Max({filled, IF 0 \in Pinned THEN filled ELSE Oldest})

ReadStart(r) ==
    /\ mark[r] = None
    /\ mark' = [mark EXCEPT ![r] = IF filled = frames THEN 0 ELSE frames]
    /\ UNCHANGED <<frames, filled, file, writer, step, backoff>>

ReadEnd(r) ==
    /\ mark[r] # None
    /\ mark' = [mark EXCEPT ![r] = None]
    /\ UNCHANGED <<frames, filled, file, writer, step, backoff>>

\* the write is called; it waits for the lock, the Store's also for its connection
Want(t) ==
    /\ step[t] = "idle" /\ frames < MaxFrames
    /\ step' = [step EXCEPT ![t] = "waits"]
    /\ UNCHANGED <<frames, filled, file, mark, writer, backoff>>

Begin(t) ==
    /\ step[t] = "waits" /\ writer = "none" /\ (t = "store" => ~ConnBusy)
    /\ step' = [step EXCEPT ![t] = "txn"] /\ writer' = t
    /\ UNCHANGED <<frames, filled, file, mark, backoff>>

Commit(t) ==
    /\ step[t] = "txn"
    /\ IF filled = frames /\ \A m \in Pinned : m = 0
       THEN frames' = 1 /\ filled' = 0
       ELSE frames' = frames + 1 /\ UNCHANGED filled
    /\ file' = Max({file, frames'})
    /\ writer' = "none" /\ step' = [step EXCEPT ![t] = "backstop"]
    /\ UNCHANGED <<mark, backoff>>

\* _retry_on_locked, _rollback_on_error
Rollback(t) ==
    /\ step[t] = "txn"
    /\ writer' = "none" /\ step' = [step EXCEPT ![t] = "idle"]
    /\ UNCHANGED <<frames, filled, file, mark, backoff>>

\* checkpoint_if_wal_large: at most one attempt per backoff, none on a small
\* file; a TRUNCATE under way makes PASSIVE return at once
Backstop(t) ==
    /\ step[t] = "backstop" /\ (t = "store" => ~ConnBusy)
    /\ IF file <= WarnFrames THEN backoff' = FALSE /\ UNCHANGED filled
       ELSE IF backoff THEN UNCHANGED <<backoff, filled>>
       ELSE backoff' = TRUE /\ IF ConnBusy THEN UNCHANGED filled ELSE Passive
    /\ step' = [step EXCEPT ![t] = "idle"]
    /\ UNCHANGED <<frames, file, mark, writer>>

BackoffLapses == backoff /\ backoff' = FALSE
                 /\ UNCHANGED <<frames, filled, file, mark, writer, step>>

\* mutant: the gate before the fix, no frames in the log (db.py:328)
EmptyLog == frames = 0

\* everything is in the database: busy == 0, log > 0, checkpointed == log
Flushed == frames > 0 /\ filled' = frames

\* periodic_checkpoint_tick: PASSIVE and the gate; inside a transaction of the
\* Store the checkpoint raises and the tick is deferred
TickPassive ==
    /\ step["tick"] = "idle" /\ step["store"] # "txn"
    /\ Passive
    /\ step' = [step EXCEPT !["tick"] = IF Flushed THEN "flushed" ELSE "idle"]
    /\ UNCHANGED <<frames, file, mark, writer, backoff>>

\* the TRUNCATE is called
TickTruncate ==
    /\ step["tick"] = "flushed"
    /\ step' = [step EXCEPT !["tick"] = IF step["store"] = "txn" THEN "idle" ELSE "locking"]
    /\ UNCHANGED <<frames, filled, file, mark, writer, backoff>>

TickLocks ==
    /\ step["tick"] = "locking" /\ writer = "none"
    /\ writer' = "tick" /\ step' = [step EXCEPT !["tick"] = "draining"]
    /\ UNCHANGED <<frames, filled, file, mark, backoff>>

TickShrinks ==
    /\ step["tick"] = "draining" /\ \A m \in Pinned : m = 0 /\ filled = frames
    /\ frames' = 0 /\ filled' = 0 /\ file' = 0
    /\ backoff' = (backoff /\ file = 0)
    /\ writer' = "none" /\ step' = [step EXCEPT !["tick"] = "idle"]
    /\ UNCHANGED mark

\* busy_timeout runs out: the row says busy, nothing was shrunk
TickGivesUp ==
    /\ \/ step["tick"] = "locking" /\ writer # "none"
       \/ step["tick"] = "draining" /\ \E m \in Pinned : m > 0 \/ filled < frames
    /\ writer' = (IF writer = "tick" THEN "none" ELSE writer)
    /\ step' = [step EXCEPT !["tick"] = "idle"]
    /\ UNCHANGED <<frames, filled, file, mark, backoff>>

WalNext ==
    \/ \E r \in Readers : ReadStart(r) \/ ReadEnd(r)
    \/ \E t \in {"store", "index"} :
          Want(t) \/ Begin(t) \/ Commit(t) \/ Rollback(t) \/ Backstop(t)
    \/ BackoffLapses \/ TickPassive \/ TickTruncate \/ TickLocks \/ TickShrinks
    \/ TickGivesUp

(***************************************************************************)
(* Properties.                                                             *)
(***************************************************************************)

Quiet == Pinned = {} /\ step["store"] = "idle" /\ step["index"] = "idle"

\* Once the store is left alone the tick cuts the file back, whatever size it
\* had reached and whoever was reading before (the 140 MB log of incident
\* b02389c2, which no later checkpoint ever shrank).
WalShrinks == <>[]Quiet => <>[](file = 0)

\* No write waits for a reader: PASSIVE moved every frame, so "nothing older is
\* still pinned" (db.py:335) and TRUNCATE returns at once.  A reader that
\* started just before at the newest frame is still in the log.
WritesSpared ==
    ~ /\ step["tick"] = "draining" /\ \E m \in Pinned : m > 0
      /\ "waits" \in {step["store"], step["index"]}
=============================================================================
