------------------------------- MODULE Watch -------------------------------
(***************************************************************************)
(* `trovex watch' (watch.py, cli.py): a full index, then an observer whose *)
(* events re-arm a debounce timer, whose expiry re-indexes the files that  *)
(* changed.  The watchdog Observer is external: an edit under a watched    *)
(* root is queued and delivered later by one thread.  Timers are threads:  *)
(* one that has fired can no longer be cancelled, so several may be inside *)
(* _flush at once; they take the pending paths under `_lock' and re-index  *)
(* under `_reindex_lock'.                                                  *)
(***************************************************************************)
EXTENDS Naturals, FiniteSets

CONSTANTS
    Files,
    Timers,      \* timer threads; no more than these are inside _flush at once
    Main,        \* the thread of the command, whose stop() flushes too
    MaxEdits,    \* bound on the edits of one file
    MayFail      \* whether reindex_paths may raise

NoTimer == "none"

ASSUME WatchAssumption ==
    Main \notin Timers /\ NoTimer \notin Timers /\ MaxEdits \in Nat /\ MayFail \in BOOLEAN

Threads == Timers \cup {Main}

VARIABLES
    disk,       \* the version of each file
    indexed,    \* the version the store has
    watch,      \* the command: "index", "starting", "watching", "stopping", "exited"
    events,     \* paths the observer has not delivered
    pendingPaths,
    timer,      \* the armed timer
    flush,      \* each thread: its stage in _flush, its batch and what it read
    lost        \* history: edits the observer was not there for or a failed pass held

watchVars == <<disk, indexed, watch, events, pendingPaths, timer, flush, lost>>

Idle == [at |-> "idle", paths |-> {}, read |-> [f \in {} |-> 0]]

WatchInit ==
    /\ disk = [f \in Files |-> 1] /\ indexed = [f \in Files |-> 0]
    /\ watch = "index" /\ events = {} /\ pendingPaths = {} /\ timer = NoTimer
    /\ flush = [t \in Threads |-> Idle] /\ lost = {}

Edit(f) ==
    /\ disk[f] < MaxEdits /\ watch # "exited"
    /\ disk' = [disk EXCEPT ![f] = @ + 1]
    /\ IF watch = "watching" THEN events' = events \cup {f} /\ lost' = lost \ {f}
       ELSE lost' = lost \cup {f} /\ UNCHANGED events
    /\ UNCHANGED <<indexed, watch, pendingPaths, timer, flush>>

\* the initial index: it has read everything, then it is stored
InitialIndex ==
    /\ watch = "index" /\ watch' = "starting" /\ indexed' = disk /\ lost' = {}
    /\ UNCHANGED <<disk, events, pendingPaths, timer, flush>>

StartObserver ==
    /\ watch = "starting" /\ watch' = "watching"
    /\ UNCHANGED <<disk, indexed, events, pendingPaths, timer, flush, lost>>

\* notify: the armed timer is cancelled, a new one is armed
Notify(f) ==
    /\ f \in events /\ watch \in {"watching", "stopping"}
    /\ events' = events \ {f} /\ pendingPaths' = pendingPaths \cup {f}
    /\ timer' \in {t \in Timers : flush[t].at = "idle"}
    /\ UNCHANGED <<disk, indexed, watch, flush, lost>>

\* the timer expires: from here on cancel() has no effect on it
Fire ==
    /\ timer # NoTimer /\ flush[timer].at = "idle"
    /\ flush' = [flush EXCEPT ![timer].at = "fired"]
    /\ UNCHANGED <<disk, indexed, watch, events, pendingPaths, timer, lost>>

\* mutant: no lock keeps two flushes apart
ReindexingUnseen == FALSE

\* _reindex_lock is taken
Reindexing == \E t \in Threads : flush[t].at = "reindex"

\* mutant: a flush that finds another at work gives up
BatchIfFree == IF Reindexing THEN {} ELSE pendingPaths

\* everything that is pending, whoever else is at work
Batch == pendingPaths

\* _flush, under _lock: any armed timer is dropped with the paths it was for
Take(t) ==
    /\ flush[t].at = "fired" /\ timer' = NoTimer
    /\ flush' = [flush EXCEPT ![t] =
                   IF Batch = {} THEN Idle
                   ELSE [Idle EXCEPT !.at = "batch", !.paths = Batch]]
    /\ pendingPaths' = {}
    /\ UNCHANGED <<disk, indexed, watch, events, lost>>

\* reindex_paths reads the files of the batch
ReadBatch(t) ==
    /\ flush[t].at = "batch" /\ ~Reindexing
    /\ flush' = [flush EXCEPT ![t].at = "reindex",
                              ![t].read = [f \in flush[t].paths |-> disk[f]]]
    /\ UNCHANGED <<disk, indexed, watch, events, pendingPaths, timer, lost>>

\* ... and stores what it read
StoreBatch(t) ==
    /\ flush[t].at = "reindex"
    /\ indexed' = [f \in Files |-> IF f \in flush[t].paths THEN flush[t].read[f]
                                   ELSE indexed[f]]
    /\ flush' = [flush EXCEPT ![t] = Idle]
    /\ UNCHANGED <<disk, watch, events, pendingPaths, timer, lost>>

\* ... or raises: the thread ends, the batch is gone
FailBatch(t) ==
    /\ MayFail /\ flush[t].at = "reindex"
    /\ lost' = lost \cup flush[t].paths
    /\ flush' = [flush EXCEPT ![t] = Idle]
    /\ UNCHANGED <<disk, indexed, watch, events, pendingPaths, timer>>

\* Ctrl-C: stop() cancels the timer, then stops the observer
Stop ==
    /\ watch = "watching" /\ watch' = "stopping" /\ timer' = NoTimer
    /\ UNCHANGED <<disk, indexed, events, pendingPaths, flush, lost>>

\* the observer is joined, whatever it had not delivered is dropped; the last flush
LastFlush ==
    /\ watch = "stopping" /\ flush[Main].at = "idle"
    /\ flush' = [flush EXCEPT ![Main].at = "fired"]
    /\ events' = {} /\ watch' = "flushing" /\ lost' = lost \cup events
    /\ UNCHANGED <<disk, indexed, pendingPaths, timer>>

\* the command returns; the timers are daemon threads and die with it
Exit ==
    /\ watch = "flushing" /\ flush[Main].at = "idle"
    /\ watch' = "exited" /\ flush' = [t \in Threads |-> Idle]
    /\ UNCHANGED <<disk, indexed, events, pendingPaths, timer, lost>>

WatchNext ==
    \/ \E f \in Files : Edit(f) \/ Notify(f)
    \/ InitialIndex \/ StartObserver \/ Fire \/ Stop \/ LastFlush \/ Exit
    \/ watch # "exited" /\ \E t \in Threads :
          Take(t) \/ ReadBatch(t) \/ StoreBatch(t) \/ FailBatch(t)

WatchSpec == WatchInit /\ [][WatchNext]_watchVars

(***************************************************************************)
(* Properties.                                                             *)
(***************************************************************************)

\* Some thread still has to read f, or has read what is on disk now.
Owed(f) ==
    \/ f \in events
    \/ f \in pendingPaths /\ (timer # NoTimer \/ \E t \in Threads : flush[t].at = "fired")
    \/ \E t \in Threads : /\ f \in flush[t].paths
                          /\ flush[t].at = "reindex" => flush[t].read[f] = disk[f]

\* While the command watches, an edit the observer saw is on its way to the store
\* at every moment, however its events, timers and flushes interleave: a path
\* queued while a batch is taken is in that batch or in the next.  Edits a failed
\* pass held, and edits the observer was not running for, are out.
NothingForgotten ==
    watch = "watching" => \A f \in Files \ lost : indexed[f] # disk[f] => Owed(f)

\* Two flushes never store an older reading over a newer one.
NeverIndexedBackwards == [][\A f \in Files : indexed'[f] >= indexed[f]]_indexed

\* "then re-indexes only the paths that actually change" (cli.py:129): every edit
\* made while the command runs.  Between the first index and the observer's start
\* nothing sees an edit.
EveryEditIsSeen ==
    watch = "watching" => \A f \in Files : indexed[f] # disk[f] => Owed(f)

\* stop() flushes "so a change that landed inside the debounce window is not lost"
\* (watch.py:105): what had been delivered is indexed when the command ends.  A
\* flush that a timer has begun is not waited for: the last flush finds nothing
\* pending and returns at once.
StoppedIsFlushed ==
    watch = "exited" => \A f \in Files \ lost : indexed[f] = disk[f]
=============================================================================
