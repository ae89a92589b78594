---------------------------- MODULE ServingProofs ----------------------------
(***************************************************************************)
(* Proofs about five parts of `trovex serve': Watch, for any number of     *)
(* files, timer threads and edits, whether or not a pass may fail;         *)
(* Offload, for any number of requests and workers, any waits, whatever    *)
(* hangs; Links, for any docs, names, contents, writes and histories;      *)
(* Reindex, for any paths, texts, number of edits, failures and crashes;   *)
(* and Retrieval, for any corpus, question, limits and windows, whatever   *)
(* the reranker answers and whatever the rows cost.                        *)
(***************************************************************************)
EXTENDS Watch, Offload, Links, Reindex, Retrieval,
        FiniteSetTheorems, SequenceTheorems, WellFoundedInduction, TLAPS

(***************************************************************************)
(* Watch: the inductive invariant.                                         *)
(***************************************************************************)
Stages == {"idle", "fired", "batch", "reindex"}
Readings == UNION {[S -> Nat] : S \in SUBSET Files}
Flushes == [at : Stages, paths : SUBSET Files, read : Readings]

Types ==
  /\ disk \in [Files -> Nat] /\ indexed \in [Files -> Nat]
  /\ watch \in {"index", "starting", "watching", "stopping", "flushing", "exited"}
  /\ events \subseteq Files /\ pendingPaths \subseteq Files /\ lost \subseteq Files
  /\ timer \in Timers \cup {NoTimer}
  /\ flush \in [Threads -> Flushes]

\* A thread holds paths between taking them and storing them.
Holding ==
  \A t \in Threads :
    /\ flush[t].at \in {"idle", "fired"} => flush[t].paths = {}
    /\ flush[t].at = "reindex" => flush[t].read \in [flush[t].paths -> Nat]

\* _reindex_lock
OneReindexes ==
  \A t, u \in Threads : flush[t].at = "reindex" /\ flush[u].at = "reindex" => t = u

\* Nothing moves before the observer runs, and the first index has read it all.
Quiet ==
  /\ watch \in {"index", "starting"} =>
       /\ \A t \in Threads : flush[t].at = "idle"
       /\ events = {} /\ pendingPaths = {} /\ timer = NoTimer
  /\ watch = "starting" => \A f \in Files \ lost : indexed[f] = disk[f]

\* Somebody will come for what is pending.
Due == timer # NoTimer \/ \E t \in Threads : flush[t].at = "fired"

PendingIsDue == watch = "watching" /\ pendingPaths # {} => Due

\* f is not what the store will say of it: it is out of date already, or a
\* thread is about to store an old reading.
Stale(f) ==
  \/ indexed[f] # disk[f]
  \/ \E t \in Threads : /\ flush[t].at = "reindex" /\ f \in flush[t].paths
                        /\ flush[t].read[f] # disk[f]

StaleIsOwed == watch = "watching" => \A f \in Files \ lost : Stale(f) => Owed(f)

\* A reading lies between what is stored and what is on disk.
Ordered ==
  /\ \A f \in Files : indexed[f] <= disk[f]
  /\ \A t \in Threads : flush[t].at = "reindex" =>
       \A f \in flush[t].paths : indexed[f] <= flush[t].read[f] /\ flush[t].read[f] <= disk[f]

IndInv ==
  /\ Types /\ Holding /\ OneReindexes
  /\ Quiet /\ PendingIsDue /\ StaleIsOwed
  /\ Ordered
-----------------------------------------------------------------------------
(***************************************************************************)
(* Initial states.                                                         *)
(***************************************************************************)

LEMMA EmptyReading == [f \in {} |-> 0] \in Readings
<1>1. [f \in {} |-> 0] \in [{} -> Nat]
  OBVIOUS
<1>2. {} \in SUBSET Files
  OBVIOUS
<1> QED BY <1>1, <1>2 DEF Readings

LEMMA IdleType == Idle \in Flushes /\ Idle.at = "idle" /\ Idle.paths = {}
BY EmptyReading DEF Idle, Flushes, Stages

LEMMA InitInd == WatchInit => IndInv
<1> SUFFICES ASSUME WatchInit PROVE IndInv
  OBVIOUS
<1>1. \A t \in Threads : flush[t] = Idle
  BY DEF WatchInit
<1>2. Types
  BY IdleType DEF WatchInit, Types
<1>3. Holding /\ OneReindexes /\ Quiet /\ PendingIsDue /\ StaleIsOwed
  BY <1>1, IdleType DEF WatchInit, Holding, OneReindexes, Quiet, PendingIsDue, StaleIsOwed
<1>4. Ordered
  BY <1>1, IdleType DEF WatchInit, Ordered
<1> QED BY <1>2, <1>3, <1>4 DEF IndInv
-----------------------------------------------------------------------------
(***************************************************************************)
(* Steps that leave every thread as it was.                                *)
(***************************************************************************)

LEMMA EditStep ==
  ASSUME IndInv, NEW f \in Files, Edit(f)
  PROVE  IndInv'
<1> USE DEF Edit
<1>1. Types'
  BY WatchAssumption DEF IndInv, Types
<1>2. Holding' /\ OneReindexes'
  BY DEF IndInv, Holding, OneReindexes
<1>3. Quiet' /\ PendingIsDue'
  BY DEF IndInv, Types, Quiet, PendingIsDue, Due
<1>4. StaleIsOwed'
  BY DEF IndInv, Types, StaleIsOwed, Stale, Owed
<1>5. Ordered'
  BY DEF IndInv, Types, Holding, Ordered
<1> QED BY <1>1, <1>2, <1>3, <1>4, <1>5 DEF IndInv

LEMMA IndexStep == IndInv /\ InitialIndex => IndInv'
<1> SUFFICES ASSUME IndInv, InitialIndex PROVE IndInv'
  OBVIOUS
<1>1. Types' /\ Holding' /\ OneReindexes'
  BY DEF IndInv, InitialIndex, Types, Holding, OneReindexes
<1>2. Quiet' /\ PendingIsDue' /\ StaleIsOwed'
  BY DEF IndInv, InitialIndex, Quiet, PendingIsDue, StaleIsOwed
<1>3. Ordered'
  BY DEF IndInv, InitialIndex, Types, Quiet, Ordered
<1> QED BY <1>1, <1>2, <1>3 DEF IndInv

LEMMA StartStep == IndInv /\ StartObserver => IndInv'
<1> SUFFICES ASSUME IndInv, StartObserver PROVE IndInv'
  OBVIOUS
<1>1. Types' /\ Holding' /\ OneReindexes' /\ Quiet' /\ PendingIsDue'
  BY DEF IndInv, StartObserver, Types, Holding, OneReindexes, Quiet, PendingIsDue
<1>2. StaleIsOwed'
  BY DEF IndInv, StartObserver, Quiet, StaleIsOwed, Stale
<1>3. Ordered'
  BY DEF IndInv, StartObserver, Ordered
<1> QED BY <1>1, <1>2, <1>3 DEF IndInv

LEMMA NotifyStep ==
  ASSUME IndInv, NEW f \in Files, Notify(f)
  PROVE  IndInv'
<1> USE DEF Notify
<1>1. timer' \in Timers /\ timer' # NoTimer
  BY WatchAssumption
<1>2. Types' /\ Holding' /\ OneReindexes'
  BY <1>1 DEF IndInv, Types, Holding, OneReindexes
<1>3. Quiet' /\ PendingIsDue'
  BY <1>1 DEF IndInv, Quiet, PendingIsDue, Due
<1>4. StaleIsOwed'
  BY <1>1 DEF IndInv, StaleIsOwed, Stale, Owed
<1>5. Ordered'
  BY DEF IndInv, Ordered
<1> QED BY <1>2, <1>3, <1>4, <1>5 DEF IndInv

LEMMA StopStep == IndInv /\ Stop => IndInv'
<1> SUFFICES ASSUME IndInv, Stop PROVE IndInv'
  OBVIOUS
<1>1. Types' /\ Holding' /\ OneReindexes'
  BY DEF IndInv, Stop, Types, Holding, OneReindexes
<1>2. Quiet' /\ PendingIsDue' /\ StaleIsOwed' /\ Ordered'
  BY DEF IndInv, Stop, Quiet, PendingIsDue, StaleIsOwed, Ordered
<1> QED BY <1>1, <1>2 DEF IndInv
-----------------------------------------------------------------------------
(***************************************************************************)
(* Steps of the threads.                                                   *)
(***************************************************************************)

LEMMA FireStep == IndInv /\ Fire => IndInv'
<1> SUFFICES ASSUME IndInv, Fire PROVE IndInv'
  OBVIOUS
<1> USE DEF Fire
<1>1. /\ timer \in Threads /\ flush[timer].paths = {}
      /\ flush' = [flush EXCEPT ![timer] = [flush[timer] EXCEPT !.at = "fired"]]
  BY WatchAssumption DEF IndInv, Types, Holding, Threads
<1>2. /\ \A t \in Threads : /\ flush'[t].paths = flush[t].paths
                            /\ flush'[t].read = flush[t].read
                            /\ (t # timer => flush'[t].at = flush[t].at)
      /\ flush'[timer].at = "fired"
  BY <1>1 DEF IndInv, Types, Flushes
<1>3. Types'
  BY <1>1 DEF IndInv, Types, Flushes, Stages
<1>4. Holding' /\ OneReindexes'
  BY <1>1, <1>2 DEF IndInv, Types, Holding, OneReindexes
<1>5. Quiet' /\ PendingIsDue'
  BY <1>1 DEF IndInv, Quiet, PendingIsDue, Due
<1>6. StaleIsOwed'
  BY <1>1, <1>2 DEF IndInv, StaleIsOwed, Stale, Owed
<1>7. Ordered'
  BY <1>2 DEF IndInv, Ordered
<1> QED BY <1>3, <1>4, <1>5, <1>6, <1>7 DEF IndInv

LEMMA TakeStep ==
  ASSUME IndInv, watch # "exited", NEW t \in Threads, Take(t)
  PROVE  IndInv'
<1> USE DEF Take
<1>1. /\ flush[t].at = "fired" /\ flush[t].paths = {} /\ flush'[t].paths = pendingPaths
      /\ flush'[t].at = IF pendingPaths = {} THEN "idle" ELSE "batch"
      /\ flush'[t] \in Flushes
      /\ \A u \in Threads \ {t} : flush'[u] = flush[u]
  BY IdleType DEF IndInv, Types, Holding, Batch, Flushes, Stages, Idle
<1>2. Types'
  BY <1>1 DEF IndInv, Types, Batch
<1>3. Holding' /\ OneReindexes'
  BY <1>1 DEF IndInv, Holding, OneReindexes
<1>4. Quiet' /\ PendingIsDue'
  BY <1>1 DEF IndInv, Quiet, PendingIsDue
<1>5. \A f \in Files : (Stale(f))' => Stale(f)
  BY <1>1 DEF Stale
<1>6. \A f \in Files : Owed(f) => (Owed(f))'
  BY <1>1 DEF Owed
<1>7. StaleIsOwed'
  BY <1>5, <1>6 DEF IndInv, StaleIsOwed
<1>8. Ordered'
  BY <1>1 DEF IndInv, Ordered
<1> QED BY <1>2, <1>3, <1>4, <1>7, <1>8 DEF IndInv

LEMMA ReadStep ==
  ASSUME IndInv, watch # "exited", NEW t \in Threads, ReadBatch(t)
  PROVE  IndInv'
<1> DEFINE reading == [f \in flush[t].paths |-> disk[f]]
<1>1. reading \in [flush[t].paths -> Nat] /\ reading \in Readings
  <2>1. flush[t].paths \in SUBSET Files
    BY DEF IndInv, Types, Flushes
  <2>2. reading \in [flush[t].paths -> Nat]
    BY <2>1 DEF IndInv, Types
  <2> QED BY <2>1, <2>2 DEF Readings
<1>2. /\ flush[t].at = "batch" /\ flush'[t].at = "reindex"
      /\ flush'[t].paths = flush[t].paths /\ flush'[t].read = reading
      /\ \A u \in Threads \ {t} : flush'[u] = flush[u] /\ flush[u].at # "reindex"
      /\ flush' \in [Threads -> Flushes]
  <2>1. flush' = [flush EXCEPT ![t] = [flush[t] EXCEPT !.at = "reindex", !.read = reading]]
    BY DEF ReadBatch, IndInv, Types
  <2>2. [flush[t] EXCEPT !.at = "reindex", !.read = reading] \in Flushes
    BY <1>1 DEF IndInv, Types, Flushes, Stages
  <2>3. \A u \in Threads : flush[u].at # "reindex"
    BY DEF ReadBatch, Reindexing
  <2> HIDE DEF reading
  <2>4. flush' \in [Threads -> Flushes] /\ \A u \in Threads \ {t} : flush'[u] = flush[u]
    BY <2>1, <2>2 DEF IndInv, Types
  <2>5. flush'[t] = [flush[t] EXCEPT !.at = "reindex", !.read = reading]
    BY <2>1 DEF IndInv, Types
  <2>6. flush[t] \in Flushes
    BY DEF IndInv, Types
  <2>7. flush'[t].at = "reindex" /\ flush'[t].paths = flush[t].paths /\ flush'[t].read = reading
    BY <2>5, <2>6 DEF Flushes
  <2> QED BY <2>3, <2>4, <2>7 DEF ReadBatch
<1>3. \A f \in flush[t].paths : flush'[t].read[f] = disk[f]
  BY <1>2
<1> HIDE DEF reading
<1>4. Types'
  BY <1>2 DEF ReadBatch, IndInv, Types
<1>5. Holding' /\ OneReindexes'
  BY <1>1, <1>2 DEF IndInv, Holding, OneReindexes
<1>6. Quiet' /\ PendingIsDue'
  BY <1>2 DEF ReadBatch, IndInv, Quiet, PendingIsDue, Due
<1>7. StaleIsOwed'
  <2>1. \A f \in Files : (Stale(f))' => Stale(f)
    BY <1>2, <1>3 DEF ReadBatch, Stale
  <2>2. \A f \in Files : Owed(f) => (Owed(f))'
    BY <1>2, <1>3 DEF ReadBatch, Owed
  <2> QED BY <2>1, <2>2 DEF ReadBatch, IndInv, StaleIsOwed
<1>8. Ordered'
  <2>1. \A f \in flush[t].paths : indexed[f] <= disk[f] /\ disk[f] <= disk[f]
    BY DEF IndInv, Types, Flushes, Ordered
  <2> QED BY <1>2, <1>3, <2>1 DEF ReadBatch, IndInv, Ordered
<1> QED BY <1>4, <1>5, <1>6, <1>7, <1>8 DEF IndInv

\* A thread that stores what it read, fails or is done is idle again.
LEMMA BackToIdle ==
  ASSUME IndInv, NEW t \in Threads, flush[t].at = "reindex", flush' = [flush EXCEPT ![t] = Idle]
  PROVE  /\ flush' \in [Threads -> Flushes]
         /\ flush'[t].at = "idle" /\ flush'[t].paths = {}
         /\ \A u \in Threads \ {t} : flush'[u] = flush[u] /\ flush[u].at # "reindex"
         /\ \A u \in Threads : flush'[u].at # "reindex"
<1>1. flush' \in [Threads -> Flushes]
  BY IdleType DEF IndInv, Types
<1>2. flush'[t] = Idle /\ \A u \in Threads \ {t} : flush'[u] = flush[u]
  BY DEF IndInv, Types
<1>3. \A u \in Threads \ {t} : flush[u].at # "reindex"
  BY DEF IndInv, OneReindexes
<1> QED BY <1>1, <1>2, <1>3, IdleType

LEMMA StoreStep ==
  ASSUME IndInv, watch # "exited", NEW t \in Threads, StoreBatch(t)
  PROVE  IndInv'
<1>1. /\ flush' \in [Threads -> Flushes]
      /\ flush'[t].at = "idle" /\ flush'[t].paths = {}
      /\ \A u \in Threads \ {t} : flush'[u] = flush[u] /\ flush[u].at # "reindex"
      /\ \A u \in Threads : flush'[u].at # "reindex"
  BY BackToIdle DEF StoreBatch
<1>2. \A f \in Files : indexed'[f] = IF f \in flush[t].paths THEN flush[t].read[f] ELSE indexed[f]
  BY DEF StoreBatch
<1>3. flush[t].at = "reindex" /\ flush[t].read \in [flush[t].paths -> Nat]
  BY DEF StoreBatch, IndInv, Holding
<1>4. indexed' \in [Files -> Nat]
  BY <1>3 DEF StoreBatch, IndInv, Types
<1>5. Types' /\ Holding' /\ OneReindexes'
  BY <1>1, <1>4 DEF StoreBatch, IndInv, Types, Holding, OneReindexes
<1>6. Quiet' /\ PendingIsDue'
  BY <1>1, <1>3 DEF StoreBatch, IndInv, Quiet, PendingIsDue, Due
<1>7. StaleIsOwed'
  <2> SUFFICES ASSUME watch = "watching", NEW f \in Files \ lost, (Stale(f))'
               PROVE  (Owed(f))'
    BY DEF StoreBatch, StaleIsOwed
  <2>1. indexed'[f] # disk[f]
    BY <1>1 DEF StoreBatch, Stale
  <2>2. Stale(f) /\ (f \in flush[t].paths => flush[t].read[f] # disk[f])
    BY <1>2, <1>3, <2>1 DEF Stale
  <2>3. Owed(f)
    BY <2>2 DEF IndInv, StaleIsOwed
  <2> QED BY <1>1, <1>3, <2>2, <2>3 DEF StoreBatch, Owed
<1>8. Ordered'
  BY <1>1, <1>2, <1>3 DEF StoreBatch, IndInv, Ordered
<1> QED BY <1>5, <1>6, <1>7, <1>8 DEF IndInv

LEMMA FailStep ==
  ASSUME IndInv, watch # "exited", NEW t \in Threads, FailBatch(t)
  PROVE  IndInv'
<1>1. /\ flush' \in [Threads -> Flushes]
      /\ flush'[t].at = "idle" /\ flush'[t].paths = {}
      /\ \A u \in Threads \ {t} : flush'[u] = flush[u] /\ flush[u].at # "reindex"
      /\ \A u \in Threads : flush'[u].at # "reindex"
  BY BackToIdle DEF FailBatch
<1>2. flush[t].at = "reindex" /\ flush[t].paths \subseteq Files
  BY DEF FailBatch, IndInv, Types, Flushes
<1>3. Types' /\ Holding' /\ OneReindexes'
  BY <1>1, <1>2 DEF FailBatch, IndInv, Types, Holding, OneReindexes
<1>4. Quiet' /\ PendingIsDue'
  BY <1>1, <1>2 DEF FailBatch, IndInv, Quiet, PendingIsDue, Due
<1>5. StaleIsOwed'
  <2> SUFFICES ASSUME watch = "watching", NEW f \in Files \ lost', (Stale(f))'
               PROVE  (Owed(f))'
    BY DEF FailBatch, StaleIsOwed
  <2>1. Stale(f) /\ f \notin lost /\ f \notin flush[t].paths
    BY <1>1 DEF FailBatch, Stale
  <2>2. Owed(f)
    BY <2>1 DEF IndInv, StaleIsOwed
  <2> QED BY <1>1, <1>2, <2>1, <2>2 DEF FailBatch, Owed
<1>6. Ordered'
  BY <1>1 DEF FailBatch, IndInv, Ordered
<1> QED BY <1>3, <1>4, <1>5, <1>6 DEF IndInv

LEMMA LastFlushStep == IndInv /\ LastFlush => IndInv'
<1> SUFFICES ASSUME IndInv, LastFlush PROVE IndInv'
  OBVIOUS
<1>1. /\ Main \in Threads /\ flush[Main].paths = {}
      /\ flush' = [flush EXCEPT ![Main] = [flush[Main] EXCEPT !.at = "fired"]]
  BY DEF LastFlush, IndInv, Types, Holding, Threads
<1>2. /\ \A t \in Threads \ {Main} : flush'[t] = flush[t]
      /\ flush'[Main].at = "fired" /\ flush'[Main].paths = {}
  BY <1>1 DEF IndInv, Types, Flushes
<1>3. Types'
  BY <1>1 DEF LastFlush, IndInv, Types, Flushes, Stages
<1>4. Holding' /\ OneReindexes'
  BY <1>2 DEF LastFlush, IndInv, Holding, OneReindexes
<1>5. Quiet' /\ PendingIsDue' /\ StaleIsOwed'
  BY DEF LastFlush, IndInv, Quiet, PendingIsDue, StaleIsOwed
<1>6. Ordered'
  BY <1>2 DEF LastFlush, IndInv, Ordered
<1> QED BY <1>3, <1>4, <1>5, <1>6 DEF IndInv

LEMMA ExitStep == IndInv /\ Exit => IndInv'
<1> SUFFICES ASSUME IndInv, Exit PROVE IndInv'
  OBVIOUS
<1>1. \A t \in Threads : flush'[t] = Idle
  BY DEF Exit
<1>2. Types'
  BY IdleType DEF Exit, IndInv, Types
<1>3. Holding' /\ OneReindexes' /\ Quiet' /\ PendingIsDue' /\ StaleIsOwed'
  BY <1>1, IdleType DEF Exit, Holding, OneReindexes, Quiet, PendingIsDue, StaleIsOwed
<1>4. Ordered'
  BY <1>1, IdleType DEF Exit, IndInv, Ordered
<1> QED BY <1>2, <1>3, <1>4 DEF IndInv
-----------------------------------------------------------------------------
(***************************************************************************)
(* Theorems.                                                               *)
(***************************************************************************)

LEMMA StutterStep == IndInv /\ UNCHANGED watchVars => IndInv'
BY DEF watchVars, IndInv, Types, Holding, OneReindexes, Quiet, PendingIsDue, Due,
       StaleIsOwed, Stale, Owed, Ordered

LEMMA NextInd == IndInv /\ [WatchNext]_watchVars => IndInv'
<1> SUFFICES ASSUME IndInv, [WatchNext]_watchVars PROVE IndInv'
  OBVIOUS
<1>1. CASE \E f \in Files : Edit(f) \/ Notify(f)
  BY <1>1, EditStep, NotifyStep
<1>2. CASE InitialIndex \/ StartObserver \/ Stop
  BY <1>2, IndexStep, StartStep, StopStep
<1>3. CASE Fire \/ LastFlush \/ Exit
  BY <1>3, FireStep, LastFlushStep, ExitStep
<1>4. CASE watch # "exited" /\ \E t \in Threads :
             Take(t) \/ ReadBatch(t) \/ StoreBatch(t) \/ FailBatch(t)
  BY <1>4, TakeStep, ReadStep, StoreStep, FailStep
<1>5. CASE UNCHANGED watchVars
  BY <1>5, StutterStep
<1> QED BY <1>1, <1>2, <1>3, <1>4, <1>5 DEF WatchNext

\* The inductive invariant holds in every state of the watch command.
THEOREM Inductive == WatchSpec => []IndInv
BY InitInd, NextInd, PTL DEF WatchSpec

\* An edit the observer saw is on its way to the store at every moment, for any
\* number of files, threads and edits (watch.py: notify and _flush): some thread
\* still has to read it, or has read what is on disk now.
THEOREM EditsAreOwed == WatchSpec => []NothingForgotten
<1>1. IndInv => NothingForgotten
  BY DEF IndInv, StaleIsOwed, Stale, NothingForgotten
<1> QED BY <1>1, Inductive, PTL

\* No flush stores an older reading of a file over a newer one, however many
\* timers have fired (watch.py: _reindex_lock).
THEOREM FlushesAreOrdered == WatchSpec => NeverIndexedBackwards
<1>1. ASSUME IndInv, WatchNext, NEW f \in Files PROVE indexed'[f] >= indexed[f]
  <2>1. indexed[f] \in Nat /\ disk[f] \in Nat /\ disk[f] >= indexed[f]
    BY <1>1 DEF IndInv, Types, Ordered
  <2>2. CASE InitialIndex
    BY <2>1, <2>2 DEF InitialIndex
  <2>3. CASE \E t \in Threads : StoreBatch(t)
    <3>1. PICK t \in Threads : StoreBatch(t)
      BY <2>3
    <3>2. CASE f \in flush[t].paths
      BY <1>1, <2>1, <3>1, <3>2 DEF StoreBatch, IndInv, Holding, Ordered
    <3>3. CASE f \notin flush[t].paths
      BY <2>1, <3>1, <3>3 DEF StoreBatch
    <3> QED BY <3>2, <3>3
  <2>4. CASE UNCHANGED indexed
    BY <2>1, <2>4
  <2> QED BY <1>1, <2>2, <2>3, <2>4
          DEF WatchNext, Edit, Notify, StartObserver, Fire, Stop, LastFlush, Exit,
              Take, ReadBatch, FailBatch
<1>2. IndInv /\ [WatchNext]_watchVars => [\A f \in Files : indexed'[f] >= indexed[f]]_indexed
  BY <1>1 DEF watchVars
<1> QED BY <1>2, Inductive, PTL DEF WatchSpec, NeverIndexedBackwards


-----------------------------------------------------------------------------
(***************************************************************************)
(* Least elements.                                                         *)
(***************************************************************************)
LEMMA LeastOfNats ==
  ASSUME NEW S, S \subseteq Nat, S # {}
  PROVE  \E n \in S : \A m \in S : n <= m
<1> DEFINE R == OpToRel(<, Nat)
<1>1. \E n \in S : \A m \in S : <<m, n>> \notin R
  <2>1. IsWellFoundedOn(R, Nat)
    BY NatLessThanWellFounded, Zenon
  <2> HIDE DEF R
  <2> QED BY <2>1, WFMin
<1>2. \A m, n \in Nat : <<m, n>> \in R <=> m < n
  BY DEF OpToRel
<1> HIDE DEF R
<1>3. PICK n \in S : \A m \in S : <<m, n>> \notin R
  BY <1>1
<1>4. ASSUME NEW m \in S PROVE n <= m
  <2>1. m \in Nat /\ n \in Nat /\ <<m, n>> \notin R
    BY <1>3
  <2> QED BY <2>1, <1>2
<1> QED BY <1>3, <1>4

LEMMA MinIs ==
  ASSUME NEW S, S \subseteq Nat, S # {}
  PROVE  Min(S) \in S /\ \A m \in S : Min(S) <= m
BY LeastOfNats DEF Min

-----------------------------------------------------------------------------
(***************************************************************************)
(* Queues.                                                                 *)
(***************************************************************************)
LEMMA AppendIs ==
  ASSUME NEW S, NEW s \in Seq(S), NEW x \in S
  PROVE  /\ Append(s, x) \in Seq(S) /\ Len(Append(s, x)) = Len(s) + 1 /\ Len(s) \in Nat
         /\ \A i \in 1..Len(s) : Append(s, x)[i] = s[i]
         /\ Append(s, x)[Len(s) + 1] = x
OBVIOUS

LEMMA TailIs ==
  ASSUME NEW S, NEW s \in Seq(S), s # <<>>
  PROVE  /\ Tail(s) \in Seq(S) /\ Len(Tail(s)) = Len(s) - 1 /\ Len(s) \in Nat
         /\ \A i \in 1..Len(Tail(s)) : Tail(s)[i] = s[i + 1]
OBVIOUS

LEMMA RemoveAtIs ==
  ASSUME NEW S, NEW s \in Seq(S), NEW k \in 1..Len(s)
  PROVE  /\ RemoveAt(s, k) \in Seq(S) /\ Len(RemoveAt(s, k)) = Len(s) - 1 /\ Len(s) \in Nat
         /\ \A i \in 1..Len(RemoveAt(s, k)) :
              RemoveAt(s, k)[i] = IF i < k THEN s[i] ELSE s[i + 1]
<1> DEFINE a == SubSeq(s, 1, k - 1)
           b == SubSeq(s, k + 1, Len(s))
<1>1. a \in Seq(S) /\ Len(a) = k - 1 /\ \A i \in 1..(k - 1) : a[i] = s[i]
  OBVIOUS
<1>2. b \in Seq(S) /\ Len(b) = Len(s) - k /\ \A i \in 1..(Len(s) - k) : b[i] = s[k + i]
  OBVIOUS
<1>3. RemoveAt(s, k) = a \o b
  BY DEF RemoveAt
<1>4. Len(s) \in Nat
  OBVIOUS
<1> HIDE DEF a, b
<1>5. /\ a \o b \in Seq(S) /\ Len(a \o b) = Len(s) - 1
      /\ \A i \in 1..(Len(s) - 1) : (a \o b)[i] = IF i < k THEN a[i] ELSE b[i - (k - 1)]
  <2>1. /\ a \o b \in Seq(S) /\ Len(a \o b) = Len(a) + Len(b)
        /\ \A i \in 1..(Len(a) + Len(b)) :
             (a \o b)[i] = IF i <= Len(a) THEN a[i] ELSE b[i - Len(a)]
    BY <1>1, <1>2, ConcatProperties
  <2>2. Len(a) + Len(b) = Len(s) - 1 /\ \A i \in Nat : i <= Len(a) <=> i < k
    BY <1>1, <1>2, <1>4
  <2> QED BY <1>1, <1>4, <2>1, <2>2
<1>6. ASSUME NEW i \in 1..(Len(s) - 1)
      PROVE  (IF i < k THEN a[i] ELSE b[i - (k - 1)]) = (IF i < k THEN s[i] ELSE s[i + 1])
  <2>1. CASE i < k
    BY <1>1, <1>4, <2>1
  <2>2. CASE ~(i < k)
    <3>1. i - (k - 1) \in 1..(Len(s) - k) /\ k + (i - (k - 1)) = i + 1
      BY <1>4, <2>2
    <3> QED BY <1>2, <2>2, <3>1
  <2> QED BY <2>1, <2>2
<1> QED BY <1>3, <1>4, <1>5, <1>6

-----------------------------------------------------------------------------
(***************************************************************************)
(* Offload: the inductive invariant.                                       *)
(***************************************************************************)
Request ==
  [stage : {"free", "admitted", "queued", "running"},
   kind : {"boot", "read", "write", "capture"}, age : Nat, waiting : BOOLEAN,
   inflight : BOOLEAN, hang : {"no", "elsewhere", "connection"}]

OffloadTypes ==
  /\ call \in [Calls -> Request]
  /\ DOMAIN queues = {"recall", "heavy"}
  /\ loop \in {"runs", "blocked"} /\ up \in BOOLEAN /\ held \in Nat

\* The calls an executor has not started are queued, each once.
QueuesInv ==
  \A p \in {"recall", "heavy"} :
    /\ queues[p] \in Seq(Calls)
    /\ \A i \in 1..Len(queues[p]) :
         /\ call[queues[p][i]].stage = "queued"
         /\ Pool(call[queues[p][i]].kind) = p
         /\ \A j \in 1..Len(queues[p]) : queues[p][i] = queues[p][j] => i = j

\* What is in _inflight was submitted and has not returned; only what has not
\* been answered waits in a queue.
RegisterInv ==
  \A c \in Calls :
    /\ call[c].inflight <=> call[c].stage \in {"queued", "running"}
    /\ call[c].stage = "queued" => call[c].waiting
    /\ call[c].waiting => call[c].inflight

\* While the loop runs it answers every deadline in time.
AnsweredInv ==
  LoopRuns => \A c \in Calls : call[c].waiting => call[c].age <= Wait(call[c].kind)

\* The executor starts no more calls than it has workers.
WorkersInv == Cardinality(Running("recall")) <= RecallWorkers

Lates == {c \in Running("recall") : Late(c)}

\* How long the pool has been held is at least the lateness of some holder.
HeldInv ==
  LoopRuns /\ Cardinality(Lates) >= RecallWorkers =>
    held >= SaturationSec \/ \E c \in Lates : call[c].age <= Wait(call[c].kind) + held

OffloadInv ==
  /\ OffloadTypes /\ QueuesInv /\ RegisterInv /\ AnsweredInv /\ WorkersInv /\ HeldInv
  /\ RestartIsDeserved

-----------------------------------------------------------------------------
(***************************************************************************)
(* Offload: the steps.                                                     *)
(***************************************************************************)
LEMMA WaitIs == Wait("boot") \in Nat /\ \A k : Wait(k) \in Nat
BY OffloadAssumption DEF Wait

LEMMA RunningFinite ==
  /\ IsFiniteSet(Running("recall")) /\ Cardinality(Running("recall")) \in Nat
  /\ \A S \in SUBSET Calls : IsFiniteSet(S) /\ Cardinality(S) \in Nat
<1>1. \A S \in SUBSET Calls : IsFiniteSet(S) /\ Cardinality(S) \in Nat
  BY FS_Subset, FS_CardinalityType, OffloadAssumption
<1> QED BY <1>1 DEF Running

\* A step under which the workers of the recall pool go on as they were.
LEMMA SameHolders ==
  ASSUME OffloadInv, held' = held, LoopRuns' => LoopRuns,
         Running("recall")' = Running("recall"),
         \A c \in Running("recall") :
            call'[c].age = call[c].age /\ call'[c].kind = call[c].kind
  PROVE  WorkersInv' /\ HeldInv'
<1>1. Lates' = Lates
  BY DEF Lates, Late
<1>2. \A c \in Lates : call'[c].age = call[c].age /\ call'[c].kind = call[c].kind
  BY DEF Lates
<1>3. HeldInv'
  BY <1>1, <1>2 DEF OffloadInv, HeldInv
<1> QED BY <1>3 DEF OffloadInv, WorkersInv

\* A step of one request that no queue holds, and that starts and ends in no
\* queue.
LEMMA SameQueues ==
  ASSUME OffloadInv, NEW c \in Calls, queues' = queues,
         \A d \in Calls \ {c} : call'[d] = call[d],
         call[c].stage # "queued"
  PROVE  QueuesInv'
<1>1. ASSUME NEW p \in {"recall", "heavy"}, NEW i \in 1..Len(queues[p])
      PROVE  queues[p][i] \in Calls \ {c}
  BY <1>1 DEF OffloadInv, QueuesInv
<1> QED BY <1>1 DEF OffloadInv, QueuesInv

LEMMA AdmitBootStep ==
  ASSUME OffloadInv, NEW c \in Calls, AdmitBoot(c)
  PROVE  OffloadInv'
<1>1. /\ call' = [call EXCEPT ![c] = [Free EXCEPT !.stage = "admitted", !.kind = "boot"]]
      /\ call[c].stage = "free" /\ UNCHANGED <<queues, loop, up, held>>
  BY DEF AdmitBoot
<1>2. call \in [Calls -> Request]
  BY DEF OffloadInv, OffloadTypes
<1>3. /\ call' \in [Calls -> Request]
      /\ call'[c].stage = "admitted" /\ ~call'[c].inflight /\ ~call'[c].waiting
      /\ \A d \in Calls \ {c} : call'[d] = call[d]
  BY <1>1, <1>2 DEF Free, Request
<1>4. OffloadTypes'
  BY <1>1, <1>3 DEF OffloadInv, OffloadTypes
<1>5. QueuesInv'
  BY <1>1, <1>3, SameQueues
<1>6. RegisterInv' /\ AnsweredInv'
  BY <1>1, <1>3 DEF OffloadInv, RegisterInv, AnsweredInv, LoopRuns
<1>7. Running("recall")' = Running("recall")
      /\ \A d \in Running("recall") : call'[d] = call[d]
  BY <1>1, <1>3 DEF Running
<1>8. WorkersInv' /\ HeldInv'
  BY <1>1, <1>7, SameHolders DEF LoopRuns
<1> QED BY <1>1, <1>4, <1>5, <1>6, <1>8 DEF OffloadInv, RestartIsDeserved

LEMMA SubmitStep ==
  ASSUME OffloadInv, NEW c \in Calls, NEW kind \in Kinds, Submit(c, kind)
  PROVE  OffloadInv'
<1>1. /\ call' = [call EXCEPT ![c] = [Free EXCEPT !.stage = "queued", !.kind = kind,
                                                   !.waiting = TRUE, !.inflight = TRUE]]
      /\ queues' = [queues EXCEPT ![Pool(kind)] = Append(queues[Pool(kind)], c)]
      /\ call[c].stage \in {"free", "admitted"} /\ UNCHANGED <<loop, up, held>>
  BY DEF Submit
<1>2. call \in [Calls -> Request] /\ kind \in {"boot", "read", "write", "capture"}
  BY OffloadAssumption DEF OffloadInv, OffloadTypes
<1>3. /\ call' \in [Calls -> Request]
      /\ call'[c].stage = "queued" /\ call'[c].inflight /\ call'[c].waiting
      /\ call'[c].age = 0 /\ call'[c].kind = kind
      /\ \A d \in Calls \ {c} : call'[d] = call[d]
  BY <1>1, <1>2 DEF Free, Request
<1>4. Pool(kind) \in {"recall", "heavy"}
  BY DEF Pool
<1>5. OffloadTypes'
  BY <1>1, <1>3 DEF OffloadInv, OffloadTypes
<1>6. QueuesInv'
  <2> SUFFICES ASSUME NEW p \in {"recall", "heavy"}
               PROVE  /\ queues'[p] \in Seq(Calls)
                      /\ \A i \in 1..Len(queues'[p]) :
                           /\ call'[queues'[p][i]].stage = "queued"
                           /\ Pool(call'[queues'[p][i]].kind) = p
                           /\ \A j \in 1..Len(queues'[p]) :
                                queues'[p][i] = queues'[p][j] => i = j
    BY DEF QueuesInv
  <2>1. DOMAIN queues = {"recall", "heavy"}
    BY DEF OffloadInv, OffloadTypes
  <2>2. /\ queues[p] \in Seq(Calls)
        /\ \A i \in 1..Len(queues[p]) :
             /\ queues[p][i] \in Calls \ {c}
             /\ call[queues[p][i]].stage = "queued" /\ Pool(call[queues[p][i]].kind) = p
             /\ \A j \in 1..Len(queues[p]) : queues[p][i] = queues[p][j] => i = j
    BY <1>1 DEF OffloadInv, QueuesInv
  <2>3. CASE p = Pool(kind)
    <3>1. queues'[p] = Append(queues[p], c)
      BY <1>1, <2>1, <2>3
    <3>2. /\ queues'[p] \in Seq(Calls) /\ Len(queues'[p]) = Len(queues[p]) + 1
          /\ \A i \in 1..Len(queues[p]) : queues'[p][i] = queues[p][i]
          /\ queues'[p][Len(queues[p]) + 1] = c /\ Len(queues[p]) \in Nat
      BY <2>2, <3>1, AppendIs
    <3>3. ASSUME NEW i \in 1..Len(queues'[p])
          PROVE  /\ call'[queues'[p][i]].stage = "queued"
                 /\ Pool(call'[queues'[p][i]].kind) = p
                 /\ \A j \in 1..Len(queues'[p]) : queues'[p][i] = queues'[p][j] => i = j
      <4>1. i = Len(queues[p]) + 1 \/ i \in 1..Len(queues[p])
        BY <3>2
      <4>2. /\ call'[queues'[p][i]].stage = "queued" /\ Pool(call'[queues'[p][i]].kind) = p
            /\ queues'[p][i] = c <=> i = Len(queues[p]) + 1
        BY <1>3, <2>2, <2>3, <3>2, <4>1
      <4>3. ASSUME NEW j \in 1..Len(queues'[p]), queues'[p][i] = queues'[p][j] PROVE i = j
        <5>1. j = Len(queues[p]) + 1 \/ j \in 1..Len(queues[p])
          BY <3>2
        <5>2. queues'[p][j] = c <=> j = Len(queues[p]) + 1
          BY <2>2, <3>2, <5>1
        <5> QED BY <2>2, <3>2, <4>1, <4>2, <4>3, <5>1, <5>2
      <4> QED BY <4>2, <4>3
    <3> QED BY <3>2, <3>3
  <2>4. CASE p # Pool(kind)
    <3>1. queues'[p] = queues[p]
      BY <1>1, <2>1, <2>4
    <3> QED BY <1>3, <2>2, <3>1
  <2> QED BY <2>3, <2>4
<1>7. RegisterInv'
  BY <1>1, <1>3 DEF OffloadInv, RegisterInv
<1>8. AnsweredInv'
  BY <1>1, <1>3, WaitIs DEF OffloadInv, AnsweredInv, LoopRuns
<1>9. Running("recall")' = Running("recall")
      /\ \A d \in Running("recall") : call'[d] = call[d]
  BY <1>1, <1>3 DEF Running
<1>10. WorkersInv' /\ HeldInv'
  BY <1>1, <1>9, SameHolders DEF LoopRuns
<1> QED BY <1>1, <1>5, <1>6, <1>7, <1>8, <1>10 DEF OffloadInv, RestartIsDeserved

LEMMA StartCallStep ==
  ASSUME OffloadInv, NEW p \in {"recall", "heavy"}, Start(p)
  PROVE  OffloadInv'
<1>0. call \in [Calls -> Request]
  BY DEF OffloadInv, OffloadTypes
<1>1. /\ up /\ queues[p] # <<>> /\ Cardinality(Running(p)) < Workers(p)
      /\ queues' = [queues EXCEPT ![p] = Tail(queues[p])]
      /\ UNCHANGED <<loop, up, held>>
  BY DEF Start
<1>2. /\ queues[p] \in Seq(Calls) /\ Len(queues[p]) \in Nat /\ Len(queues[p]) > 0
      /\ \A i \in 1..Len(queues[p]) :
           /\ queues[p][i] \in Calls
           /\ call[queues[p][i]].stage = "queued" /\ Pool(call[queues[p][i]].kind) = p
           /\ \A j \in 1..Len(queues[p]) : queues[p][i] = queues[p][j] => i = j
  BY <1>1 DEF OffloadInv, QueuesInv
<1>3. PICK c \in Calls : c = Head(queues[p]) /\ c = queues[p][1]
  BY <1>2
<1>4. call[c].stage = "queued" /\ Pool(call[c].kind) = p
  BY <1>2, <1>3
<1>5. PICK hang \in {"no", "elsewhere", "connection"} :
        call' = [call EXCEPT ![c].stage = "running", ![c].hang = hang]
  BY <1>3, OffloadAssumption DEF Start
<1>6. call' = [call EXCEPT ![c] = [call[c] EXCEPT !.stage = "running", !.hang = hang]]
  BY <1>0, <1>5
<1>7. /\ call' \in [Calls -> Request]
      /\ call'[c].stage = "running" /\ call'[c].kind = call[c].kind
      /\ call'[c].age = call[c].age /\ call'[c].waiting = call[c].waiting
      /\ call'[c].inflight = call[c].inflight
      /\ \A d \in Calls \ {c} : call'[d] = call[d]
  BY <1>0, <1>6 DEF Request
<1>8. OffloadTypes'
  BY <1>1, <1>7 DEF OffloadInv, OffloadTypes
<1>9. QueuesInv'
  <2> SUFFICES ASSUME NEW q \in {"recall", "heavy"}
               PROVE  /\ queues'[q] \in Seq(Calls)
                      /\ \A i \in 1..Len(queues'[q]) :
                           /\ call'[queues'[q][i]].stage = "queued"
                           /\ Pool(call'[queues'[q][i]].kind) = q
                           /\ \A j \in 1..Len(queues'[q]) :
                                queues'[q][i] = queues'[q][j] => i = j
    BY DEF QueuesInv
  <2>1. DOMAIN queues = {"recall", "heavy"}
    BY DEF OffloadInv, OffloadTypes
  <2>2. CASE q = p
    <3>1. queues'[q] = Tail(queues[p])
      BY <1>1, <2>1, <2>2
    <3>2. /\ queues'[q] \in Seq(Calls) /\ Len(queues'[q]) = Len(queues[p]) - 1
          /\ \A i \in 1..Len(queues'[q]) : queues'[q][i] = queues[p][i + 1]
      <4>1. queues[p] \in Seq(Calls) /\ queues[p] # <<>>
        BY <1>1, <1>2
      <4> QED BY <3>1, <4>1, TailIs
    <3>3. \A i \in 1..Len(queues'[q]) :
             i + 1 \in 1..Len(queues[p]) /\ i + 1 # 1 /\ queues[p][i + 1] \in Calls \ {c}
      BY <1>2, <1>3, <3>2
    <3> QED BY <1>2, <1>7, <2>2, <3>2, <3>3
  <2>3. CASE q # p
    <3>1. queues'[q] = queues[q]
      BY <1>1, <2>1, <2>3
    <3>2. \A i \in 1..Len(queues[q]) : queues[q][i] \in Calls \ {c}
      BY <1>4, <2>3 DEF OffloadInv, QueuesInv
    <3> QED BY <1>7, <3>1, <3>2 DEF OffloadInv, QueuesInv
  <2> QED BY <2>2, <2>3
<1>10. RegisterInv' /\ AnsweredInv'
  BY <1>1, <1>4, <1>7 DEF OffloadInv, RegisterInv, AnsweredInv, LoopRuns
<1>11. WorkersInv' /\ HeldInv'
  <2>1. CASE p = "heavy"
    <3>1. Running("recall")' = Running("recall")
      BY <1>4, <1>7, <2>1 DEF Running
    <3>2. \A d \in Running("recall") : call'[d] = call[d]
      BY <1>4, <1>7 DEF Running
    <3> QED BY <1>1, <3>1, <3>2, SameHolders DEF LoopRuns
  <2>2. CASE p = "recall"
    <3>1. Running("recall")' = Running("recall") \cup {c} /\ c \notin Running("recall")
      BY <1>4, <1>7, <2>2 DEF Running
    <3>2. Cardinality(Running("recall")') = Cardinality(Running("recall")) + 1
      BY <3>1, RunningFinite, FS_AddElement
    <3>3. WorkersInv'
      BY <1>1, <2>2, <3>2, RunningFinite, OffloadAssumption DEF Workers, WorkersInv
    <3>4. ASSUME LoopRuns PROVE Lates' = Lates
      <4>1. ~(call[c].age > Wait(call[c].kind))
        BY <1>0, <1>4, <3>4, WaitIs DEF OffloadInv, RegisterInv, AnsweredInv, Request
      <4> QED BY <1>7, <3>1, <4>1 DEF Lates, Late, Running
    <3>5. HeldInv'
      BY <1>1, <1>7, <3>4 DEF OffloadInv, HeldInv, LoopRuns, Lates, Running
    <3> QED BY <3>3, <3>5
  <2> QED BY <2>1, <2>2
<1> QED BY <1>1, <1>8, <1>9, <1>10, <1>11 DEF OffloadInv, RestartIsDeserved

LEMMA FinishStep ==
  ASSUME OffloadInv, NEW c \in Calls, Finish(c)
  PROVE  OffloadInv'
<1>1. /\ up /\ call[c].stage = "running" /\ call' = [call EXCEPT ![c] = Free]
      /\ held' = (IF Pool(call[c].kind) = "recall" THEN 0 ELSE held)
      /\ UNCHANGED <<queues, loop, up>>
  BY DEF Finish
<1>2. call \in [Calls -> Request] /\ Free \in Request
  BY DEF OffloadInv, OffloadTypes, Free, Request
<1>3. /\ call' \in [Calls -> Request] /\ call'[c] = Free
      /\ \A d \in Calls \ {c} : call'[d] = call[d]
  BY <1>1, <1>2
<1>4. OffloadTypes'
  BY <1>1, <1>3 DEF OffloadInv, OffloadTypes
<1>5. QueuesInv'
  BY <1>1, <1>3, SameQueues
<1>6. RegisterInv' /\ AnsweredInv'
  BY <1>1, <1>3 DEF Free, OffloadInv, RegisterInv, AnsweredInv, LoopRuns
<1>7. WorkersInv' /\ HeldInv'
  <2>1. CASE Pool(call[c].kind) = "recall"
    <3>1. Running("recall")' = Running("recall") \ {c} /\ c \in Running("recall")
      BY <1>1, <1>3, <2>1 DEF Running, Free
    <3>2. Cardinality(Running("recall")') = Cardinality(Running("recall")) - 1
      BY <3>1, RunningFinite, FS_RemoveElement
    <3>3. Lates' \subseteq Running("recall")'
      BY DEF Lates
    <3>4. Cardinality(Lates') <= Cardinality(Running("recall")')
      BY <3>1, <3>3, RunningFinite, FS_Subset, FS_RemoveElement
    <3>5. Cardinality(Lates') \in Nat
      BY <3>1, <3>3, RunningFinite DEF Running
    <3> QED BY <3>2, <3>4, <3>5, RunningFinite, OffloadAssumption
            DEF OffloadInv, WorkersInv, HeldInv
  <2>2. CASE Pool(call[c].kind) # "recall"
    <3>1. Running("recall")' = Running("recall")
          /\ \A d \in Running("recall") : call'[d] = call[d]
      BY <1>1, <1>3, <2>2 DEF Running, Free
    <3> QED BY <1>1, <2>2, <3>1, SameHolders DEF LoopRuns
  <2> QED BY <2>1, <2>2
<1>8. RestartIsDeserved'
  BY <1>1 DEF RestartIsDeserved
<1> QED BY <1>4, <1>5, <1>6, <1>7, <1>8 DEF OffloadInv

LEMMA ExpireStep ==
  ASSUME OffloadInv, NEW c \in Calls, Expire(c)
  PROVE  OffloadInv'
<1>1. /\ LoopRuns /\ call[c].waiting
      /\ call' = [call EXCEPT ![c] = Abandoned(c)]
      /\ Unqueue(c, Pool(call[c].kind))
      /\ loop' \in {"runs", "blocked"} /\ UNCHANGED <<up, held>>
  BY DEF Expire, InlineRecall, LoopRuns
<1>2. call \in [Calls -> Request] /\ call[c].inflight /\ Pool(call[c].kind) \in {"recall", "heavy"}
  BY <1>1 DEF OffloadInv, OffloadTypes, RegisterInv, Pool
<1>3. /\ Abandoned(c) \in Request /\ Abandoned(c).waiting = FALSE
      /\ call[c].stage = "queued" =>
           Abandoned(c).stage = "free" /\ Abandoned(c).inflight = FALSE
      /\ call[c].stage # "queued" =>
           /\ Abandoned(c).stage = call[c].stage /\ Abandoned(c).inflight = call[c].inflight
           /\ Abandoned(c).kind = call[c].kind /\ Abandoned(c).age = call[c].age
  <2>1. CASE call[c].stage = "queued"
    BY <2>1 DEF Abandoned, Free, Request
  <2>2. CASE call[c].stage # "queued"
    <3>1. Abandoned(c) = [call[c] EXCEPT !.waiting = FALSE] /\ call[c] \in Request
      BY <1>2, <2>2 DEF Abandoned
    <3> QED BY <2>2, <3>1 DEF Request
  <2> QED BY <2>1, <2>2
<1>4. /\ call' \in [Calls -> Request] /\ call'[c] = Abandoned(c)
      /\ \A d \in Calls \ {c} : call'[d] = call[d]
  BY <1>1, <1>2, <1>3
<1>5. RegisterInv' /\ AnsweredInv'
  BY <1>1, <1>2, <1>3, <1>4 DEF OffloadInv, RegisterInv, AnsweredInv
<1>6. WorkersInv' /\ HeldInv'
  <2>1. Running("recall")' = Running("recall")
    BY <1>3, <1>4 DEF Running
  <2>2. \A d \in Running("recall") :
           call'[d].age = call[d].age /\ call'[d].kind = call[d].kind
    BY <1>3, <1>4 DEF Running
  <2> QED BY <1>1, <2>1, <2>2, SameHolders
<1>7. QueuesInv' /\ DOMAIN queues' = {"recall", "heavy"}
  <2>0. DOMAIN queues = {"recall", "heavy"}
    BY DEF OffloadInv, OffloadTypes
  <2>1. CASE call[c].stage # "queued"
    <3>1. queues' = queues
      BY <1>1, <2>1 DEF Unqueue
    <3> QED BY <1>4, <2>0, <2>1, <3>1, SameQueues
  <2>2. CASE call[c].stage = "queued"
    <3> DEFINE p == Pool(call[c].kind)
    <3>1. PICK k \in DOMAIN queues[p] :
            queues[p][k] = c /\ queues' = [queues EXCEPT ![p] = RemoveAt(queues[p], k)]
      BY <1>1, <2>2 DEF Unqueue
    <3>2. p \in {"recall", "heavy"}
      BY <1>2
    <3>3. /\ queues[p] \in Seq(Calls) /\ Len(queues[p]) \in Nat /\ k \in 1..Len(queues[p])
          /\ \A i \in 1..Len(queues[p]) :
               /\ queues[p][i] \in Calls
               /\ call[queues[p][i]].stage = "queued" /\ Pool(call[queues[p][i]].kind) = p
               /\ \A j \in 1..Len(queues[p]) : queues[p][i] = queues[p][j] => i = j
      BY <3>1, <3>2 DEF OffloadInv, QueuesInv
    <3> HIDE DEF p
    <3>4. /\ queues'[p] = RemoveAt(queues[p], k) /\ DOMAIN queues' = {"recall", "heavy"}
          /\ \A q \in {"recall", "heavy"} \ {p} : queues'[q] = queues[q]
      BY <2>0, <3>1, <3>2
    <3>5. /\ queues'[p] \in Seq(Calls) /\ Len(queues'[p]) = Len(queues[p]) - 1
          /\ \A i \in 1..Len(queues'[p]) :
               queues'[p][i] = IF i < k THEN queues[p][i] ELSE queues[p][i + 1]
      <4>1. /\ RemoveAt(queues[p], k) \in Seq(Calls)
            /\ Len(RemoveAt(queues[p], k)) = Len(queues[p]) - 1
            /\ \A i \in 1..Len(RemoveAt(queues[p], k)) :
                 RemoveAt(queues[p], k)[i] = IF i < k THEN queues[p][i] ELSE queues[p][i + 1]
        <5>1. queues[p] \in Seq(Calls) /\ k \in 1..Len(queues[p])
          BY <3>3
        <5> QED BY ONLY <5>1, RemoveAtIs
      <4>2. queues'[p] = RemoveAt(queues[p], k)
        BY <3>4
      <4> QED BY ONLY <4>1, <4>2
    <3>6. ASSUME NEW i \in 1..Len(queues'[p])
          PROVE  \E h \in 1..Len(queues[p]) \ {k} :
                    queues'[p][i] = queues[p][h] /\ h = IF i < k THEN i ELSE i + 1
      <4>1. Len(queues[p]) \in Nat /\ k \in 1..Len(queues[p]) /\ i \in 1..Len(queues[p]) - 1
        BY <3>3, <3>5
      <4> DEFINE h == IF i < k THEN i ELSE i + 1
      <4>2. h \in 1..Len(queues[p]) \ {k}
        BY <4>1
      <4>3. queues'[p][i] = queues[p][h]
        BY <3>5
      <4> QED BY <4>2, <4>3
    <3>7. ASSUME NEW i \in 1..Len(queues'[p])
          PROVE  /\ queues'[p][i] \in Calls \ {c}
                 /\ call[queues'[p][i]].stage = "queued" /\ Pool(call[queues'[p][i]].kind) = p
      BY <3>1, <3>3, <3>6
    <3>8. ASSUME NEW i \in 1..Len(queues'[p]), NEW j \in 1..Len(queues'[p]),
                 queues'[p][i] = queues'[p][j]
          PROVE  i = j
      <4>1. PICK h \in 1..Len(queues[p]) \ {k} :
               queues'[p][i] = queues[p][h] /\ h = IF i < k THEN i ELSE i + 1
        BY <3>6
      <4>2. PICK m \in 1..Len(queues[p]) \ {k} :
               queues'[p][j] = queues[p][m] /\ m = IF j < k THEN j ELSE j + 1
        BY <3>6
      <4>3. h = m
        BY <3>3, <3>8, <4>1, <4>2
      <4> QED BY <3>3, <3>5, <4>1, <4>2, <4>3
    <3>9. ASSUME NEW q \in {"recall", "heavy"} \ {p}, NEW i \in 1..Len(queues[q])
          PROVE  queues[q][i] \in Calls \ {c}
      <4>1. Pool(call[queues[q][i]].kind) = q /\ queues[q][i] \in Calls
        BY DEF OffloadInv, QueuesInv
      <4> QED BY <4>1 DEF p
    <3>10. QueuesInv'
      <4> SUFFICES ASSUME NEW q \in {"recall", "heavy"}
                   PROVE  /\ queues'[q] \in Seq(Calls)
                          /\ \A i \in 1..Len(queues'[q]) :
                               /\ call'[queues'[q][i]].stage = "queued"
                               /\ Pool(call'[queues'[q][i]].kind) = q
                               /\ \A j \in 1..Len(queues'[q]) :
                                    queues'[q][i] = queues'[q][j] => i = j
        BY DEF QueuesInv
      <4>1. CASE q = p
        BY <1>4, <3>5, <3>7, <3>8, <4>1
      <4>2. CASE q # p
        BY <1>4, <3>4, <3>9, <4>2 DEF OffloadInv, QueuesInv
      <4> QED BY <4>1, <4>2
    <3> QED BY <3>4, <3>10
  <2> QED BY <2>1, <2>2
<1>8. OffloadTypes'
  BY <1>1, <1>4, <1>7 DEF OffloadInv, OffloadTypes
<1> QED BY <1>1, <1>5, <1>6, <1>7, <1>8 DEF OffloadInv, RestartIsDeserved

\* One unit of time: the pool is held for one unit more, and what is late for
\* the first time is late by one.
LEMMA TickStep ==
  ASSUME OffloadInv, Tick
  PROVE  OffloadInv'
<1>1. /\ up /\ UNCHANGED <<queues, loop, up>>
      /\ LoopRuns => \A c \in Calls : call[c].waiting => call[c].age < Wait(call[c].kind)
      /\ call' = [c \in Calls |->
                    IF call[c].stage \in {"queued", "running"} /\ call[c].age < MaxAge
                    THEN [call[c] EXCEPT !.age = call[c].age + 1] ELSE call[c]]
  BY DEF Tick
<1>2. /\ call \in [Calls -> Request] /\ held \in Nat
      /\ \A c \in Calls : call[c].age \in Nat /\ Wait(call[c].kind) \in Nat
  BY WaitIs DEF OffloadInv, OffloadTypes, Request
<1>3. ASSUME NEW c \in Calls
      PROVE  /\ call'[c] \in Request /\ call'[c].stage = call[c].stage
             /\ call'[c].kind = call[c].kind /\ call'[c].waiting = call[c].waiting
             /\ call'[c].inflight = call[c].inflight
             /\ call'[c].age \in {call[c].age, call[c].age + 1}
  <2>1. call[c] \in Request /\ call[c].age \in Nat
    BY <1>2
  <2>2. CASE call'[c] = call[c]
    BY <2>1, <2>2
  <2>3. CASE call'[c] = [call[c] EXCEPT !.age = call[c].age + 1]
    BY <2>1, <2>3 DEF Request
  <2> QED BY <1>1, <2>2, <2>3
<1>4. call' \in [Calls -> Request]
  <2>1. call' = [c \in Calls |-> call'[c]]
    BY <1>1
  <2> QED BY <1>3, <2>1
<1>5. Running("recall")' = Running("recall")
  BY <1>3 DEF Running
<1>6. Lates' = {c \in Running("recall") : call'[c].age > Wait(call[c].kind)}
  BY <1>3, <1>5 DEF Lates, Late, Running
<1>7. /\ held' \in Nat
      /\ Cardinality(Lates') >= RecallWorkers => held' >= SaturationSec \/ held' = held + 1
  <2>1. Min({held + 1, SaturationSec}) \in {held + 1, SaturationSec}
    BY <1>2, MinIs, OffloadAssumption
  <2>2. Cardinality(Lates') \in Nat
    BY <1>6, RunningFinite DEF Running
  <2> QED BY <1>2, <1>6, <2>1, <2>2, OffloadAssumption DEF Tick
<1>8. HeldInv'
  <2>0. LoopRuns' <=> LoopRuns
    BY <1>1 DEF LoopRuns
  <2>1. Lates \subseteq Lates'
    BY <1>2, <1>3, <1>6 DEF Lates, Late, Running
  <2>2. ASSUME LoopRuns, Cardinality(Lates') >= RecallWorkers, held' = held + 1
        PROVE  held' >= SaturationSec
               \/ \E c \in Lates' : call'[c].age <= Wait(call'[c].kind) + held'
    <3>1. CASE Lates' = Lates
      <4>1. CASE held >= SaturationSec
        BY <1>2, <2>2, <4>1, OffloadAssumption
      <4>2. CASE \E c \in Lates : call[c].age <= Wait(call[c].kind) + held
        <5>1. PICK c \in Lates : call[c].age <= Wait(call[c].kind) + held
          BY <4>2
        <5>2. c \in Calls
          BY DEF Lates, Running
        <5> QED BY <1>2, <1>3, <2>2, <3>1, <5>1, <5>2
      <4> QED BY <2>2, <3>1, <4>1, <4>2 DEF OffloadInv, HeldInv
    <3>2. CASE Lates' # Lates
      <4>1. PICK c \in Lates' : c \notin Lates
        BY <2>1, <3>2
      <4>2. c \in Calls /\ c \in Running("recall") /\ ~(call[c].age > Wait(call[c].kind))
        BY <1>6, <4>1 DEF Lates, Late, Running
      <4> QED BY <1>2, <1>3, <2>2, <4>1, <4>2
    <3> QED BY <3>1, <3>2
  <2>3. LoopRuns /\ Cardinality(Lates') >= RecallWorkers =>
           held' >= SaturationSec
           \/ \E c \in Lates' : call'[c].age <= Wait(call'[c].kind) + held'
    <3> DEFINE late == \E c \in Lates' : call'[c].age <= Wait(call'[c].kind) + held'
               full == Cardinality(Lates') >= RecallWorkers
    <3>1. full => held' >= SaturationSec \/ held' = held + 1
      BY <1>7
    <3>2. LoopRuns /\ full /\ held' = held + 1 => held' >= SaturationSec \/ late
      BY <2>2
    <3> HIDE DEF late, full
    <3>3. LoopRuns /\ full => held' >= SaturationSec \/ late
      BY <3>1, <3>2
    <3> QED BY <3>3, Zenon DEF late, full
  <2> QED BY <2>0, <2>3, Zenon DEF HeldInv
<1>9. QueuesInv'
  <2>1. ASSUME NEW p \in {"recall", "heavy"}, NEW i \in 1..Len(queues[p])
        PROVE  /\ call'[queues[p][i]].stage = "queued"
               /\ Pool(call'[queues[p][i]].kind) = p
    <3>1. /\ queues[p][i] \in Calls /\ call[queues[p][i]].stage = "queued"
          /\ Pool(call[queues[p][i]].kind) = p
      BY DEF OffloadInv, QueuesInv
    <3> QED BY <1>3, <3>1
  <2>2. queues' = queues
    BY <1>1
  <2> QED BY <2>1, <2>2 DEF OffloadInv, QueuesInv
<1>10. RegisterInv'
  BY <1>3 DEF OffloadInv, RegisterInv
<1>11. AnsweredInv'
  BY <1>1, <1>2, <1>3 DEF AnsweredInv, LoopRuns
<1>12. OffloadTypes'
  BY <1>1, <1>4, <1>7 DEF OffloadInv, OffloadTypes
<1>13. WorkersInv'
  BY <1>5 DEF OffloadInv, WorkersInv
<1>14. RestartIsDeserved'
  BY <1>1 DEF RestartIsDeserved
<1> QED BY <1>8, <1>9, <1>10, <1>11, <1>12, <1>13, <1>14 DEF OffloadInv

\* The watchdog exits: the call that is late for the shortest time says how long
\* the pool has been held.
LEMMA SelfHealStep ==
  ASSUME OffloadInv, SelfHeal
  PROVE  OffloadInv'
<1>1. LoopRuns /\ SaturatedFor >= SaturationSec /\ up' = FALSE
      /\ UNCHANGED <<call, queues, loop, held>>
  BY DEF SelfHeal
<1>2. /\ call \in [Calls -> Request] /\ held \in Nat
      /\ \A c \in Calls : call[c].age \in Nat /\ Wait(call[c].kind) \in Nat
  BY WaitIs DEF OffloadInv, OffloadTypes, Request
<1>3. Orphans = Lates
  <2>1. ASSUME NEW c \in Orphans PROVE c \in Lates
    <3>1. c \in Calls /\ call[c].inflight /\ Pool(call[c].kind) = "recall" /\ Late(c)
      BY DEF Orphans, Inflight
    <3>2. ~call[c].waiting
      BY <1>1, <1>2, <3>1 DEF OffloadInv, AnsweredInv, Late
    <3>3. call[c].stage = "running"
      BY <3>1, <3>2 DEF OffloadInv, RegisterInv
    <3> QED BY <3>1, <3>3 DEF Lates, Running
  <2>2. Lates \subseteq Orphans
    BY DEF Lates, Orphans, Running, Inflight, OffloadInv, RegisterInv
  <2> QED BY <2>1, <2>2
<1>4. Cardinality(Lates) >= RecallWorkers
  <2>1. Cardinality(Lates) \in Nat
    BY RunningFinite DEF Lates, Running
  <2> QED BY <1>1, <1>3, <2>1, OffloadAssumption DEF SaturatedFor
<1>5. held >= SaturationSec
  <2> SUFFICES ASSUME NEW c \in Lates, call[c].age <= Wait(call[c].kind) + held
               PROVE  held >= SaturationSec
    BY <1>1, <1>4 DEF OffloadInv, HeldInv
  <2> DEFINE late == {call[d].age - Wait(call[d].kind) : d \in Orphans}
  <2>1. late \subseteq Nat
    BY <1>2 DEF Orphans, Inflight, Late
  <2>2. call[c].age - Wait(call[c].kind) \in late
    BY <1>3
  <2>3. SaturatedFor = Min(late)
    BY <1>3, <1>4, RunningFinite, OffloadAssumption DEF SaturatedFor, Lates, Running
  <2>4. Min(late) \in Nat /\ Min(late) <= call[c].age - Wait(call[c].kind)
    <3> HIDE DEF late
    <3> QED BY <2>1, <2>2, MinIs
  <2>5. c \in Calls
    BY DEF Lates, Running
  <2> QED BY <1>1, <1>2, <2>3, <2>4, <2>5, OffloadAssumption
<1>6. OffloadTypes' /\ RestartIsDeserved' /\ AnsweredInv' /\ HeldInv'
  BY <1>1, <1>5 DEF OffloadInv, OffloadTypes, RestartIsDeserved, AnsweredInv, HeldInv, LoopRuns
<1>7. QueuesInv' /\ RegisterInv' /\ WorkersInv'
  BY <1>1 DEF OffloadInv, QueuesInv, RegisterInv, WorkersInv, Running
<1> QED BY <1>6, <1>7 DEF OffloadInv

LEMMA ShedBootStep ==
  ASSUME OffloadInv, ShedBoot
  PROVE  OffloadInv'
<1>1. LoopRuns /\ UNCHANGED <<call, queues, up, held>> /\ loop' \in {"runs", "blocked"}
  BY DEF ShedBoot, InlineRecall
<1>2. Running("recall")' = Running("recall")
  BY <1>1 DEF Running
<1>3. WorkersInv' /\ HeldInv'
  BY <1>1, <1>2, SameHolders
<1>4. OffloadTypes' /\ QueuesInv' /\ RegisterInv' /\ AnsweredInv' /\ RestartIsDeserved'
  BY <1>1 DEF OffloadInv, OffloadTypes, QueuesInv, RegisterInv, AnsweredInv, RestartIsDeserved
<1> QED BY <1>3, <1>4 DEF OffloadInv

\* An empty process, the first one or the one launchd starts.
LEMMA EmptyPools == OffloadInit => OffloadInv
<1> SUFFICES ASSUME OffloadInit PROVE OffloadInv
  OBVIOUS
<1>0. /\ call = [c \in Calls |-> Free] /\ queues = [p \in {"recall", "heavy"} |-> <<>>]
      /\ loop = "runs" /\ up = TRUE /\ held = 0
  BY DEF OffloadInit
<1>1. Free \in Request /\ \A c \in Calls : call[c] = Free
  BY <1>0 DEF Free, Request
<1>2. OffloadTypes
  BY <1>0, <1>1 DEF OffloadTypes
<1>3. QueuesInv
  BY <1>0 DEF QueuesInv
<1>4. RegisterInv /\ AnsweredInv /\ RestartIsDeserved
  BY <1>0, <1>1 DEF Free, RegisterInv, AnsweredInv, RestartIsDeserved
<1>5. Running("recall") = {} /\ Lates = {}
  BY <1>1 DEF Running, Lates, Free
<1>6. Cardinality(Running("recall")) = 0 /\ Cardinality(Lates) = 0
  BY <1>5, FS_EmptySet
<1>7. WorkersInv
  BY <1>6, OffloadAssumption DEF WorkersInv
<1>8. ~(Cardinality(Lates) >= RecallWorkers)
  BY <1>6, OffloadAssumption
<1>9. HeldInv
  BY <1>8, Zenon DEF HeldInv
<1> QED BY <1>2, <1>3, <1>4, <1>7, <1>9 DEF OffloadInv

LEMMA RestartStep ==
  ASSUME OffloadInv, Restart
  PROVE  OffloadInv'
<1>1. OffloadInit'
  BY DEF OffloadInv, OffloadTypes, Restart, OffloadInit, Free
<1> QED BY <1>1, EmptyPools, PTL

LEMMA OffloadSteps ==
  ASSUME OffloadInv, [OffloadNext]_offloadVars
  PROVE  OffloadInv'
<1>1. CASE UNCHANGED offloadVars
  <2>1. UNCHANGED <<call, queues, loop, up, held>>
    BY <1>1 DEF offloadVars
  <2>2. Running("recall")' = Running("recall")
    BY <2>1 DEF Running
  <2>3. WorkersInv' /\ HeldInv'
    BY <2>1, <2>2, SameHolders DEF LoopRuns
  <2>4. OffloadTypes' /\ QueuesInv' /\ RegisterInv' /\ AnsweredInv' /\ RestartIsDeserved'
    BY <2>1 DEF OffloadInv, OffloadTypes, QueuesInv, RegisterInv, AnsweredInv,
                RestartIsDeserved, LoopRuns
  <2> QED BY <2>3, <2>4 DEF OffloadInv
<1>2. CASE OffloadNext
  <2>1. CASE Tick
    BY <2>1, TickStep
  <2>2. CASE SelfHeal
    BY <2>2, SelfHealStep
  <2>3. CASE Restart
    BY <2>3, RestartStep
  <2>4. CASE ShedBoot
    BY <2>4, ShedBootStep
  <2>5. CASE \E c \in Calls : AdmitBoot(c)
    BY <2>5, AdmitBootStep
  <2>6. CASE \E c \in Calls : Finish(c)
    BY <2>6, FinishStep
  <2>7. CASE \E c \in Calls : Expire(c)
    BY <2>7, ExpireStep
  <2>8. CASE \E c \in Calls : \E kind \in Kinds : Submit(c, kind)
    BY <2>8, SubmitStep
  <2>9. CASE \E p \in {"recall", "heavy"} : Start(p)
    BY <2>9, StartCallStep
  <2> QED BY <1>2, <2>1, <2>2, <2>3, <2>4, <2>5, <2>6, <2>7, <2>8, <2>9 DEF OffloadNext
<1> QED BY <1>1, <1>2

(***************************************************************************)
(* The watchdog exits only from a real wedge: whatever is submitted, times *)
(* out, is cancelled or hangs, when saturated_for() reaches the saturation *)
(* time every recall worker has been held by a call past its deadline for  *)
(* at least that long (offload.py, server.py's watchdog).                  *)
(***************************************************************************)
THEOREM RestartsAreDeserved == OffloadSpec => []RestartIsDeserved
<1>1. OffloadInit => OffloadInv
  BY EmptyPools
<1>2. OffloadInv /\ [OffloadNext]_offloadVars => OffloadInv'
  BY OffloadSteps
<1>3. OffloadInv => RestartIsDeserved
  BY DEF OffloadInv
<1> QED BY <1>1, <1>2, <1>3, PTL DEF OffloadSpec

(***************************************************************************)
(* Links: the inductive invariant.                                         *)
(***************************************************************************)
LinkNames == Titles \cup {Base[x] : x \in Pages}
Targets == (UNION {c.links : c \in Contents}) \cup {Mention(n) : n \in LinkNames}
Edges == [src : Pages, target : Targets, kind : {"links-to", "mentions"},
          dst : Pages \cup {NoDoc}]

LinkTypes ==
  /\ Present \subseteq Pages
  /\ \A d \in Present : docs[d] \in [title : Titles, content : Contents]
  /\ edges \subseteq Edges

\* Two docs of one name have spoiled it,
Namesakes ==
  \A x, y \in Present : x # y /\ Base[x] = Base[y] => Base[x] \in spoiled

\* and so has a link that found a doc of another name: what dangles when a doc
\* is deleted was bound to it under its own name, or under a spoiled one.
Strayed == \A e \in edges : e.dst # NoDoc => Base[e.dst] = e.target.norm
                                             \/ e.target.norm \in spoiled

EndsThere == \A e \in edges : e.src \in Present /\ e.dst \in Present \cup {NoDoc}

BoundByName ==
  \A e \in edges, d \in Present :
      e.target.norm = Base[d] /\ Base[d] \notin spoiled => e.dst # NoDoc

LinksInv == LinkTypes /\ Namesakes /\ Strayed /\ EndsThere /\ BoundByName

LEMMA OnlyOfASingleton ==
  ASSUME NEW S, S \subseteq Pages
  PROVE  /\ Only(S) \in S \cup {NoDoc}
         /\ \A x : S = {x} => Cardinality(S) = 1 /\ Only(S) = x
<1>1. IsFiniteSet(S)
  BY LinksAssumption, FS_Subset
<1>2. Cardinality(S) = 1 <=> \E x : S = {x}
  BY <1>1, FS_Singleton
<1>3. ASSUME NEW x, S = {x} PROVE (CHOOSE d \in S : TRUE) = x
  BY <1>3
<1>4. CASE Cardinality(S) = 1
  <2>1. PICK x : S = {x}
    BY <1>2, <1>4
  <2>2. Only(S) = x
    BY <1>3, <1>4, <2>1 DEF Only
  <2> QED
    BY <1>4, <2>1, <2>2
<1>5. CASE Cardinality(S) # 1
  BY <1>2, <1>5 DEF Only
<1> QED
  BY <1>4, <1>5

\* resolve_ref answers a doc that is there, or none.
LEMMA ResolvesToPresent ==
  ASSUME NEW all, DOMAIN all \subseteq Pages, NEW src, NEW t
  PROVE  Resolve(all, src, t) \in DOMAIN all \cup {NoDoc}
<1> DEFINE here == {d \in t.at : d \in DOMAIN all /\ Source[d] = Source[src]}
           named == {d \in DOMAIN all : Base[d] = t.norm}
           same == {d \in named : Source[d] = Source[src]}
           titled == {d \in DOMAIN all : all[d].title = t.text}
           owned == {d \in DOMAIN all : Source[d] = "trovex" /\ Base[d] = t.text}
<1>1. here # {} => (CHOOSE d \in here : TRUE) \in DOMAIN all
  OBVIOUS
<1>2. \A S \in SUBSET (DOMAIN all) : Only(S) \in DOMAIN all \cup {NoDoc}
  BY OnlyOfASingleton
<1>3. /\ Only(same) \in DOMAIN all \cup {NoDoc} /\ Only(named) \in DOMAIN all \cup {NoDoc}
      /\ Only(titled) \in DOMAIN all \cup {NoDoc} /\ Only(owned) \in DOMAIN all \cup {NoDoc}
  BY <1>2
<1> HIDE DEF here, named, same, titled, owned
<1>4. Resolve(all, src, t) =
        IF here # {} THEN CHOOSE d \in here : TRUE
        ELSE IF Cardinality(same) = 1 THEN Only(same)
        ELSE IF same = {} /\ Cardinality(named) = 1 THEN Only(named)
        ELSE IF Cardinality(titled) = 1 THEN Only(titled)
        ELSE Only(owned)
  BY DEF Resolve, here, named, same, titled, owned
<1> QED
  BY <1>1, <1>3, <1>4

\* It finds some doc under a name that one doc has.
LEMMA NameIsFound ==
  ASSUME NEW all, DOMAIN all \subseteq Pages, NEW src, NEW t, NEW x \in DOMAIN all,
         Base[x] = t.norm, \A y \in DOMAIN all : Base[y] = Base[x] => y = x
  PROVE  Resolve(all, src, t) # NoDoc
<1> DEFINE here == {d \in t.at : d \in DOMAIN all /\ Source[d] = Source[src]}
           named == {d \in DOMAIN all : Base[d] = t.norm}
           same == {d \in named : Source[d] = Source[src]}
           titled == {d \in DOMAIN all : all[d].title = t.text}
           owned == {d \in DOMAIN all : Source[d] = "trovex" /\ Base[d] = t.text}
<1>1. named = {x}
  OBVIOUS
<1>2. same = {x} \/ same = {}
  BY <1>1
<1>3. here # {} => (CHOOSE d \in here : TRUE) \in DOMAIN all
  OBVIOUS
<1>4. Cardinality(named) = 1 /\ Only(named) = x
  BY <1>1, OnlyOfASingleton
<1>5. same = {x} => Cardinality(same) = 1 /\ Only(same) = x
  BY OnlyOfASingleton
<1>6. same = {} => Cardinality(same) # 1
  BY FS_EmptySet
<1> HIDE DEF here, named, same, titled, owned
<1>7. Resolve(all, src, t) =
        IF here # {} THEN CHOOSE d \in here : TRUE
        ELSE IF Cardinality(same) = 1 THEN Only(same)
        ELSE IF same = {} /\ Cardinality(named) = 1 THEN Only(named)
        ELSE IF Cardinality(titled) = 1 THEN Only(titled)
        ELSE Only(owned)
  BY DEF Resolve, here, named, same, titled, owned
<1>8. x # NoDoc /\ NoDoc \notin DOMAIN all
  BY LinksAssumption
<1> QED
  BY <1>2, <1>3, <1>4, <1>5, <1>6, <1>7, <1>8

\* What a write leaves: edges of other docs, as they were or re-bound, and the
\* links of the new text.
LEMMA SyncedEdge ==
  ASSUME NEW all, NEW d, NEW f \in Synced(all, d)
  PROVE  \E e : /\ \/ e \in edges /\ e.src # d
                   \/ \E t \in all[d].content.links :
                        e = Edge(d, t, "links-to", Resolve(all, d, t))
                /\ f = IF e.dst = NoDoc /\ e.target.norm \in Keys(all, d)
                       THEN [e EXCEPT !.dst = Resolve(all, e.src, e.target)] ELSE e
BY DEF Synced

LEMMA WriteDocStep ==
  ASSUME LinksInv, NEW d \in Pages, WriteDoc(d) PROVE LinksInv'
<1> USE DEF LinksInv
<1>1. PICK title \in Titles, content \in Contents :
        /\ docs' = [x \in Present \cup {d} |->
                      IF x = d THEN [title |-> title, content |-> content] ELSE docs[x]]
        /\ edges' = Synced(docs', d)
  BY DEF WriteDoc
<1>2. DOMAIN docs' = Present \cup {d} /\ Present' = Present \cup {d}
  BY <1>1 DEF Present
<1>3. /\ DOMAIN docs' \subseteq Pages /\ docs'[d].title = title
      /\ docs'[d].content = content
  BY <1>1, <1>2 DEF LinkTypes
<1>4. \A x \in Present' : docs'[x] \in [title : Titles, content : Contents]
  BY <1>1, <1>2 DEF LinkTypes
<1>5. /\ Strays(edges') \subseteq spoiled' /\ spoiled \subseteq spoiled'
      /\ \A y \in Present \ {d} : Base[y] = Base[d] => Base[d] \in spoiled'
  BY DEF WriteDoc
<1>6. Namesakes'
  BY <1>2, <1>5 DEF Namesakes
<1>7. \A x \in Present' : Base[x] \notin spoiled' =>
          \A y \in DOMAIN docs' : Base[y] = Base[x] => y = x
  BY <1>2, <1>6 DEF Namesakes
<1>8. ASSUME NEW f \in edges'
      PROVE  /\ f \in Edges /\ f.src \in Present' /\ f.dst \in Present' \cup {NoDoc}
             /\ \A x \in Present' :
                  f.target.norm = Base[x] /\ Base[x] \notin spoiled' => f.dst # NoDoc
  <2>0. f \in Synced(docs', d)
    BY <1>1
  <2>1. PICK e : /\ \/ e \in edges /\ e.src # d
                    \/ \E t \in docs'[d].content.links :
                         e = Edge(d, t, "links-to", Resolve(docs', d, t))
                 /\ f = IF e.dst = NoDoc /\ e.target.norm \in Keys(docs', d)
                        THEN [e EXCEPT !.dst = Resolve(docs', e.src, e.target)] ELSE e
    BY <2>0, SyncedEdge, Zenon
  <2>2. /\ e \in Edges /\ e.src \in Present'
        /\ e.dst \in Present' \cup {NoDoc}
        /\ e \in edges \/ e.dst = Resolve(docs', e.src, e.target)
    <3>1. CASE e \in edges
      BY <3>1, <1>2 DEF LinkTypes, EndsThere
    <3>2. CASE \E t \in docs'[d].content.links : e = Edge(d, t, "links-to", Resolve(docs', d, t))
      <4>1. PICK t \in content.links : e = Edge(d, t, "links-to", Resolve(docs', d, t))
        BY <3>2, <1>3
      <4>2. Resolve(docs', d, t) \in Present' \cup {NoDoc}
        BY <1>2, <1>3, ResolvesToPresent
      <4>3. t \in Targets
        BY DEF Targets
      <4> HIDE DEF LinksInv
      <4>4. /\ e.src = d /\ e.target = t /\ e.dst = Resolve(docs', d, t)
        BY <4>1 DEF Edge
      <4> DEFINE r == Resolve(docs', d, t)
      <4>5. r \in Pages \cup {NoDoc}
        BY <4>2, <1>2, <1>3
      <4> HIDE DEF r
      <4>6. e = [src |-> d, target |-> t, kind |-> "links-to", dst |-> r]
        BY <4>1 DEF Edge, r
      <4>7. e \in Edges
        BY <4>5, <4>6, <4>3 DEF Edges
      <4> QED
        BY <4>2, <4>4, <4>7, <1>2
    <3> QED
      BY <2>1, <3>1, <3>2
  <2> DEFINE r == Resolve(docs', e.src, e.target)
  <2>3. r \in Present' \cup {NoDoc} /\ r \in Pages \cup {NoDoc}
    BY <1>2, <1>3, ResolvesToPresent
  <2>4. ASSUME NEW x \in Present', e.target.norm = Base[x], Base[x] \notin spoiled'
        PROVE  r # NoDoc
    BY <2>4, <1>2, <1>3, <1>7, NameIsFound
  <2>5. CASE e.dst = NoDoc /\ e.target.norm \in Keys(docs', d)
    <3>1. f = [e EXCEPT !.dst = r]
      BY <2>1, <2>5
    <3> HIDE DEF r
    <3>2. f \in Edges /\ f.src = e.src /\ f.dst = r /\ f.target = e.target
      BY <3>1, <2>2, <2>3 DEF Edges
    <3> QED
      BY <3>2, <2>2, <2>3, <2>4
  <2>6. CASE ~(e.dst = NoDoc /\ e.target.norm \in Keys(docs', d))
    <3>1. f = e
      BY <2>1, <2>6
    <3>2. ASSUME NEW x \in Present', e.target.norm = Base[x], Base[x] \notin spoiled',
                 e.dst = NoDoc
          PROVE  FALSE
      <4>1. x # d
        BY <3>2, <2>6 DEF Keys
      <4>2. x \in Present /\ Base[x] \notin spoiled
        BY <4>1, <3>2, <1>2, <1>5
      <4>3. e \notin edges
        BY <4>2, <3>2 DEF BoundByName
      <4> QED
        BY <4>3, <2>2, <2>4, <3>2
    <3> QED
      BY <3>1, <3>2, <2>2
  <2> QED
    BY <2>5, <2>6
<1>9. Strayed'
  BY <1>5 DEF Strayed, Strays
<1> QED
  BY <1>2, <1>3, <1>4, <1>6, <1>8, <1>9 DEF LinkTypes, EndsThere, BoundByName

LEMMA DeleteDocStep ==
  ASSUME LinksInv, NEW d \in Pages, DeleteDoc(d) PROVE LinksInv'
<1> USE DEF LinksInv
<1>1. /\ Present' = Present \ {d} /\ spoiled' = spoiled \cup {Base[d]}
      /\ \A x \in Present \ {d} : docs'[x] = docs[x]
      /\ edges' = Orphaned(d)
  BY DEF DeleteDoc, Present
<1>2. ASSUME NEW f \in edges'
      PROVE  /\ f \in Edges /\ f.src \in Present' /\ f.dst \in Present' \cup {NoDoc}
             /\ f.dst # NoDoc => Base[f.dst] = f.target.norm \/ f.target.norm \in spoiled'
             /\ \A x \in Present' :
                  f.target.norm = Base[x] /\ Base[x] \notin spoiled' => f.dst # NoDoc
  <2>1. PICK e \in edges :
          e.src # d /\ f = IF e.dst = d THEN [e EXCEPT !.dst = NoDoc] ELSE e
    BY <1>1 DEF Orphaned
  <2>2. e \in Edges /\ e.src \in Present' /\ e.dst \in Present \cup {NoDoc}
    BY <1>1, <2>1 DEF LinkTypes, EndsThere
  <2>3. CASE e.dst = d
    <3>1. f = [e EXCEPT !.dst = NoDoc]
      BY <2>1, <2>3
    <3>2. f \in Edges /\ f.src = e.src /\ f.dst = NoDoc /\ f.target = e.target
      BY <3>1, <2>2 DEF Edges
    <3>3. e.target.norm \in spoiled'
      BY <2>3, <1>1, LinksAssumption DEF Strayed
    <3> QED
      BY <3>2, <3>3, <2>2
  <2>4. CASE e.dst # d
    BY <2>1, <2>2, <2>4, <1>1 DEF Strayed, BoundByName
  <2> QED
    BY <2>3, <2>4
<1>3. LinkTypes' /\ EndsThere' /\ BoundByName' /\ Strayed'
  BY <1>1, <1>2 DEF LinkTypes, EndsThere, BoundByName, Strayed
<1>4. Namesakes'
  BY <1>1 DEF Namesakes
<1> QED
  BY <1>3, <1>4

LEMMA InferStep ==
  ASSUME LinksInv, NEW d \in Pages, Infer(d) PROVE LinksInv'
<1> USE DEF LinksInv
<1>1. /\ d \in Present /\ docs' = docs /\ Present' = Present
      /\ spoiled' = spoiled \cup Strays(edges')
  BY DEF Infer, Present
<1>2. ASSUME NEW f \in edges', f \notin edges
      PROVE  \E n \in LinkNames, x \in Present : f = Edge(d, Mention(n), "mentions", x)
  BY <1>2 DEF Infer, Names, LinkNames
<1>3. ASSUME NEW f \in edges', f \notin edges
      PROVE  f \in Edges /\ f.src \in Present /\ f.dst \in Present
  <2>1. PICK n \in LinkNames, x \in Present : f = Edge(d, Mention(n), "mentions", x)
    BY <1>2, <1>3
  <2>2. Mention(n) \in Targets
    BY DEF Targets
  <2>3. f = [src |-> d, target |-> Mention(n), kind |-> "mentions", dst |-> x]
    BY <2>1 DEF Edge
  <2>4. x \in Pages
    BY DEF LinkTypes
  <2> QED
    BY <1>1, <2>2, <2>3, <2>4 DEF Edges
<1>4. NoDoc \notin Present
  BY LinksAssumption DEF LinkTypes
<1>5. LinkTypes' /\ EndsThere' /\ BoundByName'
  BY <1>1, <1>3, <1>4 DEF LinkTypes, EndsThere, BoundByName
<1>6. Strayed'
  BY <1>1 DEF Strayed, Strays
<1>7. Namesakes'
  BY <1>1 DEF Namesakes
<1> QED
  BY <1>5, <1>6, <1>7

LEMMA LinksInvInit == LinksInit => LinksInv
BY DEF LinksInit, NoDocs, LinksInv, LinkTypes, Namesakes, Strayed, EndsThere,
       BoundByName, Present

LEMMA LinksInvStep == LinksInv /\ [LinksNext]_linkVars => LinksInv'
<1>1. CASE UNCHANGED linkVars
  BY <1>1 DEF linkVars, LinksInv, LinkTypes, Namesakes, Strayed, EndsThere,
              BoundByName, Present
<1>2. CASE LinksNext
  BY <1>2, WriteDocStep, DeleteDocStep, InferStep DEF LinksNext
<1> QED
  BY <1>1, <1>2

\* An edge ends at docs that are there, and a link to a file's name is bound
\* whichever of the two was written first and whatever happens between, until the
\* name stood for something else.
THEOREM LinksAreBound == LinksSpec => []EdgesAreBound
<1>1. LinksInv => EdgesAreBound
  BY DEF LinksInv, EndsThere, BoundByName, EdgesAreBound
<1> QED
  BY <1>1, LinksInvInit, LinksInvStep, PTL DEF LinksSpec

-----------------------------------------------------------------------------

(***************************************************************************)
(* Version histories: a walk is what its steps make of it.                 *)
(***************************************************************************)
\* What holds of 0 and of each successor holds of all.
LEMMA EveryNat ==
  ASSUME NEW S, 0 \in S, \A n \in Nat : n \in S => n + 1 \in S
  PROVE  \A n \in Nat : n \in S
<1> SUFFICES ASSUME NEW k \in Nat, k \notin S PROVE FALSE
  OBVIOUS
<1> DEFINE T == {n \in Nat : n \notin S}
<1>1. PICK m \in T : \A j \in T : m <= j
  <2>1. T \subseteq Nat /\ k \in T
    OBVIOUS
  <2> HIDE DEF T
  <2> QED BY <2>1, LeastOfNats
<1>2. m \in Nat /\ m # 0 /\ m - 1 \in Nat /\ m - 1 \notin T
  BY <1>1
<1>3. (m - 1) + 1 \in S
  BY <1>2
<1> QED BY <1>1, <1>2, <1>3

\* f is what a step g makes of s, turn after turn.
StepOn(S, g) == g \in [S -> S]
Repeats(S, g, s, f) == f \in [Nat -> S] /\ f[0] = s /\ \A n \in Nat : f[n + 1] = g[f[n]]

\* A step can be repeated for ever.
LEMMA Iterates ==
  ASSUME NEW S, NEW g, StepOn(S, g), NEW s \in S
  PROVE  \E f : Repeats(S, g, s, f)
<1> USE DEF StepOn
<1> DEFINE Starts(f, n) == f[0] = s /\ \A m \in Nat : m < n => f[m + 1] = g[f[m]]
           T == {n \in Nat : \E f \in [Nat -> S] : Starts(f, n)}
<1>1. 0 \in T
  <2> DEFINE f == [n \in Nat |-> s]
  <2>1. f \in [Nat -> S] /\ Starts(f, 0)
    OBVIOUS
  <2> QED BY <2>1
<1>2. ASSUME NEW n \in Nat, n \in T PROVE n + 1 \in T
  <2>1. PICK f \in [Nat -> S] : Starts(f, n)
    BY <1>2
  <2> DEFINE h == [m \in Nat |-> IF m = n + 1 THEN g[f[n]] ELSE f[m]]
  <2>2. h \in [Nat -> S]
    OBVIOUS
  <2>3. h[0] = s
    BY <2>1
  <2>4. ASSUME NEW m \in Nat, m < n + 1 PROVE h[m + 1] = g[h[m]]
    <3>1. h[m] = f[m] /\ m <= n
      BY <2>4
    <3>2. CASE m = n
      BY <3>1, <3>2
    <3>3. CASE m # n
      <4>1. m < n /\ m + 1 # n + 1 /\ m + 1 \in Nat
        BY <3>1, <3>3
      <4>2. h[m + 1] = f[m + 1]
        BY <4>1
      <4> QED BY <2>1, <3>1, <4>1, <4>2
    <3> QED BY <3>2, <3>3
  <2>5. Starts(h, n + 1)
    BY <2>3, <2>4
  <2>6. \E e \in [Nat -> S] : Starts(e, n + 1)
    <3> HIDE DEF h, Starts
    <3> QED BY <2>2, <2>5
  <2> QED BY <2>6
<1>3. \A n \in Nat : n \in T
  <2> HIDE DEF T
  <2> QED BY <1>1, <1>2, EveryNat
<1> DEFINE F == [n \in Nat |-> CHOOSE f \in [Nat -> S] : Starts(f, n)]
<1>4. \A n \in Nat : F[n] \in [Nat -> S] /\ Starts(F[n], n)
  <2> SUFFICES ASSUME NEW n \in Nat PROVE F[n] \in [Nat -> S] /\ Starts(F[n], n)
    OBVIOUS
  <2>1. \E f \in [Nat -> S] : Starts(f, n)
    BY <1>3
  <2>2. F[n] = CHOOSE f \in [Nat -> S] : Starts(f, n)
    OBVIOUS
  <2> HIDE DEF F, Starts
  <2> QED BY <2>1, <2>2
<1> HIDE DEF F
<1>5. ASSUME NEW n \in Nat PROVE F[n + 1][n] = F[n][n]
  <2> DEFINE U == {m \in Nat : m <= n => F[n + 1][m] = F[n][m]}
  <2>1. Starts(F[n], n) /\ Starts(F[n + 1], n + 1)
    BY <1>4
  <2>2. 0 \in U
    BY <2>1
  <2>3. ASSUME NEW m \in Nat, m \in U PROVE m + 1 \in U
    <3> SUFFICES ASSUME m + 1 <= n PROVE F[n + 1][m + 1] = F[n][m + 1]
      OBVIOUS
    <3>1. F[n + 1][m] = F[n][m] /\ m < n /\ m < n + 1
      BY <2>3
    <3> QED BY <2>1, <3>1
  <2>4. \A m \in Nat : m \in U
    <3> HIDE DEF U
    <3> QED BY <2>2, <2>3, EveryNat
  <2> QED BY <2>4
<1> DEFINE h == [n \in Nat |-> F[n][n]]
<1>6. h \in [Nat -> S] /\ h[0] = s
  BY <1>4
<1>7. ASSUME NEW n \in Nat PROVE h[n + 1] = g[h[n]]
  <2>1. F[n + 1][n + 1] = g[F[n + 1][n]]
    BY <1>4
  <2> QED BY <2>1, <1>5
<1>8. Repeats(S, g, s, h)
  BY <1>6, <1>7 DEF Repeats
<1> QED BY <1>8

-----------------------------------------------------------------------------
Routes == Seq(Pages) \ {<< >>}

\* One turn of the loop of resolve_as_of.
Further(older, born, t, path) ==
  IF InForce(born[Last(path)], t) \/ older[Last(path)] \in {NoDoc} \cup Range(path)
  THEN path ELSE Append(path, older[Last(path)])

Versions(older, born) == older \in [Pages -> Pages \cup {NoDoc}] /\ born \in [Pages -> Nat]

LEMMA LastOfRoute ==
  ASSUME NEW path \in Routes
  PROVE  Len(path) \in Nat \ {0} /\ Last(path) = path[Len(path)] /\ Last(path) \in Pages
<1>1. path \in Seq(Pages) /\ path # << >>
  BY DEF Routes
<1>2. Len(path) \in Nat \ {0}
  BY <1>1, EmptySeq
<1> QED BY <1>1, <1>2 DEF Last

LEMMA FurtherIsRoute ==
  ASSUME NEW older, NEW born, Versions(older, born), NEW t \in Nat, NEW path \in Routes
  PROVE  Further(older, born, t, path) \in Routes
<1>1. CASE older[Last(path)] \in {NoDoc} \cup Range(path)
  BY <1>1 DEF Further
<1>2. CASE older[Last(path)] \notin {NoDoc} \cup Range(path)
  <2>1. older[Last(path)] \in Pages
    BY <1>2, LastOfRoute DEF Versions
  <2>2. Append(path, older[Last(path)]) \in Seq(Pages)
        /\ Append(path, older[Last(path)]) # << >>
    BY <2>1, AppendProperties DEF Routes
  <2> QED BY <2>2 DEF Further, Routes
<1> QED BY <1>1, <1>2

Turns(older, born, d, t, walk) ==
  /\ walk \in [Nat -> Routes] /\ walk[0] = <<d>>
  /\ \A n \in Nat : walk[n + 1] = Further(older, born, t, walk[n])

\* resolve_as_of turns the loop once per doc, from the doc it was given.
LEMMA AsOfWalks ==
  ASSUME NEW older, NEW born, Versions(older, born), NEW t \in Nat, NEW d \in Pages
  PROVE  \E walk : /\ Turns(older, born, d, t, walk)
                   /\ AsOf(older, born, d, t) = Last(walk[Cardinality(Pages)])
<1> DEFINE Body(w) == [n \in Nat |->
                         IF n = 0 THEN <<d>>
                         ELSE IF InForce(born[Last(w[n - 1])], t)
                                 \/ older[Last(w[n - 1])] \in {NoDoc} \cup Range(w[n - 1])
                              THEN w[n - 1] ELSE Append(w[n - 1], older[Last(w[n - 1])])]
           W == CHOOSE w : w = Body(w)
           g == [path \in Routes |-> Further(older, born, t, path)]
<1>1. DOMAIN born = Pages
  BY DEF Versions
<1>2. AsOf(older, born, d, t) = Last(W[Cardinality(Pages)])
  BY <1>1 DEF AsOf
<1>3. g \in [Routes -> Routes] /\ <<d>> \in Routes
  BY FurtherIsRoute DEF Routes
<1>4. PICK f \in [Nat -> Routes] : f[0] = <<d>> /\ \A n \in Nat : f[n + 1] = g[f[n]]
  <2> DEFINE first == <<d>>
  <2>1. StepOn(Routes, g) /\ first \in Routes
    BY <1>3 DEF StepOn
  <2>2. \E f : Repeats(Routes, g, first, f)
    <3> HIDE DEF g, first
    <3> QED BY <2>1, Iterates
  <2> QED BY <2>2 DEF Repeats
<1>5. \A n \in Nat : f[n + 1] = Further(older, born, t, f[n])
  BY <1>4
<1>6. \A n \in Nat : n # 0 => f[n] = Further(older, born, t, f[n - 1])
  <2> SUFFICES ASSUME NEW n \in Nat, n # 0 PROVE f[n] = Further(older, born, t, f[n - 1])
    OBVIOUS
  <2>1. n - 1 \in Nat /\ (n - 1) + 1 = n
    OBVIOUS
  <2> QED BY <1>5, <2>1
<1>7. f = Body(f)
  BY <1>4, <1>6 DEF Further
<1>8. W = Body(W)
  <2> HIDE DEF Body
  <2> QED BY <1>7
<1> HIDE DEF W, g
<1>9. W[0] = <<d>> /\ \A n \in Nat : W[n + 1] = Further(older, born, t, W[n])
  <2>1. \A n \in Nat : W[n] = Body(W)[n]
    BY <1>8
  <2>2. W[0] = <<d>>
    BY <2>1
  <2>3. ASSUME NEW n \in Nat PROVE W[n + 1] = Further(older, born, t, W[n])
    <3>1. n + 1 \in Nat /\ n + 1 # 0 /\ (n + 1) - 1 = n
      OBVIOUS
    <3> QED BY <2>1, <3>1 DEF Further
  <2> QED BY <2>2, <2>3
<1>10. DOMAIN W = Nat
  BY <1>8
<1>11. \A n \in Nat : W[n] \in Routes
  <2> DEFINE U == {n \in Nat : W[n] \in Routes}
  <2>1. 0 \in U
    BY <1>9, <1>3
  <2>2. ASSUME NEW n \in Nat, n \in U PROVE n + 1 \in U
    BY <2>2, <1>9, FurtherIsRoute
  <2>3. \A n \in Nat : n \in U
    <3> HIDE DEF U
    <3> QED BY <2>1, <2>2, EveryNat
  <2> QED BY <2>3
<1>12. W \in [Nat -> Routes]
  <2>1. W = [n \in Nat |-> W[n]]
    BY <1>8, <1>10
  <2> HIDE DEF Body
  <2> QED BY <2>1, <1>11
<1>13. Turns(older, born, d, t, W)
  BY <1>9, <1>12 DEF Turns
<1> QED BY <1>2, <1>13

-----------------------------------------------------------------------------
\* A doc is younger than what it replaced.
Younger(older, born) == \A d \in Pages : older[d] # NoDoc => born[older[d]] < born[d]

\* Where the loop has come from d: back along `older', over docs not in force.
Walked(older, born, d, t, path) ==
  /\ path \in Routes /\ path[1] = d
  /\ \A i \in 1..Len(path) : path[i] \in Line(older, d)
  /\ \A i \in 1..Len(path) - 1 : older[path[i]] = path[i + 1] /\ ~InForce(born[path[i]], t)
  /\ \A i, j \in 1..Len(path) : i < j => born[path[j]] < born[path[i]]

Stops(older, born, t, path) == InForce(born[Last(path)], t) \/ older[Last(path)] = NoDoc

LEMMA LineFollows ==
  ASSUME NEW older, NEW born, Versions(older, born), NEW d \in Pages,
         NEW x \in Line(older, d), older[x] # NoDoc
  PROVE  older[x] \in Line(older, d)
<1>1. x \in Pages /\ older[x] \in Pages
  BY DEF Line, Versions
<1> QED BY <1>1 DEF Line

LEMMA LineStarts == ASSUME NEW older, NEW d \in Pages PROVE d \in Line(older, d)
BY DEF Line

\* A set with the doc and, with a doc, the one it replaced.
LEMMA LineWithin ==
  ASSUME NEW older, NEW d \in Pages, NEW S \in SUBSET Pages, d \in S,
         \A y \in S : older[y] # NoDoc => older[y] \in S
  PROVE  Line(older, d) \subseteq S
BY DEF Line

LEMMA WalkedGoesOn ==
  ASSUME NEW older, NEW born, Versions(older, born), Younger(older, born),
         NEW d \in Pages, NEW t \in Nat, NEW path, Walked(older, born, d, t, path)
  PROVE  /\ Walked(older, born, d, t, Further(older, born, t, path))
         /\ Stops(older, born, t, path) => Further(older, born, t, path) = path
         /\ ~Stops(older, born, t, path) => Len(Further(older, born, t, path)) = Len(path) + 1
<1> DEFINE here == path[Len(path)]
           next == older[here]
<1>1. path \in Routes /\ path \in Seq(Pages) /\ Len(path) \in Nat \ {0} /\ Last(path) = here
      /\ here \in Pages
  BY LastOfRoute DEF Walked, Routes
<1>2. CASE Stops(older, born, t, path)
  BY <1>1, <1>2 DEF Stops, Further
<1>3. CASE ~Stops(older, born, t, path)
  <2>1. ~InForce(born[here], t) /\ next # NoDoc /\ next \in Pages
    BY <1>1, <1>3 DEF Stops, Versions
  <2>2. born[next] \in Nat /\ born[here] \in Nat /\ born[next] < born[here]
    BY <1>1, <2>1 DEF Younger, Versions
  <2>3. \A i \in 1..Len(path) : path[i] \in Pages /\ born[path[i]] \in Nat
                                /\ born[here] <= born[path[i]]
    <3> SUFFICES ASSUME NEW i \in 1..Len(path)
                 PROVE  path[i] \in Pages /\ born[path[i]] \in Nat /\ born[here] <= born[path[i]]
      OBVIOUS
    <3>1. path[i] \in Pages /\ born[path[i]] \in Nat
      BY <1>1, ElementOfSeq DEF Versions
    <3>2. i < Len(path) => born[here] < born[path[i]]
      BY <1>1 DEF Walked
    <3>3. i = Len(path) \/ i < Len(path)
      BY <1>1
    <3> QED BY <3>1, <3>2, <3>3, <2>2
  <2>4. next \notin Range(path)
    <3>1. ASSUME next \in Range(path) PROVE FALSE
      <4>1. PICK i \in 1..Len(path) : path[i] = next
        BY <3>1, <1>1 DEF Range
      <4>2. born[here] <= born[next]
        BY <4>1, <2>3
      <4> QED BY <4>2, <2>2
    <3> QED BY <3>1
  <2>5. Further(older, born, t, path) = Append(path, next)
    BY <1>1, <2>1, <2>4 DEF Further
  <2> DEFINE longer == Append(path, next)
  <2>6. /\ longer \in Routes /\ Len(longer) = Len(path) + 1 /\ longer[Len(path) + 1] = next
        /\ \A i \in 1..Len(path) : longer[i] = path[i]
    <3>1. longer \in Seq(Pages) /\ longer # << >> /\ Len(longer) = Len(path) + 1
          /\ longer[Len(path) + 1] = next /\ \A i \in 1..Len(path) : longer[i] = path[i]
      BY <1>1, <2>1, AppendProperties
    <3> QED BY <3>1 DEF Routes
  <2> HIDE DEF longer
  <2>7. \A i \in 1..Len(longer) : i \in 1..Len(path) \/ i = Len(path) + 1
    BY <1>1, <2>6
  <2>8. longer[1] = d
    BY <1>1, <2>6 DEF Walked
  <2>9. \A i \in 1..Len(longer) : longer[i] \in Line(older, d)
    <3>1. here \in Line(older, d)
      BY <1>1 DEF Walked
    <3>2. next \in Line(older, d)
      BY <3>1, <2>1, LineFollows
    <3>3. \A i \in 1..Len(path) : path[i] \in Line(older, d)
      BY DEF Walked
    <3> QED BY <3>2, <3>3, <2>6, <2>7
  <2>10. ASSUME NEW i \in 1..Len(longer) - 1
         PROVE  older[longer[i]] = longer[i + 1] /\ ~InForce(born[longer[i]], t)
    <3>1. i \in 1..Len(path) /\ longer[i] = path[i]
      BY <1>1, <2>6
    <3>2. CASE i = Len(path)
      BY <3>1, <3>2, <2>1, <2>6
    <3>3. CASE i # Len(path)
      <4>1. i \in 1..Len(path) - 1 /\ i + 1 \in 1..Len(path)
        BY <3>1, <3>3, <1>1
      <4>2. older[path[i]] = path[i + 1] /\ ~InForce(born[path[i]], t)
        BY <4>1 DEF Walked
      <4> QED BY <4>1, <4>2, <3>1, <2>6
    <3> QED BY <3>2, <3>3
  <2>11. ASSUME NEW i \in 1..Len(longer), NEW j \in 1..Len(longer), i < j
         PROVE  born[longer[j]] < born[longer[i]]
    <3>1. i \in 1..Len(path) /\ longer[i] = path[i]
      BY <1>1, <2>6, <2>11
    <3>2. CASE j \in 1..Len(path)
      BY <3>1, <3>2, <2>6, <2>11 DEF Walked
    <3>3. CASE j = Len(path) + 1
      <4>1. longer[j] = next /\ born[here] <= born[path[i]] /\ born[path[i]] \in Nat
        BY <3>1, <3>3, <2>3, <2>6
      <4> QED BY <4>1, <3>1, <2>2
    <3> QED BY <3>2, <3>3, <2>7
  <2> QED BY <1>3, <2>5, <2>6, <2>8, <2>9, <2>10, <2>11 DEF Walked, longer
<1> QED BY <1>2, <1>3

\* A walk is never longer than there are docs: it has stopped by then.
LEMMA WalkStops ==
  ASSUME NEW older, NEW born, Versions(older, born), Younger(older, born),
         NEW d \in Pages, NEW t \in Nat, NEW walk, Turns(older, born, d, t, walk)
  PROVE  LET path == walk[Cardinality(Pages)]
         IN  Walked(older, born, d, t, path) /\ Stops(older, born, t, path)
<1> DEFINE Good(n) == Walked(older, born, d, t, walk[n])
                      /\ (Stops(older, born, t, walk[n]) \/ Len(walk[n]) = n + 1)
           U == {n \in Nat : Good(n)}
<1>0. walk[0] = <<d>> /\ \A n \in Nat : walk[n + 1] = Further(older, born, t, walk[n])
  BY DEF Turns
<1>1. 0 \in U
  <2> DEFINE first == <<d>>
  <2>1. first \in Routes /\ Len(first) = 1 /\ first[1] = d
    BY DEF Routes
  <2>2. d \in Line(older, d)
    BY LineStarts
  <2> HIDE DEF first
  <2>3. Walked(older, born, d, t, first)
    BY <2>1, <2>2 DEF Walked
  <2>4. walk[0] = first
    BY <1>0 DEF first
  <2> QED BY <2>1, <2>3, <2>4
<1>2. ASSUME NEW n \in Nat, n \in U PROVE n + 1 \in U
  <2>1. PICK p, q : p = walk[n] /\ q = walk[n + 1]
    OBVIOUS
  <2>2. /\ Walked(older, born, d, t, p) /\ q = Further(older, born, t, p)
        /\ Stops(older, born, t, p) \/ Len(p) = n + 1
    BY <1>0, <1>2, <2>1
  <2>3. /\ Walked(older, born, d, t, q)
        /\ Stops(older, born, t, p) => q = p
        /\ ~Stops(older, born, t, p) => Len(q) = Len(p) + 1
    BY <2>2, WalkedGoesOn
  <2>4. Stops(older, born, t, q) \/ Len(q) = (n + 1) + 1
    BY <2>2, <2>3
  <2> QED BY <2>1, <2>3, <2>4
<1>3. \A n \in Nat : n \in U
  <2> HIDE DEF U
  <2> QED BY <1>1, <1>2, EveryNat
<1> DEFINE many == Cardinality(Pages)
           path == walk[many]
<1>4. many \in Nat
  BY LinksAssumption, FS_CardinalityType
<1>5. Good(many)
  BY <1>3, <1>4
<1>6. ASSUME Len(path) = many + 1 PROVE FALSE
  <2>1. path \in Seq(Pages)
    BY <1>5 DEF Walked, Routes
  <2>2. path \in [1..many + 1 -> Pages]
    <3> HIDE DEF path, many
    <3>1. path \in [1..Len(path) -> Pages]
      BY <2>1, LenProperties, ElementOfSeq
    <3> QED BY <3>1, <1>6
  <2>3. \A i, j \in 1..many + 1 : i # j => path[i] # path[j]
    <3> SUFFICES ASSUME NEW i \in 1..many + 1, NEW j \in 1..many + 1, i # j, path[i] = path[j]
                 PROVE  FALSE
      OBVIOUS
    <3>1. born[path[i]] \in Nat /\ born[path[j]] \in Nat
      BY <2>2 DEF Versions
    <3>2. i < j => born[path[j]] < born[path[i]]
      BY <1>5, <1>6 DEF Walked
    <3>3. j < i => born[path[i]] < born[path[j]]
      BY <1>5, <1>6 DEF Walked
    <3>4. i < j \/ j < i
      BY <1>4
    <3> QED BY <3>1, <3>2, <3>3, <3>4
  <2>4. path \in Injection(1..many + 1, Pages)
    BY <2>2, <2>3 DEF Injection, IsInjective
  <2>5. Cardinality(1..many + 1) <= many
    BY <2>4, FS_Injection, LinksAssumption
  <2>6. Cardinality(1..many + 1) = many + 1
    BY <1>4, FS_Interval
  <2> QED BY <2>5, <2>6, <1>4
<1> QED BY <1>5, <1>6
\* What the walk shows is in force, and the latest in the line that is.
LEMMA ShownIsInForce ==
  ASSUME NEW older, NEW born, Versions(older, born), Younger(older, born),
         NEW d \in Pages, NEW t \in Nat
  PROVE  LET valid == {x \in Line(older, d) : born[x] <= t}
             shown == AsOf(older, born, d, t)
         IN  IF valid = {} THEN shown \in Line(older, d) /\ older[shown] = NoDoc
             ELSE shown \in valid /\ \A x \in valid : born[x] <= born[shown]
<1>1. PICK walk :
        /\ Turns(older, born, d, t, walk)
        /\ AsOf(older, born, d, t) = Last(walk[Cardinality(Pages)])
  BY AsOfWalks
<1>2. PICK path : /\ path = walk[Cardinality(Pages)]
                  /\ Walked(older, born, d, t, path) /\ Stops(older, born, t, path)
  BY <1>1, WalkStops
<1> DEFINE shown == path[Len(path)]
           passed == {path[i] : i \in 1..Len(path) - 1}
           later == {y \in Pages : born[y] < born[shown]}
<1>3. /\ AsOf(older, born, d, t) = shown /\ Last(path) = shown /\ shown \in Pages
      /\ path \in Seq(Pages) /\ Len(path) \in Nat \ {0}
  BY <1>1, <1>2, LastOfRoute DEF Walked, Routes
<1>4. shown \in Line(older, d)
  BY <1>2, <1>3 DEF Walked
<1>5. \A i \in 1..Len(path) : path[i] \in Pages
  BY <1>3, ElementOfSeq
<1>6. \A x \in Line(older, d) : x \in Pages /\ born[x] \in Nat
  BY DEF Line, Versions
<1>7. \A x \in passed : ~(born[x] <= t)
  BY <1>2 DEF Walked, InForce
<1>8. d \in passed \cup {shown}
  <2>1. path[1] = d
    BY <1>2 DEF Walked
  <2>2. 1 = Len(path) \/ 1 \in 1..Len(path) - 1
    <3>1. \A n \in Nat \ {0} : 1 = n \/ 1 \in 1..n - 1
      OBVIOUS
    <3> QED BY <1>3, <3>1, Zenon
  <2> QED BY <2>1, <2>2
<1>9. \A y \in passed : older[y] \in passed \cup {shown}
  <2> SUFFICES ASSUME NEW i \in 1..Len(path) - 1
               PROVE  older[path[i]] \in passed \cup {shown}
    OBVIOUS
  <2>1. older[path[i]] = path[i + 1]
    BY <1>2 DEF Walked
  <2>2. i + 1 = Len(path) \/ i + 1 \in 1..Len(path) - 1
    BY <1>3
  <2> QED BY <2>1, <2>2
<1>10. Line(older, d) \subseteq passed \cup {shown} \cup later
  <2> DEFINE S == passed \cup {shown} \cup later
  <2>1. S \in SUBSET Pages /\ d \in S
    BY <1>3, <1>5, <1>8
  <2>2. ASSUME NEW y \in S, older[y] # NoDoc PROVE older[y] \in S
    <3>1. CASE y \in passed
      BY <3>1, <1>9
    <3>2. CASE y \notin passed
      <4>1. y \in Pages /\ older[y] \in Pages /\ born[older[y]] < born[y]
        BY <2>1, <2>2 DEF Versions, Younger
      <4>2. born[y] <= born[shown]
        BY <3>2, <1>3, <2>1 DEF Versions
      <4>3. born[older[y]] < born[shown]
        BY <4>1, <4>2, <1>3 DEF Versions
      <4> QED BY <4>1, <4>3
    <3> QED BY <3>1, <3>2
  <2> HIDE DEF S
  <2>3. Line(older, d) \subseteq S
    BY <2>1, <2>2, LineWithin
  <2> QED BY <2>3 DEF S
<1> HIDE DEF passed, shown, later
<1>11. CASE born[shown] <= t
  <2>1. \A x \in Line(older, d) : born[x] <= t => born[x] <= born[shown]
    BY <1>3, <1>6, <1>7, <1>10 DEF later, Versions
  <2> QED BY <2>1, <1>3, <1>4, <1>11
<1>12. CASE ~(born[shown] <= t)
  <2>1. older[shown] = NoDoc
    BY <1>2, <1>3, <1>12 DEF Stops, InForce
  <2>2. passed \cup {shown} \in SUBSET Pages
    BY <1>3, <1>5 DEF passed
  <2>3. \A y \in passed \cup {shown} : older[y] # NoDoc => older[y] \in passed \cup {shown}
    BY <1>9, <2>1
  <2>4. Line(older, d) \subseteq passed \cup {shown}
    BY <2>2, <2>3, <1>8, LineWithin
  <2>5. \A x \in Line(older, d) : ~(born[x] <= t)
    BY <2>4, <1>7, <1>12
  <2> QED BY <2>1, <2>5, <1>3, <1>4
<1> QED BY <1>11, <1>12

\* trovex_read(as_of=...) shows the version in force at that time: the latest of a
\* doc's line that was not written after it, or the oldest (store.py resolve_as_of),
\* for any histories in which docs are younger than what they replaced.
THEOREM VersionsAreShown == HistorySpec => []AsOfShowsTheVersion
<1> DEFINE Inv == /\ Versions(history.older, history.born)
                  /\ \A t \in 0..LastTime + 1 : t \in Nat
<1>1. HistoryInit => Inv
  <2> SUFFICES ASSUME HistoryInit PROVE Inv
    OBVIOUS
  <2>1. LastTime \in Nat
    BY LinksAssumption
  <2>2. \A n \in 1..LastTime : n \in Nat
    BY <2>1
  <2>3. history.older \in [Pages -> Pages \cup {NoDoc}] /\ history.born \in [Pages -> 1..LastTime]
    BY DEF HistoryInit
  <2> QED BY <2>1, <2>2, <2>3 DEF Versions
<1>2. Inv /\ [LinksNext]_linkVars => Inv'
  BY DEF linkVars, LinksNext, WriteDoc, DeleteDoc, Infer
<1>3. Inv => AsOfShowsTheVersion
  <2> SUFFICES ASSUME Inv, Younger(history.older, history.born)
               PROVE  AsOfShowsTheVersion
    BY DEF AsOfShowsTheVersion, Younger, Versions
  <2>1. DOMAIN history.born = Pages
    BY DEF Versions
  <2> QED BY <2>1, ShownIsInForce DEF AsOfShowsTheVersion
<1> QED BY <1>1, <1>2, <1>3, PTL DEF HistorySpec

(***************************************************************************)
(* Reindex: the inductive invariant.                                       *)
(***************************************************************************)
\* What is no doc has nothing of one.
Blank(rows) == \A p \in Paths : ~Known(rows, p) => rows[p] = NoRow

\* An mtime that is the file's says that the text is, unless a watcher's pass
\* has stat()ed a file after the edit it did not read.
Told(rows) ==
  \A p \in Paths :
    /\ rows[p].mtime <= edits
    /\ "paths" \notin disturbed /\ Known(rows, p) /\ rows[p].mtime = files[p].mtime =>
         rows[p].hash = files[p].content

Sound(rows) == Blank(rows) /\ Told(rows)

RowsInv ==
  /\ Sound(view) /\ Sound(committed) /\ Sound(pass.existing)
  /\ \A p \in Paths : files[p].mtime <= edits
  /\ pass.mtime <= edits

\* Where a pass is and what it holds.
StageInv ==
  /\ pass.pc = "idle" => pass = Resting
  /\ pass.pc # "idle" => pass.kind # "none"
  /\ pass.pc # "idle" /\ pass.kind \notin disturbed => edited = {}
  /\ pass.full => pass.kind = "source"
  /\ pass.pc = "read" =>
       /\ pass.cur \in Paths \ (pass.todo \cup pass.touched)
       /\ pass.kind = "source" => pass.cur \in pass.seen
       /\ pass.kind = "paths" => pass.content \in Texts
  /\ pass.pc \in {"graph", "rate", "pair"} =>
       pass.batch = {} /\ pass.todo = {} /\ (pass.kind = "source" => Vanished = {})
  /\ pass.touched \cap pass.todo = {}
  /\ pass.kind = "source" => pass.touched \subseteq pass.seen /\ pass.seen \cap pass.todo = {}

\* What waits for its vectors is what a doc the pass wrote says, once.
BatchInv ==
  /\ \A p \in pass.touched : Known(view, p)
  /\ \A b \in pass.batch : b[1] \in pass.touched /\ view[b[1]].hash = b[2]
  /\ \A a, b \in pass.batch : a[1] = b[1] => a = b

\* A doc the pass over the source has not written is as it was, or gone with its
\* file.
KeptInv ==
  pass.kind = "source" =>
    \A p \in Paths \ pass.touched :
      \/ ~Known(view, p) /\ p \notin pass.seen /\ pass.todo = {}
      \/ /\ view[p].hash = pass.existing[p].hash
         /\ pass.pc \notin {"rate", "pair"} \/ ~pass.removed => view[p].rated = pass.existing[p].rated

\* A file nobody edits is seen by the scan exactly if it exists, and indexed then.
SeenInv ==
  pass.kind = "source" =>
    \A p \in Paths \ edited :
      /\ p \in pass.seen => Exists(p)
      /\ p \notin pass.seen \cup pass.todo => ~Exists(p)
      /\ p \in pass.seen /\ ~(pass.pc = "read" /\ pass.cur = p) =>
           /\ Known(view, p)
           /\ pass.full => p \in pass.touched
           /\ "paths" \notin disturbed => view[p].hash = files[p].content

\* The pass has read the file as it still is.
UpToDate(p) ==
  \/ pass.kind = "source" /\ p \notin edited
  \/ pass.kind = "paths" /\ "paths" \notin disturbed

\* What it wrote is of that reading.
TouchedInv ==
  /\ \A p \in pass.touched : UpToDate(p) => view[p].hash = files[p].content
  /\ pass.pc = "read" /\ pass.kind = "paths" /\ "paths" \notin disturbed =>
       pass.content = files[pass.cur].content

\* What has no vector of its text is about to get one: of the docs the pass wrote,
\* and of all until a pass fails.
EmbeddedInv ==
  \A p \in Paths :
    /\ p \in pass.touched \/ faults = 0 =>
         view[p].vec = view[p].hash \/ \E b \in pass.batch : b[1] = p
    /\ faults = 0 =>
         view[p].cvec = view[p].hash \/ \E b \in pass.batch : b[1] = p /\ b[3]

\* The same of the status, and what a pass has just rated is of its file.
DerivedInv ==
  /\ faults = 0 /\ disturbed = {} =>
       \A p \in Paths :
         \/ view[p].rated = view[p].hash
         \/ p \in pass.touched /\ pass.pc # "pair"
         \/ pass.pc = "rate" /\ p \in ToRate
  /\ pass.kind = "source" /\ pass.pc = "pair" =>
       \A p \in ToRate \ edited : view[p].rated = files[p].content

ReindexInv ==
  /\ RowsTypeOK /\ RowsInv /\ StageInv /\ BatchInv /\ KeptInv /\ SeenInv
  /\ TouchedInv /\ EmbeddedInv /\ DerivedInv

Passes ==
  [pc : {"idle", "scan", "read", "embed", "graph", "rate", "pair"}, kind : {"none", "source", "paths"},
   full : BOOLEAN, existing : [Paths -> Doc], todo : SUBSET Paths,
   seen : SUBSET Paths, cur : Paths \cup {NoPath},
   content : Texts \cup {NoFile}, mtime : 0..MaxFileEdits,
   batch : SUBSET (Paths \X Texts \X BOOLEAN), touched : SUBSET Paths,
   removed : BOOLEAN, drivers : SUBSET Paths, marked : SUBSET Paths]

-----------------------------------------------------------------------------
(***************************************************************************)
(* Reindex: rows and passes.                                               *)
(***************************************************************************)
ReindexTypes ==
  /\ files \in [Paths -> File] /\ committed \in [Paths -> Doc] /\ view \in [Paths -> Doc]
  /\ pass \in Passes /\ edits \in 0..MaxFileEdits /\ faults \in 0..MaxFaults
  /\ edited \subseteq Paths /\ disturbed \subseteq {"source", "paths", "rating"}

LEMMA TypesAre == (RowsTypeOK <=> ReindexTypes) /\ (RowsTypeOK' <=> ReindexTypes')
BY Zenon DEF RowsTypeOK, ReindexTypes, Passes

\* A step of a pass that writes rows and nothing else.
LEMMA RowsWritten ==
  ASSUME RowsTypeOK, view' \in [Paths -> Doc], pass' \in Passes,
         UNCHANGED <<files, committed, edits, faults, edited, disturbed>>
  PROVE  RowsTypeOK'
BY Zenon, TypesAre DEF ReindexTypes

LEMMA NoRowIs ==
  /\ NoRow \in Doc /\ [p \in Paths |-> NoRow] \in [Paths -> Doc]
  /\ NoRow.hash = NoFile /\ NoRow.vec = NoFile /\ NoRow.cvec = NoFile
  /\ NoRow.rated = NoFile /\ NoRow.mtime = 0
BY ConstantsAssumption DEF NoRow, Doc

LEMMA RestingIs ==
  /\ Resting \in Passes
  /\ Resting.pc = "idle" /\ Resting.kind = "none" /\ Resting.full = FALSE
  /\ Resting.existing = [p \in Paths |-> NoRow] /\ Resting.todo = {} /\ Resting.seen = {}
  /\ Resting.mtime = 0 /\ Resting.batch = {} /\ Resting.touched = {} /\ Resting.removed = FALSE
BY NoRowIs, ConstantsAssumption DEF Resting, Passes

LEMMA NoRowsSound == edits \in Nat => Sound([p \in Paths |-> NoRow])
BY NoRowIs DEF Sound, Blank, Told, Known

\* A pass that is over.
LEMMA RestingInv ==
  ASSUME RowsTypeOK', Sound(view)', Sound(committed)', \A p \in Paths : (files[p].mtime <= edits)',
         pass' = Resting,
         faults' = 0 =>
           \A p \in Paths :
             /\ view'[p].vec = view'[p].hash /\ view'[p].cvec = view'[p].hash
             /\ disturbed' = {} => view'[p].rated = view'[p].hash
  PROVE  ReindexInv'
<1>1. RowsInv'
  <2>1. edits' \in Nat
    BY ConstantsAssumption DEF RowsTypeOK
  <2>2. Sound(pass.existing)'
    BY <2>1, RestingIs, NoRowIs DEF Sound, Blank, Told, Known
  <2> QED
    BY <2>1, <2>2, RestingIs DEF RowsInv
<1>2. StageInv'
  BY RestingIs DEF StageInv
<1>3. BatchInv' /\ KeptInv' /\ SeenInv' /\ TouchedInv'
  BY RestingIs DEF BatchInv, KeptInv, SeenInv, TouchedInv
<1>4. EmbeddedInv'
  BY RestingIs DEF EmbeddedInv
<1>5. DerivedInv'
  BY RestingIs DEF DerivedInv
<1> QED
  BY <1>1, <1>2, <1>3, <1>4, <1>5 DEF ReindexInv

LEMMA ReindexInit == Init => ReindexInv
<1> SUFFICES ASSUME Init PROVE ReindexInv
  OBVIOUS
<1>1. RowsTypeOK
  BY ConstantsAssumption, NoRowIs, RestingIs DEF Init, RowsTypeOK, Passes, File
<1>2. RowsInv
  BY NoRowIs, RestingIs DEF Init, RowsInv, Sound, Blank, Told, Known
<1>3. StageInv /\ BatchInv /\ KeptInv /\ SeenInv /\ TouchedInv
  BY RestingIs DEF Init, StageInv, BatchInv, KeptInv, SeenInv, TouchedInv
<1>4. EmbeddedInv /\ DerivedInv
  BY RestingIs, NoRowIs DEF Init, EmbeddedInv, DerivedInv
<1> QED
  BY <1>1, <1>2, <1>3, <1>4 DEF ReindexInv

\* A file is edited.
LEMMA EditFileStep ==
  ASSUME ReindexInv, EditFile
  PROVE  ReindexInv'
<1> PICK p \in Paths, c \in Texts \cup {NoFile} :
       /\ c # files[p].content
       /\ files' = [files EXCEPT ![p] = [content |-> c, mtime |-> edits + 1]]
       /\ edited' = edited \cup {p}
  BY DEF EditFile
<1>1. /\ edits \in Nat /\ edits' = edits + 1 /\ edits' \in 0..MaxFileEdits
      /\ disturbed' = disturbed \cup ({pass.kind} \ {"none"})
      /\ UNCHANGED <<committed, view, pass, faults>>
      /\ pass \in Passes
  BY ConstantsAssumption DEF EditFile, ReindexInv, RowsTypeOK, Passes
<1>2. /\ files \in [Paths -> File] /\ [content |-> c, mtime |-> edits + 1] \in File
      /\ files'[p] = [content |-> c, mtime |-> edits + 1]
      /\ \A q \in Paths \ {p} : files'[q] = files[q]
  BY <1>1 DEF ReindexInv, RowsTypeOK, File
<1>3. pass.kind = "none" <=> pass.pc = "idle"
  BY RestingIs DEF ReindexInv, StageInv
<1>4. RowsTypeOK'
  <2>1. files' \in [Paths -> File]
    BY <1>2
  <2>2. disturbed' \subseteq {"source", "paths", "rating"}
    BY <1>1 DEF ReindexInv, RowsTypeOK, Passes
  <2> QED
    BY <1>1, <2>1, <2>2 DEF ReindexInv, RowsTypeOK
<1>5. ASSUME NEW rows \in [Paths -> Doc], Sound(rows)
      PROVE  \A q \in Paths :
               /\ ~Known(rows, q) => rows[q] = NoRow
               /\ rows[q].mtime <= edits'
               /\ "paths" \notin disturbed' /\ Known(rows, q) /\ rows[q].mtime = files'[q].mtime =>
                    rows[q].hash = files'[q].content
  <2> SUFFICES ASSUME NEW q \in Paths
               PROVE  /\ ~Known(rows, q) => rows[q] = NoRow
                      /\ rows[q].mtime <= edits'
                      /\ "paths" \notin disturbed' /\ Known(rows, q)
                         /\ rows[q].mtime = files'[q].mtime => rows[q].hash = files'[q].content
    OBVIOUS
  <2>1. rows[q].mtime \in Nat /\ rows[q].mtime <= edits
    BY <1>5, ConstantsAssumption DEF Sound, Told, Doc
  <2>2. CASE q = p
    BY <2>1, <2>2, <1>5, <1>1, <1>2 DEF Sound, Blank
  <2>3. CASE q # p
    BY <2>1, <2>3, <1>5, <1>1, <1>2 DEF Sound, Blank, Told
  <2> QED BY <2>2, <2>3
<1>6. RowsInv'
  <2>1. \A q \in Paths : files'[q].mtime <= edits'
    <3> TAKE q \in Paths
    <3>1. files[q].mtime \in Nat /\ files[q].mtime <= edits
      BY <1>2, ConstantsAssumption DEF ReindexInv, RowsInv, File
    <3> QED BY <3>1, <1>1, <1>2
  <2>2. pass.mtime <= edits'
    BY <1>1, ConstantsAssumption DEF ReindexInv, RowsInv, Passes
  <2>3. Sound(view)' /\ Sound(committed)'
    BY <1>1, <1>5 DEF ReindexInv, RowsInv, RowsTypeOK, Sound, Blank, Told, Known
  <2>4. Sound(pass.existing)'
    BY <1>1, <1>5 DEF ReindexInv, RowsInv, Passes, Sound, Blank, Told, Known
  <2> QED
    BY <1>1, <2>1, <2>2, <2>3, <2>4 DEF RowsInv
<1>7. StageInv' /\ BatchInv'
  <2>1. StageInv'
    BY <1>1, <1>3 DEF ReindexInv, StageInv, Vanished, Known
  <2> QED
    BY <2>1, <1>1 DEF ReindexInv, BatchInv, Known
<1>8. KeptInv' /\ SeenInv'
  <2>1. KeptInv'
    BY <1>1 DEF ReindexInv, KeptInv, Known
  <2>2. SeenInv'
    BY <1>1, <1>2 DEF ReindexInv, SeenInv, Known, Exists
  <2> QED BY <2>1, <2>2
<1>9. TouchedInv'
  <2>1. pass.kind = "paths" => "paths" \in disturbed'
    BY <1>1
  <2>2. \A q \in Paths : UpToDate(q)' => UpToDate(q) /\ q # p
    BY <2>1, <1>1 DEF UpToDate
  <2>3. pass.touched \subseteq Paths
    BY <1>1 DEF Passes
  <2> QED
    BY <2>1, <2>2, <2>3, <1>1, <1>2 DEF ReindexInv, TouchedInv
<1>10. EmbeddedInv' /\ DerivedInv'
  <2>1. EmbeddedInv'
    BY <1>1 DEF ReindexInv, EmbeddedInv
  <2>2. disturbed \subseteq disturbed'
    BY <1>1
  <2>3. ToRate' = ToRate
    BY <1>1 DEF ToRate, Known
  <2> QED
    BY <2>1, <2>2, <2>3, <1>1 DEF ReindexInv, DerivedInv
<1> QED
  BY <1>4, <1>6, <1>7, <1>8, <1>9, <1>10 DEF ReindexInv

\* A pass begins: what it carries is what the last one left.
LEMMA BeginStep ==
  ASSUME ReindexInv, Begin \/ BeginPaths
  PROVE  ReindexInv'
<1>1. /\ pass = Resting /\ edited' = {}
      /\ UNCHANGED <<files, committed, view, edits, faults, disturbed>>
      /\ edits \in Nat
  <2>1. /\ pass.pc = "idle" /\ edited' = {}
        /\ UNCHANGED <<files, committed, view, edits, faults, disturbed>>
    BY Zenon DEF Begin, BeginPaths
  <2>2. edits \in Nat
    BY ConstantsAssumption DEF ReindexInv, RowsTypeOK
  <2> QED
    BY <2>1, <2>2 DEF ReindexInv, StageInv
<1>2. /\ pass' \in Passes
      /\ pass'.pc = "scan" /\ pass'.kind \in {"source", "paths"}
      /\ pass'.full => pass'.kind = "source"
      /\ pass'.seen = {} /\ pass'.batch = {} /\ pass'.touched = {} /\ pass'.removed = FALSE
      /\ pass'.mtime = 0
      /\ pass'.kind = "source" => pass'.existing = view /\ pass'.todo = Paths
      /\ pass'.kind = "paths" => pass'.existing = [p \in Paths |-> NoRow]
  <2>1. view \in [Paths -> Doc]
    BY DEF ReindexInv, RowsTypeOK
  <2>2. CASE Begin
    BY <2>1, <2>2, RestingIs DEF Begin, Passes
  <2>3. CASE BeginPaths
    BY <2>3, RestingIs DEF BeginPaths, Passes
  <2> QED BY <2>2, <2>3
<1>3. RowsTypeOK'
  BY <1>1, <1>2 DEF ReindexInv, RowsTypeOK, Passes
<1>4. RowsInv'
  <2>1. Sound(view)' /\ Sound(committed)'
    BY <1>1 DEF ReindexInv, RowsInv, Sound, Blank, Told, Known
  <2>2. Sound(pass.existing)'
    <3>1. CASE pass'.kind = "source"
      BY <2>1, <3>1, <1>1, <1>2 DEF Sound, Blank, Told, Known
    <3>2. CASE pass'.kind = "paths"
      BY <3>2, <1>1, <1>2, NoRowIs DEF Sound, Blank, Told, Known
    <3> QED BY <1>2, <3>1, <3>2
  <2> QED
    BY <1>1, <1>2, <2>1, <2>2 DEF ReindexInv, RowsInv
<1>5. StageInv' /\ BatchInv'
  BY <1>1, <1>2 DEF StageInv, BatchInv
<1>6. KeptInv' /\ SeenInv' /\ TouchedInv'
  BY <1>1, <1>2 DEF KeptInv, SeenInv, TouchedInv
<1>7. EmbeddedInv' /\ DerivedInv'
  BY <1>1, <1>2, RestingIs DEF ReindexInv, EmbeddedInv, DerivedInv
<1> QED
  BY <1>3, <1>4, <1>5, <1>6, <1>7 DEF ReindexInv

\* A step of the scan that writes nothing: from and to the loop over the files,
\* or the embedder.
LEMMA QuietStep ==
  ASSUME ReindexInv,
         UNCHANGED <<files, view, edits, faults, edited, disturbed>>,
         committed' \in {committed, view},
         pass' \in Passes, pass'.mtime <= edits,
         pass.pc \in {"scan", "read", "embed"}, pass'.pc \in {"scan", "read", "embed"},
         pass'.kind = pass.kind, pass'.full = pass.full, pass'.existing = pass.existing,
         pass'.batch = pass.batch, pass'.touched = pass.touched,
         pass'.removed = pass.removed,
         pass'.todo \subseteq pass.todo, pass.seen \subseteq pass'.seen,
         pass'.seen \subseteq pass.seen \cup (pass.todo \ pass'.todo),
         pass'.pc = "read" =>
           /\ pass'.cur \in Paths \ (pass'.todo \cup pass'.touched)
           /\ pass'.kind = "source" => pass'.cur \in pass'.seen
           /\ pass'.kind = "paths" =>
                pass'.content \in Texts /\ pass'.content = files[pass'.cur].content,
         SeenInv'
  PROVE  ReindexInv'
<1>1. RowsTypeOK'
  BY DEF ReindexInv, RowsTypeOK, Passes
<1>2. RowsInv'
  BY DEF ReindexInv, RowsInv, Sound, Blank, Told, Known
<1>3. StageInv'
  BY DEF ReindexInv, StageInv
<1>4. BatchInv' /\ KeptInv'
  BY DEF ReindexInv, BatchInv, KeptInv, Known
<1>5. TouchedInv'
  BY DEF ReindexInv, TouchedInv, UpToDate
<1>6. EmbeddedInv' /\ DerivedInv'
  BY DEF ReindexInv, EmbeddedInv, DerivedInv
<1> QED
  BY <1>1, <1>2, <1>3, <1>4, <1>5, <1>6 DEF ReindexInv

LEMMA MissStep ==
  ASSUME ReindexInv, NEW p \in Paths, Miss(p)
  PROVE  ReindexInv'
<1>1. /\ pass.pc = "scan" /\ pass.kind = "source" /\ p \in pass.todo /\ ~Exists(p)
      /\ pass' = [pass EXCEPT !.todo = @ \ {p}]
      /\ UNCHANGED <<files, committed, view, edits, faults, edited, disturbed>>
      /\ pass \in Passes
  BY DEF Miss, Scanning, ReindexInv, RowsTypeOK, Passes
<1>2. /\ pass' \in Passes /\ pass'.todo = pass.todo \ {p} /\ pass'.pc = "scan"
      /\ pass'.kind = "source" /\ pass'.full = pass.full /\ pass'.existing = pass.existing
      /\ pass'.batch = pass.batch /\ pass'.touched = pass.touched
      /\ pass'.removed = pass.removed /\ pass'.seen = pass.seen /\ pass'.mtime = pass.mtime
  BY <1>1 DEF Passes
<1>3. SeenInv'
  BY <1>1, <1>2 DEF ReindexInv, SeenInv, Known, Exists
<1> QED
  BY <1>1, <1>2, <1>3, QuietStep DEF ReindexInv, RowsInv

LEMMA StatStep ==
  ASSUME ReindexInv, NEW p \in Paths, Stat(p)
  PROVE  ReindexInv'
<1> DEFINE same == Known(pass.existing, p) /\ pass.existing[p].mtime = files[p].mtime
<1>1. /\ pass.pc = "scan" /\ pass.kind = "source" /\ p \in pass.todo /\ Exists(p)
      /\ pass' = IF same /\ ~pass.full
             THEN [pass EXCEPT !.todo = @ \ {p}, !.seen = @ \cup {p}]
             ELSE [pass EXCEPT !.todo = @ \ {p}, !.seen = @ \cup {p}, !.pc = "read",
                               !.cur = p, !.mtime = files[p].mtime]
      /\ UNCHANGED <<files, committed, view, edits, faults, edited, disturbed>>
      /\ pass \in Passes /\ files[p].mtime \in 0..MaxFileEdits /\ files[p].mtime <= edits
      /\ p \notin pass.touched
  BY DEF Stat, Scanning, ReindexInv, RowsTypeOK, Passes, File, RowsInv, StageInv
<1>2. /\ pass' \in Passes /\ pass'.todo = pass.todo \ {p}
      /\ pass'.kind = "source" /\ pass'.full = pass.full /\ pass'.existing = pass.existing
      /\ pass'.batch = pass.batch /\ pass'.touched = pass.touched
      /\ pass'.removed = pass.removed /\ pass'.seen = pass.seen \cup {p}
      /\ pass'.mtime \in {pass.mtime, files[p].mtime}
      /\ \/ same /\ ~pass.full /\ pass'.pc = "scan"
         \/ pass'.pc = "read" /\ pass'.cur = p
  <2> HIDE DEF same
  <2>1. CASE same /\ ~pass.full
    BY <1>1, <2>1 DEF Passes
  <2>2. CASE ~(same /\ ~pass.full)
    BY <1>1, <2>2 DEF Passes
  <2> QED BY <2>1, <2>2
<1>3. SeenInv'
  <2> SUFFICES ASSUME NEW q \in Paths \ edited
               PROVE  /\ q \in pass'.seen => Exists(q)
                      /\ q \notin pass'.seen \cup pass'.todo => ~Exists(q)
                      /\ q \in pass'.seen /\ ~(pass'.pc = "read" /\ pass'.cur = q) =>
                           /\ Known(view, q)
                           /\ pass.full => q \in pass.touched
                           /\ "paths" \notin disturbed => view[q].hash = files[q].content
    BY <1>1, <1>2 DEF SeenInv, Exists, Known
  <2>1. CASE q # p
    BY <1>1, <1>2, <2>1 DEF ReindexInv, SeenInv
  <2>2. CASE q = p
    <3>1. Exists(q) /\ q \in pass'.seen
      BY <1>1, <1>2, <2>2
    <3>2. ASSUME ~(pass'.pc = "read" /\ pass'.cur = q)
          PROVE  /\ Known(view, q) /\ ~pass.full
                 /\ "paths" \notin disturbed => view[q].hash = files[q].content
      <4>1. same /\ ~pass.full
        BY <3>2, <1>2, <2>2
      <4>2. view[p].hash = pass.existing[p].hash
        BY <1>1, <4>1 DEF ReindexInv, KeptInv
      <4>3. "paths" \notin disturbed => pass.existing[p].hash = files[p].content
        BY <4>1 DEF ReindexInv, RowsInv, Sound, Told
      <4> QED
        BY <4>1, <4>2, <4>3, <2>2 DEF Known
    <3> QED BY <3>1, <3>2
  <2> QED BY <2>1, <2>2
<1> QED
  BY <1>1, <1>2, <1>3, QuietStep DEF ReindexInv, RowsInv

LEMMA ReadFirstStep ==
  ASSUME ReindexInv, NEW p \in Paths, ReadFirst(p)
  PROVE  ReindexInv'
<1>1. /\ pass.pc = "scan" /\ pass.kind = "paths" /\ p \in pass.todo /\ Exists(p)
      /\ pass' = [pass EXCEPT !.todo = @ \ {p}, !.pc = "read", !.cur = p,
                              !.content = files[p].content]
      /\ UNCHANGED <<files, committed, view, edits, faults, edited, disturbed>>
      /\ pass \in Passes /\ files[p].content \in Texts
      /\ p \notin pass.touched
  BY DEF ReadFirst, Scanning, ReindexInv, RowsTypeOK, Passes, File, StageInv, Exists
<1>2. /\ pass' \in Passes /\ pass'.todo = pass.todo \ {p} /\ pass'.pc = "read"
      /\ pass'.cur = p /\ pass'.content = files[p].content
      /\ pass'.kind = "paths" /\ pass'.full = pass.full /\ pass'.existing = pass.existing
      /\ pass'.batch = pass.batch /\ pass'.touched = pass.touched
      /\ pass'.removed = pass.removed /\ pass'.seen = pass.seen /\ pass'.mtime = pass.mtime
  BY <1>1 DEF Passes
<1>3. SeenInv'
  BY <1>2 DEF SeenInv
<1> QED
  BY <1>1, <1>2, <1>3, QuietStep DEF ReindexInv, RowsInv

LEMMA FlushBeginStep ==
  ASSUME ReindexInv, FlushBegin
  PROVE  ReindexInv'
<1>1. /\ pass.pc = "scan" /\ committed' \in {committed, view}
      /\ pass' = [pass EXCEPT !.pc = "embed"]
      /\ UNCHANGED <<files, view, edits, faults, edited, disturbed>>
      /\ pass \in Passes
  BY DEF FlushBegin, ReindexInv, RowsTypeOK, Passes
<1>2. /\ pass' \in Passes /\ pass'.todo = pass.todo /\ pass'.pc = "embed"
      /\ pass'.kind = pass.kind /\ pass'.full = pass.full /\ pass'.existing = pass.existing
      /\ pass'.batch = pass.batch /\ pass'.touched = pass.touched
      /\ pass'.removed = pass.removed /\ pass'.seen = pass.seen /\ pass'.mtime = pass.mtime
  BY <1>1 DEF Passes
<1>3. SeenInv'
  BY <1>1, <1>2 DEF ReindexInv, SeenInv, Known, Exists
<1> QED
  BY <1>1, <1>2, <1>3, QuietStep DEF ReindexInv, RowsInv

LEMMA CommitProgressStep ==
  ASSUME ReindexInv, CommitProgress
  PROVE  ReindexInv'
<1>1. /\ pass.pc = "scan" /\ committed' = view
      /\ UNCHANGED <<files, view, pass, edits, faults, edited, disturbed>>
      /\ pass \in Passes
  BY DEF CommitProgress, Scanning, ReindexInv, RowsTypeOK, Passes
<1>2. SeenInv'
  BY <1>1 DEF ReindexInv, SeenInv, Known, Exists
<1> QED
  BY <1>1, <1>2, QuietStep DEF ReindexInv, RowsInv

-----------------------------------------------------------------------------
(***************************************************************************)
(* Reindex: writing a row.                                                 *)
(***************************************************************************)
\* A pass is done with a file it has read.
LEMMA PassMoves ==
  ASSUME pass \in Passes, NEW c \in Texts \cup {NoFile}, NEW m \in 0..MaxFileEdits,
         NEW batch \in SUBSET (Paths \X Texts \X BOOLEAN), NEW touched \in SUBSET Paths,
         pass' = [pass EXCEPT !.pc = "scan", !.cur = NoPath, !.content = c, !.mtime = m,
                              !.batch = batch, !.touched = touched]
  PROVE  /\ pass' \in Passes /\ pass'.pc = "scan" /\ pass'.mtime = m
         /\ pass'.kind = pass.kind /\ pass'.full = pass.full /\ pass'.existing = pass.existing
         /\ pass'.todo = pass.todo /\ pass'.seen = pass.seen /\ pass'.batch = batch
         /\ pass'.touched = touched /\ pass'.removed = pass.removed
BY DEF Passes

\* What a pass has read is what the file still says, unless a watcher's pass was
\* overtaken.
LEMMA RefreshStep ==
  ASSUME ReindexInv, pass.pc = "read", NEW p \in Paths, p = pass.cur, NEW m \in Nat,
         m <= edits, m \in 0..MaxFileEdits, Refresh(p, m), view[p].hash \in Texts,
         pass.kind = "source" \/ "paths" \notin disturbed => view[p].hash = files[p].content,
         ~pass.full,
         UNCHANGED <<files, committed, edits, faults, edited, disturbed>>
  PROVE  ReindexInv'
<1>1. /\ view \in [Paths -> Doc] /\ pass \in Passes /\ Known(view, p)
      /\ view' = [view EXCEPT ![p].mtime = m]
      /\ pass' = [pass EXCEPT !.pc = "scan", !.cur = NoPath, !.content = NoFile, !.mtime = 0]
  BY ConstantsAssumption DEF ReindexInv, RowsTypeOK, Passes, Known, Refresh
<1>2. /\ view' \in [Paths -> Doc]
      /\ \A q \in Paths \ {p} : view'[q] = view[q]
      /\ view'[p].mtime = m
      /\ \A q \in Paths : /\ view'[q].hash = view[q].hash /\ view'[q].vec = view[q].vec
                          /\ view'[q].cvec = view[q].cvec /\ view'[q].rated = view[q].rated
  <2> DEFINE row == [view[p] EXCEPT !.mtime = m]
  <2>1. /\ row \in Doc /\ row.hash = view[p].hash /\ row.vec = view[p].vec
        /\ row.cvec = view[p].cvec /\ row.rated = view[p].rated
        /\ row.mtime = m
    BY <1>1 DEF Doc
  <2>2. view' = [view EXCEPT ![p] = row]
    BY <1>1
  <2> HIDE DEF row
  <2>3. view'[p] = row /\ view' \in [Paths -> Doc] /\ \A q \in Paths \ {p} : view'[q] = view[q]
    BY <1>1, <2>1, <2>2
  <2> QED BY <2>1, <2>3 DEF row
<1>3. /\ pass' \in Passes /\ pass'.pc = "scan" /\ pass'.mtime = 0
      /\ pass'.kind = pass.kind /\ pass'.full = pass.full /\ pass'.existing = pass.existing
      /\ pass'.todo = pass.todo /\ pass'.seen = pass.seen /\ pass'.batch = pass.batch
      /\ pass'.touched = pass.touched /\ pass'.removed = pass.removed
  <2>1. /\ pass \in Passes /\ NoFile \in Texts \cup {NoFile} /\ 0 \in 0..MaxFileEdits
        /\ pass.batch \in SUBSET (Paths \X Texts \X BOOLEAN)
        /\ pass.touched \in SUBSET Paths
    BY <1>1, ConstantsAssumption DEF Passes
  <2>2. pass' = [pass EXCEPT !.pc = "scan", !.cur = NoPath, !.content = NoFile, !.mtime = 0,
                             !.batch = pass.batch, !.touched = pass.touched]
    BY <1>1, <2>1 DEF Passes
  <2> QED
    BY <2>1, <2>2, PassMoves
<1>4. RowsTypeOK'
  BY <1>2, <1>3, RowsWritten, Zenon DEF ReindexInv
<1>5. RowsInv'
  <2>1. Sound(view)'
    <3>1. \A q \in Paths : ~Known(view', q) => view'[q] = NoRow
      BY <1>1, <1>2 DEF ReindexInv, RowsInv, Sound, Blank, Known
    <3>2. ASSUME NEW q \in Paths
          PROVE  /\ view'[q].mtime <= edits
                 /\ "paths" \notin disturbed /\ Known(view', q)
                    /\ view'[q].mtime = files[q].mtime => view'[q].hash = files[q].content
      <4>1. CASE q = p
        BY <4>1, <1>2 DEF Known
      <4>2. CASE q # p
        BY <4>2, <1>2 DEF ReindexInv, RowsInv, Sound, Told, Known
      <4> QED BY <4>1, <4>2
    <3> QED BY <3>1, <3>2 DEF Sound, Blank, Told, Known
  <2>2. edits \in Nat
    BY ConstantsAssumption DEF ReindexInv, RowsTypeOK
  <2>3. Sound(committed)' /\ Sound(pass.existing)'
    BY <1>3 DEF ReindexInv, RowsInv, Sound, Blank, Told, Known
  <2> QED
    BY <1>3, <2>1, <2>2, <2>3 DEF ReindexInv, RowsInv
<1>6. StageInv' /\ BatchInv'
  <2>1. StageInv'
    BY <1>3 DEF ReindexInv, StageInv
  <2>2. pass.touched \subseteq Paths /\ \A b \in pass.batch : b[1] \in pass.touched
    BY <1>1 DEF ReindexInv, BatchInv, Passes
  <2>3. BatchInv'
    BY <1>2, <1>3, <2>2 DEF ReindexInv, BatchInv, Known
  <2> QED BY <2>1, <2>3
<1>7. KeptInv'
  BY <1>2, <1>3 DEF ReindexInv, KeptInv, Known
<1>8. SeenInv'
  <2> SUFFICES ASSUME pass.kind = "source", NEW q \in Paths \ edited
               PROVE  /\ q \in pass.seen => Exists(q)
                      /\ q \notin pass.seen \cup pass.todo => ~Exists(q)
                      /\ q \in pass.seen =>
                           /\ Known(view', q)
                           /\ pass.full => q \in pass.touched
                           /\ "paths" \notin disturbed => view'[q].hash = files[q].content
    BY <1>3 DEF SeenInv, Exists, Known
  <2>1. CASE q = p
    BY <2>1, <1>1, <1>2 DEF ReindexInv, SeenInv, Known
  <2>2. CASE q # p
    BY <2>2, <1>2 DEF ReindexInv, SeenInv, Known
  <2> QED BY <2>1, <2>2
<1>9. TouchedInv'
  BY <1>1, <1>2, <1>3 DEF ReindexInv, TouchedInv, UpToDate, Passes
<1>10. EmbeddedInv' /\ DerivedInv'
  BY <1>2, <1>3 DEF ReindexInv, EmbeddedInv, DerivedInv
<1> QED
  BY <1>4, <1>5, <1>6, <1>7, <1>8, <1>9, <1>10 DEF ReindexInv

LEMMA UpsertStep ==
  ASSUME ReindexInv, pass.pc = "read", NEW p \in Paths, p = pass.cur, NEW m \in Nat,
         m <= edits, m \in 0..MaxFileEdits, NEW c \in Texts, Upsert(p, c, m),
         pass.kind = "source" \/ "paths" \notin disturbed => c = files[p].content,
         UNCHANGED <<files, committed, edits, faults, edited, disturbed>>
  PROVE  ReindexInv'
<1> DEFINE row == [view[p] EXCEPT !.hash = c, !.mtime = m,
                                  !.cvec = IF view[p].hash = c THEN @ ELSE NoFile]
           new == <<p, c, view[p].hash # c>>
           batch == {b \in pass.batch : b[1] # p} \cup {new}
<1>1. /\ view \in [Paths -> Doc] /\ pass \in Passes /\ c # NoFile
      /\ view' = [view EXCEPT ![p] = row]
      /\ pass' = [pass EXCEPT !.pc = "scan", !.cur = NoPath, !.content = NoFile, !.mtime = 0,
                              !.batch = batch, !.touched = pass.touched \cup {p}]
      /\ p \notin pass.touched /\ p \notin pass.todo /\ pass.kind # "none"
      /\ pass.kind = "source" => p \in pass.seen
  BY ConstantsAssumption DEF ReindexInv, RowsTypeOK, Passes, Upsert, RowOf, Queued, Touched,
                             ChunksKept, StageInv
<1>2. /\ row \in Doc /\ row.hash = c /\ row.mtime = m /\ row.vec = view[p].vec
      /\ row.cvec = (IF view[p].hash = c THEN view[p].cvec ELSE NoFile)
  BY <1>1 DEF Doc
<1>3. /\ new \in Paths \X Texts \X BOOLEAN /\ new[1] = p /\ new[2] = c
      /\ new[3] = (view[p].hash # c)
  OBVIOUS
<1>4. /\ batch = pass.batch \cup {new} /\ batch \in SUBSET (Paths \X Texts \X BOOLEAN)
      /\ \A b \in pass.batch : b[1] # p
  <2>1. \A b \in pass.batch : b[1] # p
    BY <1>1 DEF ReindexInv, BatchInv
  <2> QED BY <2>1, <1>1, <1>3 DEF Passes
<1> HIDE DEF row, new, batch
<1>5. /\ view' \in [Paths -> Doc] /\ view'[p] = row
      /\ \A q \in Paths \ {p} : view'[q] = view[q]
  BY <1>1, <1>2
<1>6. /\ pass' \in Passes /\ pass'.pc = "scan" /\ pass'.mtime = 0
      /\ pass'.kind = pass.kind /\ pass'.full = pass.full /\ pass'.existing = pass.existing
      /\ pass'.todo = pass.todo /\ pass'.seen = pass.seen /\ pass'.batch = pass.batch \cup {new}
      /\ pass'.touched = pass.touched \cup {p} /\ pass'.removed = pass.removed
  <2>1. /\ pass \in Passes /\ NoFile \in Texts \cup {NoFile} /\ 0 \in 0..MaxFileEdits
        /\ pass.touched \cup {p} \in SUBSET Paths
    BY <1>1, ConstantsAssumption DEF Passes
  <2> QED
    BY <2>1, <1>1, <1>4, PassMoves
<1>7. RowsTypeOK'
  BY <1>5, <1>6, RowsWritten, Zenon DEF ReindexInv
<1>8. RowsInv'
  <2>1. ASSUME NEW q \in Paths
        PROVE  /\ ~Known(view', q) => view'[q] = NoRow
               /\ view'[q].mtime <= edits
               /\ "paths" \notin disturbed /\ Known(view', q)
                  /\ view'[q].mtime = files[q].mtime => view'[q].hash = files[q].content
    <3>1. CASE q = p
      BY <3>1, <1>1, <1>2, <1>5 DEF Known
    <3>2. CASE q # p
      BY <3>2, <1>5 DEF ReindexInv, RowsInv, Sound, Blank, Told, Known
    <3> QED BY <3>1, <3>2
  <2>2. edits \in Nat
    BY ConstantsAssumption DEF ReindexInv, RowsTypeOK
  <2>3. Sound(committed)' /\ Sound(pass.existing)' /\ Sound(view)'
    BY <1>6, <2>1 DEF ReindexInv, RowsInv, Sound, Blank, Told, Known
  <2> QED
    BY <1>6, <2>2, <2>3 DEF ReindexInv, RowsInv
<1>9. StageInv'
  BY <1>1, <1>6 DEF ReindexInv, StageInv
<1>10. BatchInv'
  <2>1. pass.touched \subseteq Paths /\ \A b \in pass.batch : b[1] \in pass.touched
    BY <1>1 DEF ReindexInv, BatchInv, Passes
  <2> QED
    BY <2>1, <1>1, <1>2, <1>3, <1>4, <1>5, <1>6 DEF ReindexInv, BatchInv, Known
<1>11. KeptInv'
  BY <1>5, <1>6 DEF ReindexInv, KeptInv, Known, StageInv
<1>12. SeenInv'
  <2> SUFFICES ASSUME pass.kind = "source", NEW q \in Paths \ edited
               PROVE  /\ q \in pass.seen => Exists(q)
                      /\ q \notin pass.seen \cup pass.todo => ~Exists(q)
                      /\ q \in pass.seen =>
                           /\ Known(view', q)
                           /\ pass.full => q \in pass.touched \cup {p}
                           /\ "paths" \notin disturbed => view'[q].hash = files[q].content
    BY <1>6 DEF SeenInv, Exists, Known
  <2>1. CASE q = p
    BY <2>1, <1>1, <1>2, <1>5 DEF ReindexInv, SeenInv, Known
  <2>2. CASE q # p
    BY <2>2, <1>5 DEF ReindexInv, SeenInv, Known
  <2> QED BY <2>1, <2>2
<1>13. TouchedInv'
  BY <1>1, <1>2, <1>5, <1>6 DEF ReindexInv, TouchedInv, UpToDate, Passes
<1>14. EmbeddedInv'
  <2> SUFFICES ASSUME NEW q \in Paths
               PROVE  /\ q \in pass.touched \cup {p} \/ faults = 0 =>
                           view'[q].vec = view'[q].hash
                           \/ \E b \in pass.batch \cup {new} : b[1] = q
                      /\ faults = 0 =>
                           view'[q].cvec = view'[q].hash
                           \/ \E b \in pass.batch \cup {new} : b[1] = q /\ b[3]
    BY <1>6 DEF EmbeddedInv
  <2>1. CASE q = p
    <3>1. faults = 0 /\ view[p].hash = c => view[p].cvec = c
      BY <1>4 DEF ReindexInv, EmbeddedInv
    <3> QED
      BY <2>1, <3>1, <1>2, <1>3, <1>5
  <2>2. CASE q # p
    BY <2>2, <1>5 DEF ReindexInv, EmbeddedInv
  <2> QED BY <2>1, <2>2
<1>15. DerivedInv'
  BY <1>5, <1>6 DEF ReindexInv, DerivedInv
<1> QED
  BY <1>7, <1>8, <1>9, <1>10, <1>11, <1>12, <1>13, <1>14, <1>15 DEF ReindexInv

\* The file was deleted since the pass came upon it.
LEMMA GoneStep ==
  ASSUME ReindexInv, pass.pc = "read", ~Exists(pass.cur),
         NEW m \in 0..MaxFileEdits, NEW c \in Texts \cup {NoFile}, m <= edits,
         pass' = [pass EXCEPT !.pc = "scan", !.cur = NoPath, !.content = c, !.mtime = m],
         UNCHANGED <<files, view, committed, edits, faults, edited, disturbed>>
  PROVE  ReindexInv'
<1>1. pass \in Passes /\ edits \in Nat /\ pass.cur \in Paths
  BY ConstantsAssumption DEF ReindexInv, RowsTypeOK, Passes, StageInv
<1>2. /\ pass' \in Passes /\ pass'.pc = "scan" /\ pass'.mtime = m
      /\ pass'.kind = pass.kind /\ pass'.full = pass.full /\ pass'.existing = pass.existing
      /\ pass'.todo = pass.todo /\ pass'.seen = pass.seen /\ pass'.batch = pass.batch
      /\ pass'.touched = pass.touched /\ pass'.removed = pass.removed
  BY <1>1, ConstantsAssumption DEF Passes
<1>4. SeenInv'
  <2>1. pass.kind = "source" => pass.cur \in edited
    BY <1>1 DEF ReindexInv, SeenInv, StageInv
  <2> QED
    BY <2>1, <1>2 DEF ReindexInv, SeenInv, Known, Exists
<1> QED
  BY <1>1, <1>2, <1>4, QuietStep

LEMMA ReadFileStep ==
  ASSUME ReindexInv, Read
  PROVE  ReindexInv'
<1> DEFINE p == pass.cur
           c == files[p].content
<1>1. /\ pass.pc = "read" /\ pass.kind = "source"
      /\ UNCHANGED <<files, committed, edits, faults, edited, disturbed>>
      /\ p \in Paths /\ p \notin pass.touched /\ p \in pass.seen
      /\ pass \in Passes /\ edits \in Nat
      /\ pass.mtime \in 0..MaxFileEdits /\ pass.mtime \in Nat /\ pass.mtime <= edits
      /\ c \in Texts \cup {NoFile}
  BY ConstantsAssumption DEF Read, ReindexInv, RowsTypeOK, Passes, StageInv, RowsInv, File
<1>2. CASE ~Exists(p)
  <2>1. /\ view' = view
        /\ pass' = [pass EXCEPT !.pc = "scan", !.cur = NoPath, !.mtime = 0]
    BY <1>2 DEF Read
  <2>2. pass' = [pass EXCEPT !.pc = "scan", !.cur = NoPath, !.content = pass.content,
                             !.mtime = 0]
    BY <2>1, <1>1 DEF Passes
  <2>3. 0 \in 0..MaxFileEdits /\ 0 <= edits /\ pass.content \in Texts \cup {NoFile}
    BY <1>1, ConstantsAssumption DEF Passes
  <2> QED
    BY <1>1, <1>2, <2>1, <2>2, <2>3, GoneStep
<1>3. CASE Exists(p) /\ pass.existing[p].hash = c /\ ~pass.full
  <2>1. Refresh(p, pass.mtime)
    BY <1>3, Zenon DEF Read
  <2>2. view[p].hash = c /\ c \in Texts
    BY <1>1, <1>3 DEF ReindexInv, KeptInv, Exists
  <2> HIDE DEF c
  <2>3. view[p].hash = files[p].content
    BY <2>2 DEF c
  <2> HIDE DEF p
  <2>4. p = pass.cur
    BY DEF p
  <2> QED
    BY <1>1, <1>3, <2>1, <2>2, <2>3, <2>4, RefreshStep
<1>4. CASE Exists(p) /\ ~(pass.existing[p].hash = c /\ ~pass.full)
  <2>1. Upsert(p, c, pass.mtime)
    BY <1>4 DEF Read
  <2>2. c \in Texts
    BY <1>1, <1>4 DEF Exists
  <2>3. p = pass.cur /\ c = files[p].content
    OBVIOUS
  <2> HIDE DEF c, p
  <2> QED
    BY <1>1, <2>1, <2>2, <2>3, UpsertStep
<1> QED BY <1>2, <1>3, <1>4

LEMMA StatAfterStep ==
  ASSUME ReindexInv, StatAfter
  PROVE  ReindexInv'
<1> DEFINE p == pass.cur
           c == pass.content
           m == files[p].mtime
<1>1. /\ pass.pc = "read" /\ pass.kind = "paths"
      /\ UNCHANGED <<files, committed, edits, faults, edited, disturbed>>
      /\ p \in Paths
      /\ pass \in Passes /\ edits \in Nat /\ c \in Texts /\ ~pass.full
      /\ m \in 0..MaxFileEdits /\ m \in Nat /\ m <= edits
      /\ "paths" \notin disturbed => c = files[p].content
  BY ConstantsAssumption DEF StatAfter, ReindexInv, RowsTypeOK, Passes, StageInv, RowsInv, File,
                             TouchedInv
<1>2. CASE ~Exists(p)
  <2>1. /\ view' = view
        /\ pass' = [pass EXCEPT !.pc = "scan", !.cur = NoPath, !.content = NoFile]
    BY <1>2 DEF StatAfter
  <2>2. pass' = [pass EXCEPT !.pc = "scan", !.cur = NoPath, !.content = NoFile,
                             !.mtime = pass.mtime]
    BY <2>1, <1>1 DEF Passes
  <2>3. pass.mtime \in 0..MaxFileEdits /\ pass.mtime <= edits
    BY <1>1 DEF Passes, ReindexInv, RowsInv
  <2> QED
    BY <1>1, <1>2, <2>1, <2>2, <2>3, GoneStep
<1>3. CASE Exists(p) /\ view[p].hash = c
  <2>1. Refresh(p, m)
    BY <1>3, Zenon DEF StatAfter
  <2>2. p = pass.cur /\ (pass.kind = "source" \/ "paths" \notin disturbed
                           => view[p].hash = files[p].content) /\ view[p].hash \in Texts
    BY <1>1, <1>3
  <2> HIDE DEF c, p, m
  <2> QED
    BY <1>1, <2>1, <2>2, RefreshStep
<1>4. CASE Exists(p) /\ view[p].hash # c
  <2>1. Upsert(p, c, m)
    BY <1>4 DEF StatAfter
  <2>2. p = pass.cur /\ (pass.kind = "source" \/ "paths" \notin disturbed => c = files[p].content)
    BY <1>1
  <2> HIDE DEF c, p, m
  <2> QED
    BY <1>1, <2>1, <2>2, UpsertStep
<1> QED BY <1>2, <1>3, <1>4

-----------------------------------------------------------------------------
(***************************************************************************)
(* Reindex: removals, and steps that leave every doc its text.             *)
(***************************************************************************)
\* A doc the pass has not written goes.
LEMMA RowGone ==
  ASSUME ReindexInv, pass.pc = "scan", NEW p \in Paths, p \notin pass.touched,
         view' = [view EXCEPT ![p] = NoRow],
         UNCHANGED <<files, committed, edits, faults, edited, disturbed>>,
         pass' \in Passes, pass'.pc = "scan", pass'.kind = pass.kind, pass'.full = pass.full,
         pass'.existing = pass.existing, pass'.seen = pass.seen, pass'.batch = pass.batch,
         pass'.touched = pass.touched, pass'.mtime = pass.mtime,
         pass'.todo \subseteq pass.todo,
         pass.kind = "source" => pass.todo = {} /\ p \notin pass.seen
  PROVE  ReindexInv'
<1>1. /\ view \in [Paths -> Doc] /\ pass \in Passes /\ edits \in Nat
      /\ pass.touched \subseteq Paths /\ \A b \in pass.batch : b[1] \in pass.touched
  BY ConstantsAssumption DEF ReindexInv, RowsTypeOK, Passes, BatchInv
<1>2. /\ view' \in [Paths -> Doc] /\ view'[p] = NoRow
      /\ \A q \in Paths \ {p} : view'[q] = view[q]
  BY <1>1, NoRowIs
<1>3. RowsTypeOK'
  BY <1>2, RowsWritten, Zenon DEF ReindexInv
<1>4. RowsInv'
  <2>1. ASSUME NEW q \in Paths
        PROVE  /\ ~Known(view', q) => view'[q] = NoRow
               /\ view'[q].mtime <= edits
               /\ "paths" \notin disturbed /\ Known(view', q)
                  /\ view'[q].mtime = files[q].mtime => view'[q].hash = files[q].content
    <3>1. CASE q = p
      BY <3>1, <1>1, <1>2, NoRowIs DEF Known
    <3>2. CASE q # p
      BY <3>2, <1>2 DEF ReindexInv, RowsInv, Sound, Blank, Told, Known
    <3> QED BY <3>1, <3>2
  <2>2. Sound(committed)' /\ Sound(pass.existing)' /\ Sound(view)'
    BY <2>1 DEF ReindexInv, RowsInv, Sound, Blank, Told, Known
  <2> QED
    BY <2>2 DEF ReindexInv, RowsInv
<1>5. StageInv'
  BY DEF ReindexInv, StageInv
<1>6. BatchInv'
  BY <1>1, <1>2 DEF ReindexInv, BatchInv, Known
<1>7. KeptInv'
  BY <1>2, NoRowIs DEF ReindexInv, KeptInv, Known
<1>8. SeenInv'
  <2> SUFFICES ASSUME pass.kind = "source", NEW q \in Paths \ edited
               PROVE  /\ q \in pass.seen => Exists(q)
                      /\ q \notin pass.seen \cup pass'.todo => ~Exists(q)
                      /\ q \in pass.seen =>
                           /\ Known(view', q)
                           /\ pass.full => q \in pass.touched
                           /\ "paths" \notin disturbed => view'[q].hash = files[q].content
    BY DEF SeenInv, Exists, Known
  <2>1. CASE q = p
    BY <2>1 DEF ReindexInv, SeenInv
  <2>2. CASE q # p
    BY <2>2, <1>2 DEF ReindexInv, SeenInv, Known
  <2> QED BY <2>1, <2>2
<1>9. TouchedInv'
  BY <1>1, <1>2 DEF ReindexInv, TouchedInv, UpToDate
<1>10. EmbeddedInv' /\ DerivedInv'
  BY <1>2, NoRowIs DEF ReindexInv, EmbeddedInv, DerivedInv
<1> QED
  BY <1>3, <1>4, <1>5, <1>6, <1>7, <1>8, <1>9, <1>10 DEF ReindexInv

LEMMA PruneStep ==
  ASSUME ReindexInv, NEW p \in Paths, Prune(p)
  PROVE  ReindexInv'
<1>1. /\ pass.pc = "scan" /\ pass.kind = "paths" /\ p \in pass.todo
      /\ view' = [view EXCEPT ![p] = NoRow]
      /\ pass' = [pass EXCEPT !.todo = @ \ {p}, !.removed = @ \/ Known(view, p)]
      /\ UNCHANGED <<files, committed, edits, faults, edited, disturbed>>
      /\ pass \in Passes /\ p \notin pass.touched
  BY DEF Prune, Scanning, ReindexInv, RowsTypeOK, Passes, StageInv
<1> DEFINE known == Known(view, p)
<1>2. known \in BOOLEAN
  BY DEF Known
<1>3. pass' = [pass EXCEPT !.todo = @ \ {p}, !.removed = @ \/ known]
  BY <1>1
<1> HIDE DEF known
<1>4. /\ pass' \in Passes /\ pass'.pc = "scan" /\ pass'.kind = "paths"
      /\ pass'.full = pass.full /\ pass'.existing = pass.existing
      /\ pass'.seen = pass.seen /\ pass'.batch = pass.batch /\ pass'.touched = pass.touched
      /\ pass'.mtime = pass.mtime /\ pass'.todo \subseteq pass.todo
  BY <1>1, <1>2, <1>3 DEF Passes
<1> QED
  BY <1>1, <1>4, RowGone

LEMMA RemoveVanishedStep ==
  ASSUME ReindexInv, RemoveVanished
  PROVE  ReindexInv'
<1> PICK p \in Vanished : view' = [view EXCEPT ![p] = NoRow]
  BY DEF RemoveVanished
<1>1. /\ pass.pc = "scan" /\ pass.kind = "source" /\ pass.todo = {}
      /\ pass' = [pass EXCEPT !.removed = TRUE]
      /\ UNCHANGED <<files, committed, edits, faults, edited, disturbed>>
      /\ pass \in Passes /\ p \in Paths /\ p \notin pass.seen /\ p \notin pass.touched
  BY DEF RemoveVanished, Scanning, Vanished, ReindexInv, RowsTypeOK, Passes, StageInv
<1>2. /\ pass' \in Passes /\ pass'.pc = "scan" /\ pass'.kind = "source"
      /\ pass'.full = pass.full /\ pass'.existing = pass.existing
      /\ pass'.seen = pass.seen /\ pass'.batch = pass.batch /\ pass'.touched = pass.touched
      /\ pass'.mtime = pass.mtime /\ pass'.todo = pass.todo
  BY <1>1 DEF Passes
<1> QED
  BY <1>1, <1>2, RowGone

\* Rows that say what they said are as sound as they were.
LEMMA SameTextSound ==
  ASSUME ReindexInv, NEW rows \in [Paths -> Doc],
         \A q \in Paths :
           /\ rows[q].hash = view[q].hash /\ rows[q].mtime = view[q].mtime
           /\ ~Known(view, q) => rows[q] = view[q]
  PROVE  \A q \in Paths :
           /\ ~Known(rows, q) => rows[q] = NoRow
           /\ rows[q].mtime <= edits
           /\ "paths" \notin disturbed /\ Known(rows, q) /\ rows[q].mtime = files[q].mtime =>
                rows[q].hash = files[q].content
BY DEF ReindexInv, RowsInv, Sound, Blank, Told, Known

LEMMA SameText ==
  ASSUME ReindexInv, view' \in [Paths -> Doc],
         \A q \in Paths :
           /\ view'[q].hash = view[q].hash /\ view'[q].mtime = view[q].mtime
           /\ ~Known(view, q) => view'[q] = view[q],
         committed' \in {committed, view'}, pass' \in Passes,
         pass'.existing = pass.existing, pass'.mtime = pass.mtime,
         UNCHANGED <<files, edits, faults, edited, disturbed>>
  PROVE  RowsTypeOK' /\ RowsInv'
<1>1. RowsTypeOK'
  <2>1. ReindexTypes
    BY TypesAre, Zenon DEF ReindexInv
  <2>2. committed' \in [Paths -> Doc]
    BY <2>1 DEF ReindexTypes
  <2>3. ReindexTypes'
    BY <2>1, <2>2, Zenon DEF ReindexTypes
  <2> QED
    BY <2>3, TypesAre, Zenon
<1>2. Sound(view)'
  <2>1. \A q \in Paths :
           /\ ~Known(view', q) => view'[q] = NoRow
           /\ view'[q].mtime <= edits
           /\ "paths" \notin disturbed /\ Known(view', q) /\ view'[q].mtime = files[q].mtime =>
                view'[q].hash = files[q].content
    BY SameTextSound
  <2> QED
    BY <2>1 DEF Sound, Blank, Told, Known
<1>3. Sound(committed)'
  <2>1. CASE committed' = committed
    BY <2>1 DEF ReindexInv, RowsInv, Sound, Blank, Told, Known
  <2>2. CASE committed' = view'
    BY <2>2, <1>2 DEF Sound, Blank, Told, Known
  <2> QED BY <2>1, <2>2
<1>4. Sound(pass.existing)'
  BY DEF ReindexInv, RowsInv, Sound, Blank, Told, Known
<1> QED
  BY <1>1, <1>2, <1>3, <1>4 DEF ReindexInv, RowsInv

-----------------------------------------------------------------------------
(***************************************************************************)
(* Reindex: what is derived from the texts.                                *)
(***************************************************************************)
\* What storing vectors changes.
LEMMA DocVecsAre ==
  ASSUME NEW rows \in [Paths -> Doc], pass \in Passes
  PROVE  /\ DocVecs(rows) \in [Paths -> Doc]
         /\ \A q \in Paths :
              /\ DocVecs(rows)[q].hash = rows[q].hash /\ DocVecs(rows)[q].mtime = rows[q].mtime
              /\ DocVecs(rows)[q].cvec = rows[q].cvec
              /\ DocVecs(rows)[q].rated = rows[q].rated
              /\ ~Known(rows, q) => DocVecs(rows)[q] = rows[q]
              /\ DocVecs(rows)[q].vec = rows[q].vec
                 \/ \E b \in pass.batch : b[1] = q /\ DocVecs(rows)[q].vec = b[2]
              /\ Known(rows, q) /\ (\E b \in pass.batch : b[1] = q) =>
                   \E b \in pass.batch : b[1] = q /\ DocVecs(rows)[q].vec = b[2]
<1> DEFINE of(q) == CHOOSE b \in pass.batch : b[1] = q
           revised(q) == [rows[q] EXCEPT !.vec = of(q)[2]]
           row(q) == IF Known(rows, q) /\ \E b \in pass.batch : b[1] = q
                     THEN revised(q) ELSE rows[q]
<1>1. \A q \in Paths : (\E b \in pass.batch : b[1] = q) =>
        of(q) \in pass.batch /\ of(q)[1] = q /\ of(q)[2] \in Texts
  <2> TAKE q \in Paths
  <2> HAVE \E b \in pass.batch : b[1] = q
  <2>1. of(q) \in pass.batch /\ of(q)[1] = q
    OBVIOUS
  <2> QED BY <2>1 DEF Passes
<1>2. DocVecs(rows) = [q \in Paths |-> row(q)]
  BY DEF DocVecs
<1>3. \A q \in Paths : (\E b \in pass.batch : b[1] = q) =>
        /\ revised(q) \in Doc /\ revised(q).vec = of(q)[2]
        /\ revised(q).hash = rows[q].hash /\ revised(q).mtime = rows[q].mtime
        /\ revised(q).cvec = rows[q].cvec /\ revised(q).rated = rows[q].rated
  <2> TAKE q \in Paths
  <2> HAVE \E b \in pass.batch : b[1] = q
  <2>1. of(q)[2] \in Texts \cup {NoFile} /\ rows[q] \in Doc
    BY <1>1
  <2> HIDE DEF of
  <2> QED BY <2>1 DEF Doc
<1> HIDE DEF of, revised
<1>4. \A q \in Paths : DocVecs(rows)[q] = row(q) /\ row(q) \in Doc
  BY <1>2, <1>3
<1> QED
  BY <1>1, <1>2, <1>3, <1>4

LEMMA ChunkVecsAre ==
  ASSUME NEW rows \in [Paths -> Doc], pass \in Passes
  PROVE  /\ ChunkVecs(rows) \in [Paths -> Doc]
         /\ \A q \in Paths :
              /\ ChunkVecs(rows)[q].hash = rows[q].hash
              /\ ChunkVecs(rows)[q].mtime = rows[q].mtime
              /\ ChunkVecs(rows)[q].vec = rows[q].vec
              /\ ChunkVecs(rows)[q].rated = rows[q].rated
              /\ ~Known(rows, q) => ChunkVecs(rows)[q] = rows[q]
              /\ ChunkVecs(rows)[q].cvec = rows[q].cvec
                 \/ \E b \in pass.batch : b[1] = q /\ ChunkVecs(rows)[q].cvec = b[2]
              /\ Known(rows, q) /\ (\E b \in pass.batch : b[1] = q /\ b[3]) =>
                   \E b \in pass.batch : b[1] = q /\ ChunkVecs(rows)[q].cvec = b[2]
<1> DEFINE of(q) == CHOOSE b \in pass.batch : b[1] = q
           revised(q) == [rows[q] EXCEPT !.cvec = of(q)[2]]
           row(q) == IF Known(rows, q) /\ \E b \in pass.batch : b[1] = q /\ b[3]
                     THEN revised(q) ELSE rows[q]
<1>1. \A q \in Paths : (\E b \in pass.batch : b[1] = q) =>
        of(q) \in pass.batch /\ of(q)[1] = q /\ of(q)[2] \in Texts
  <2> TAKE q \in Paths
  <2> HAVE \E b \in pass.batch : b[1] = q
  <2>1. of(q) \in pass.batch /\ of(q)[1] = q
    OBVIOUS
  <2> QED BY <2>1 DEF Passes
<1>2. ChunkVecs(rows) = [q \in Paths |-> row(q)]
  BY DEF ChunkVecs
<1>3. \A q \in Paths : (\E b \in pass.batch : b[1] = q) =>
        /\ revised(q) \in Doc /\ revised(q).cvec = of(q)[2]
        /\ revised(q).hash = rows[q].hash /\ revised(q).mtime = rows[q].mtime
        /\ revised(q).vec = rows[q].vec /\ revised(q).rated = rows[q].rated
  <2> TAKE q \in Paths
  <2> HAVE \E b \in pass.batch : b[1] = q
  <2>1. of(q)[2] \in Texts \cup {NoFile} /\ rows[q] \in Doc
    BY <1>1
  <2> HIDE DEF of
  <2> QED BY <2>1 DEF Doc
<1> HIDE DEF of, revised
<1>4. \A q \in Paths : ChunkVecs(rows)[q] = row(q) /\ row(q) \in Doc
  BY <1>2, <1>3
<1> QED
  BY <1>1, <1>2, <1>3, <1>4

LEMMA FlushStep ==
  ASSUME ReindexInv, Flush
  PROVE  ReindexInv'
<1>1. /\ pass.pc = "embed" /\ view' = ChunkVecs(DocVecs(view))
      /\ pass' = [pass EXCEPT !.pc = "scan", !.batch = {}]
      /\ UNCHANGED <<files, committed, edits, faults, edited, disturbed>>
      /\ view \in [Paths -> Doc] /\ pass \in Passes /\ pass.touched \subseteq Paths
  BY DEF Flush, ReindexInv, RowsTypeOK, Passes
<1>2. /\ pass' \in Passes /\ pass'.pc = "scan" /\ pass'.batch = {}
      /\ pass'.kind = pass.kind /\ pass'.full = pass.full /\ pass'.existing = pass.existing
      /\ pass'.todo = pass.todo /\ pass'.seen = pass.seen /\ pass'.mtime = pass.mtime
      /\ pass'.touched = pass.touched /\ pass'.removed = pass.removed
  BY <1>1 DEF Passes
<1>3. \A b \in pass.batch :
        b[1] \in pass.touched /\ b[1] \in Paths /\ view[b[1]].hash = b[2] /\ Known(view, b[1])
  BY <1>1 DEF ReindexInv, BatchInv
<1>4. /\ view' \in [Paths -> Doc]
      /\ \A q \in Paths :
           /\ view'[q].hash = view[q].hash /\ view'[q].mtime = view[q].mtime
           /\ view'[q].rated = view[q].rated
           /\ ~Known(view, q) => view'[q] = view[q]
           /\ view[q].vec = view[q].hash \/ (\E b \in pass.batch : b[1] = q) =>
                view'[q].vec = view[q].hash
           /\ view[q].cvec = view[q].hash \/ (\E b \in pass.batch : b[1] = q /\ b[3]) =>
                view'[q].cvec = view[q].hash
  <2> DEFINE rows == DocVecs(view)
  <2>1. /\ rows \in [Paths -> Doc]
        /\ \A q \in Paths :
             /\ rows[q].hash = view[q].hash /\ rows[q].mtime = view[q].mtime
             /\ rows[q].cvec = view[q].cvec /\ rows[q].rated = view[q].rated
             /\ ~Known(view, q) => rows[q] = view[q]
             /\ view[q].vec = view[q].hash \/ (\E b \in pass.batch : b[1] = q) =>
                  rows[q].vec = view[q].hash
    BY <1>1, <1>3, DocVecsAre
  <2>2. view' = ChunkVecs(rows)
    BY <1>1
  <2> HIDE DEF rows
  <2>3. /\ view' \in [Paths -> Doc]
        /\ \A q \in Paths :
             /\ view'[q].hash = rows[q].hash /\ view'[q].mtime = rows[q].mtime
             /\ view'[q].vec = rows[q].vec /\ view'[q].rated = rows[q].rated
             /\ ~Known(rows, q) => view'[q] = rows[q]
             /\ view'[q].cvec = rows[q].cvec
                \/ \E b \in pass.batch : b[1] = q /\ view'[q].cvec = b[2]
             /\ Known(rows, q) /\ (\E b \in pass.batch : b[1] = q /\ b[3]) =>
                  \E b \in pass.batch : b[1] = q /\ view'[q].cvec = b[2]
    BY <1>1, <2>1, <2>2, ChunkVecsAre
  <2> QED
    BY <1>3, <2>1, <2>3 DEF Known
<1>5. RowsTypeOK' /\ RowsInv'
  BY <1>1, <1>2, <1>4, SameText
<1>6. StageInv'
  BY <1>1, <1>2 DEF ReindexInv, StageInv
<1>7. BatchInv' /\ KeptInv'
  BY <1>1, <1>2, <1>4 DEF ReindexInv, BatchInv, KeptInv, Known
<1>8. SeenInv' /\ TouchedInv'
  BY <1>1, <1>2, <1>4 DEF ReindexInv, SeenInv, TouchedInv, UpToDate, Known, Exists
<1>9. EmbeddedInv'
  BY <1>1, <1>2, <1>4 DEF ReindexInv, EmbeddedInv
<1>10. DerivedInv'
  BY <1>1, <1>2, <1>4 DEF ReindexInv, DerivedInv
<1> QED
  BY <1>5, <1>6, <1>7, <1>8, <1>9, <1>10 DEF ReindexInv

\* When no file was edited in the middle of a pass, what a pass wrote is up to
\* date.
LEMMA UndisturbedIsUpToDate ==
  ASSUME ReindexInv, disturbed \subseteq {"rating"}
  PROVE  \A p \in Paths : pass.pc # "idle" => UpToDate(p) /\ edited = {}
<1>1. pass.pc # "idle" => pass.kind \in {"source", "paths"}
  BY DEF ReindexInv, RowsTypeOK, StageInv
<1> QED
  BY <1>1 DEF ReindexInv, StageInv, UpToDate

LEMMA SyncCodeGraphStep ==
  ASSUME ReindexInv, SyncCodeGraph
  PROVE  ReindexInv'
<1>1. /\ pass.pc = "scan" /\ pass.todo = {} /\ pass.batch = {}
      /\ pass.kind = "source" => Vanished = {}
      /\ pass' = [pass EXCEPT !.pc = "graph"]
      /\ UNCHANGED <<files, committed, view, edits, faults, edited, disturbed>>
      /\ view \in [Paths -> Doc] /\ pass \in Passes
  BY DEF SyncCodeGraph, ScanDone, ReindexInv, RowsTypeOK, Passes
<1>2. /\ pass' \in Passes /\ pass'.pc = "graph" /\ pass'.batch = {}
      /\ pass'.kind = pass.kind /\ pass'.full = pass.full /\ pass'.existing = pass.existing
      /\ pass'.todo = {} /\ pass'.seen = pass.seen /\ pass'.mtime = pass.mtime
      /\ pass'.touched = pass.touched /\ pass'.removed = pass.removed
  BY <1>1 DEF Passes
<1>3. RowsTypeOK' /\ RowsInv'
  BY <1>1, <1>2, SameText
<1>4. StageInv'
  <2>1. Vanished' = Vanished
    BY <1>1, <1>2 DEF Vanished, Known
  <2> QED
    BY <1>1, <1>2, <2>1 DEF ReindexInv, StageInv
<1>5. BatchInv' /\ KeptInv'
  BY <1>1, <1>2 DEF ReindexInv, BatchInv, KeptInv, Known
<1>6. SeenInv'
  BY <1>1, <1>2 DEF ReindexInv, SeenInv, Known, Exists
<1>7. TouchedInv'
  BY <1>1, <1>2 DEF ReindexInv, TouchedInv, UpToDate
<1>8. EmbeddedInv'
  BY <1>1, <1>2 DEF ReindexInv, EmbeddedInv
<1>9. DerivedInv'
  BY <1>1, <1>2 DEF ReindexInv, DerivedInv
<1> QED
  BY <1>3, <1>4, <1>5, <1>6, <1>7, <1>8, <1>9 DEF ReindexInv

LEMMA ResetStatusStep ==
  ASSUME ReindexInv, ResetStatus
  PROVE  ReindexInv'
<1> DEFINE row(p) == [view[p] EXCEPT !.rated = NoFile]
<1>1. /\ pass.pc = "graph" /\ pass.todo = {} /\ pass.batch = {}
      /\ pass.kind = "source" => Vanished = {}
      /\ view' = [p \in Paths |-> IF p \in ToRate THEN row(p) ELSE view[p]]
      /\ committed' = view'
      /\ pass' = [pass EXCEPT !.pc = "rate"]
      /\ UNCHANGED <<files, edits, faults, edited, disturbed>>
      /\ view \in [Paths -> Doc] /\ pass \in Passes /\ pass.touched \subseteq Paths
  BY DEF ResetStatus, ReindexInv, RowsTypeOK, Passes, StageInv
<1>2. /\ pass' \in Passes /\ pass'.pc = "rate" /\ pass'.batch = {}
      /\ pass'.kind = pass.kind /\ pass'.full = pass.full /\ pass'.existing = pass.existing
      /\ pass'.todo = {} /\ pass'.seen = pass.seen /\ pass'.mtime = pass.mtime
      /\ pass'.touched = pass.touched /\ pass'.removed = pass.removed
  BY <1>1 DEF Passes
<1>3. \A p \in Paths :
        /\ row(p) \in Doc
        /\ row(p).hash = view[p].hash /\ row(p).mtime = view[p].mtime
        /\ row(p).vec = view[p].vec /\ row(p).cvec = view[p].cvec
  BY <1>1 DEF Doc
<1> HIDE DEF row
<1>4. /\ view' \in [Paths -> Doc]
      /\ \A p \in Paths :
           /\ view'[p].hash = view[p].hash /\ view'[p].mtime = view[p].mtime
           /\ view'[p].vec = view[p].vec /\ view'[p].cvec = view[p].cvec
           /\ p \notin ToRate => view'[p] = view[p]
           /\ ~Known(view, p) => view'[p] = view[p]
  <2>1. \A p \in Paths : view'[p] = IF p \in ToRate THEN row(p) ELSE view[p]
    BY <1>1, Zenon
  <2>2. view' \in [Paths -> Doc]
    BY <1>1, <1>3
  <2>3. \A p \in Paths : ~Known(view, p) => p \notin ToRate
    BY DEF ToRate
  <2> QED
    BY <1>3, <2>1, <2>2, <2>3
<1>5. RowsTypeOK' /\ RowsInv'
  BY <1>1, <1>2, <1>4, SameText
<1>6. StageInv'
  <2>1. Vanished' = Vanished
    BY <1>2, <1>4 DEF Vanished, Known
  <2> QED
    BY <1>1, <1>2, <2>1 DEF ReindexInv, StageInv
<1>7. BatchInv'
  BY <1>1, <1>2, <1>4 DEF ReindexInv, BatchInv, Known
<1>8. KeptInv'
  <2> SUFFICES ASSUME pass.kind = "source", NEW p \in Paths \ pass.touched,
                      ~(~Known(view, p) /\ p \notin pass.seen /\ pass.todo = {})
               PROVE  /\ view'[p].hash = pass.existing[p].hash
                      /\ ~pass.removed => view'[p].rated = pass.existing[p].rated
    BY <1>1, <1>2, <1>4 DEF KeptInv, Known
  <2>1. view[p].hash = pass.existing[p].hash /\ view[p].rated = pass.existing[p].rated
    BY <1>1 DEF ReindexInv, KeptInv
  <2>2. ~pass.removed => p \notin ToRate
    BY DEF ToRate
  <2> QED
    BY <1>4, <2>1, <2>2
<1>9. SeenInv'
  BY <1>1, <1>2, <1>4 DEF ReindexInv, SeenInv, Known, Exists
<1>10. TouchedInv'
  BY <1>1, <1>2, <1>4 DEF ReindexInv, TouchedInv, UpToDate
<1>11. EmbeddedInv'
  BY <1>1, <1>2, <1>4 DEF ReindexInv, EmbeddedInv
<1>12. DerivedInv'
  <2> SUFFICES ASSUME faults = 0, disturbed = {}, NEW p \in Paths
               PROVE  \/ view'[p].rated = view'[p].hash \/ p \in pass.touched
                      \/ p \in ToRate'
    BY <1>1, <1>2 DEF DerivedInv
  <2>1. ToRate' = ToRate
    BY <1>2, <1>4 DEF ToRate, Known
  <2> QED
    BY <1>1, <1>4, <2>1 DEF ReindexInv, DerivedInv
<1> QED
  BY <1>5, <1>6, <1>7, <1>8, <1>9, <1>10, <1>11, <1>12 DEF ReindexInv

\* A scan has come upon exactly the files there are, and has them indexed.
LEMMA ScanIndexes ==
  ASSUME ReindexInv, pass.kind = "source", pass.pc \in {"graph", "rate", "pair"},
         NEW p \in Paths \ edited
  PROVE  /\ Known(view, p) <=> Exists(p)
         /\ "paths" \notin disturbed => view[p].hash = files[p].content
         /\ Exists(p) => /\ p \in pass.seen
                         /\ pass.full => p \in pass.touched
<1>1. /\ pass.todo = {} /\ Vanished = {} /\ pass.touched \subseteq pass.seen
      /\ p \in pass.seen => Exists(p) /\ Known(view, p) /\ (pass.full => p \in pass.touched)
                            /\ ("paths" \notin disturbed => view[p].hash = files[p].content)
      /\ p \notin pass.seen => ~Exists(p)
  BY DEF ReindexInv, StageInv, SeenInv
<1>2. p \notin pass.seen => ~Known(view, p)
  BY <1>1 DEF ReindexInv, KeptInv, Vanished, Known
<1> QED
  BY <1>1, <1>2 DEF Known, Exists

LEMMA RateStep ==
  ASSUME ReindexInv, Rate
  PROVE  ReindexInv'
<1> DEFINE row(p) == [view[p] EXCEPT !.rated = files[p].content]
           drivers == {p \in ToRate : files[p].content \notin Withdrawn}
<1>1. /\ pass.pc = "rate" /\ pass.todo = {} /\ pass.batch = {}
      /\ pass.kind = "source" => Vanished = {}
      /\ view' = [p \in Paths |-> IF p \in ToRate THEN row(p) ELSE view[p]]
      /\ committed' = view'
      /\ pass' = [pass EXCEPT !.pc = "pair", !.drivers = drivers]
      /\ disturbed' = IF Misrated THEN disturbed \cup {"rating"} ELSE disturbed
      /\ UNCHANGED <<files, edits, faults, edited>>
      /\ view \in [Paths -> Doc] /\ pass \in Passes /\ pass.touched \subseteq Paths
      /\ \A p \in Paths : files[p].content \in Texts \cup {NoFile}
  BY DEF Rate, ReindexInv, RowsTypeOK, Passes, StageInv, File
<1>2. drivers \in SUBSET Paths
  BY DEF ToRate
<1> HIDE DEF drivers
<1>3. /\ pass' \in Passes /\ pass'.pc = "pair" /\ pass'.batch = {}
      /\ pass'.kind = pass.kind /\ pass'.full = pass.full /\ pass'.existing = pass.existing
      /\ pass'.todo = {} /\ pass'.seen = pass.seen /\ pass'.mtime = pass.mtime
      /\ pass'.touched = pass.touched /\ pass'.removed = pass.removed
  BY <1>1, <1>2 DEF Passes
<1>4. \A p \in Paths :
        /\ row(p) \in Doc /\ row(p).rated = files[p].content
        /\ row(p).hash = view[p].hash /\ row(p).mtime = view[p].mtime
        /\ row(p).vec = view[p].vec /\ row(p).cvec = view[p].cvec
  BY <1>1 DEF Doc
<1> HIDE DEF row
<1>5. /\ view' \in [Paths -> Doc]
      /\ \A p \in Paths :
           /\ view'[p].hash = view[p].hash /\ view'[p].mtime = view[p].mtime
           /\ view'[p].vec = view[p].vec /\ view'[p].cvec = view[p].cvec
           /\ p \in ToRate => view'[p].rated = files[p].content
           /\ p \notin ToRate => view'[p] = view[p]
           /\ ~Known(view, p) => view'[p] = view[p]
  <2>1. \A p \in Paths : view'[p] = IF p \in ToRate THEN row(p) ELSE view[p]
    BY <1>1, Zenon
  <2>2. view' \in [Paths -> Doc]
    BY <1>1, <1>4
  <2>3. \A p \in Paths : ~Known(view, p) => p \notin ToRate
    BY DEF ToRate
  <2> QED
    BY <1>4, <2>1, <2>2, <2>3
<1>6. /\ disturbed' \subseteq {"source", "paths", "rating"}
      /\ "paths" \in disturbed' => "paths" \in disturbed
      /\ disturbed \subseteq disturbed'
      /\ disturbed' = {} => ~Misrated
      /\ "source" \in disturbed' => "source" \in disturbed
  BY <1>1 DEF ReindexInv, RowsTypeOK
<1>7. RowsTypeOK'
  <2>1. ReindexTypes
    BY TypesAre, Zenon DEF ReindexInv
  <2>2. ReindexTypes'
    BY <1>1, <1>3, <1>5, <1>6, <2>1, Zenon DEF ReindexTypes
  <2> QED
    BY <2>2, TypesAre, Zenon
<1>8. RowsInv'
  <2>1. \A q \in Paths :
           /\ ~Known(view', q) => view'[q] = NoRow
           /\ view'[q].mtime <= edits
           /\ "paths" \notin disturbed /\ Known(view', q) /\ view'[q].mtime = files[q].mtime =>
                view'[q].hash = files[q].content
    BY <1>5, SameTextSound
  <2>2. Sound(view)'
    BY <1>1, <1>6, <2>1 DEF Sound, Blank, Told, Known
  <2>3. Sound(committed)'
    BY <1>1, <2>2 DEF Sound, Blank, Told, Known
  <2>4. Sound(pass.existing)'
    BY <1>1, <1>3, <1>6 DEF ReindexInv, RowsInv, Sound, Blank, Told, Known
  <2> QED
    BY <1>1, <1>3, <2>2, <2>3, <2>4 DEF ReindexInv, RowsInv
<1>9. StageInv'
  <2>1. Vanished' = Vanished
    BY <1>3, <1>5 DEF Vanished, Known
  <2> QED
    BY <1>1, <1>3, <1>6, <2>1 DEF ReindexInv, StageInv
<1>10. BatchInv'
  BY <1>1, <1>3, <1>5 DEF ReindexInv, BatchInv, Known
<1>11. ToRate' = ToRate
  BY <1>3, <1>5 DEF ToRate, Known
<1>12. KeptInv'
  <2> SUFFICES ASSUME pass.kind = "source", NEW p \in Paths \ pass.touched,
                      ~(~Known(view, p) /\ p \notin pass.seen /\ pass.todo = {})
               PROVE  /\ view'[p].hash = pass.existing[p].hash
                      /\ ~pass.removed => view'[p].rated = pass.existing[p].rated
    BY <1>1, <1>3, <1>5 DEF KeptInv, Known
  <2>1. view[p].hash = pass.existing[p].hash
        /\ (~pass.removed => view[p].rated = pass.existing[p].rated)
    BY <1>1 DEF ReindexInv, KeptInv
  <2>2. ~pass.removed => p \notin ToRate
    BY DEF ToRate
  <2> QED
    BY <1>5, <2>1, <2>2
<1>13. SeenInv'
  BY <1>1, <1>3, <1>5, <1>6 DEF ReindexInv, SeenInv, Known, Exists
<1>14. TouchedInv'
  BY <1>1, <1>3, <1>5, <1>6 DEF ReindexInv, TouchedInv, UpToDate
<1>15. EmbeddedInv'
  BY <1>1, <1>3, <1>5 DEF ReindexInv, EmbeddedInv
<1>16. DerivedInv'
  <2>1. ASSUME faults = 0, disturbed' = {}, NEW p \in Paths
        PROVE  view'[p].rated = view'[p].hash
    <3>1. disturbed = {} /\ ~Misrated
      BY <2>1, <1>6
    <3>2. CASE p \in ToRate
      <4>1. view'[p].rated = files[p].content /\ view'[p].hash = view[p].hash
        BY <3>2, <1>5
      <4>2. CASE pass.kind = "paths"
        BY <3>1, <3>2, <4>1, <4>2 DEF Misrated
      <4>3. CASE pass.kind = "source"
        <5>1. edited = {}
          BY <3>1, <1>1, UndisturbedIsUpToDate
        <5> QED
          BY <3>1, <4>1, <4>3, <5>1, <1>1, ScanIndexes
      <4>4. pass.kind \in {"paths", "source"}
        BY <1>1 DEF ReindexInv, StageInv, RowsTypeOK
      <4> QED BY <4>2, <4>3, <4>4
    <3>3. CASE p \notin ToRate
      <4>1. view'[p] = view[p]
        BY <3>3, <1>5
      <4>2. p \notin pass.touched
        BY <3>3 DEF ReindexInv, BatchInv, ToRate
      <4> QED
        BY <2>1, <3>1, <3>3, <4>1, <4>2 DEF ReindexInv, DerivedInv
    <3> QED BY <3>2, <3>3
  <2>2. \A p \in ToRate : view'[p].rated = files[p].content
    BY <1>5 DEF ToRate
  <2> QED
    BY <1>1, <1>3, <1>11, <2>1, <2>2 DEF DerivedInv
<1> QED
  BY <1>7, <1>8, <1>9, <1>10, <1>12, <1>13, <1>14, <1>15, <1>16 DEF ReindexInv

\* A mark changes no row.
LEMMA PairStep ==
  ASSUME ReindexInv, NEW p \in Paths, Pair(p)
  PROVE  ReindexInv'
<1>1. /\ pass.pc = "pair"
      /\ pass' = [pass EXCEPT !.drivers = @ \ {p}]
         \/ \E q \in Paths : pass' = [pass EXCEPT !.drivers = @ \ {p},
                                                 !.marked = @ \cup {Older(p, q)}]
      /\ UNCHANGED <<files, committed, view, edits, faults, edited, disturbed>>
      /\ view \in [Paths -> Doc] /\ pass \in Passes
  BY DEF Pair, Neighbours, ReindexInv, RowsTypeOK, Passes
<1>2. /\ pass' \in Passes /\ pass'.pc = "pair" /\ pass'.batch = pass.batch
      /\ pass'.kind = pass.kind /\ pass'.full = pass.full /\ pass'.existing = pass.existing
      /\ pass'.todo = pass.todo /\ pass'.seen = pass.seen /\ pass'.mtime = pass.mtime
      /\ pass'.touched = pass.touched /\ pass'.removed = pass.removed
  <2>1. \E m \in SUBSET Paths : pass' = [pass EXCEPT !.drivers = @ \ {p}, !.marked = m]
    <3>1. CASE pass' = [pass EXCEPT !.drivers = @ \ {p}]
      <4>1. pass.marked \in SUBSET Paths /\ pass' = [pass EXCEPT !.drivers = @ \ {p},
                                                               !.marked = pass.marked]
        BY <1>1, <3>1 DEF Passes
      <4> QED BY <4>1
    <3>2. ASSUME NEW q \in Paths,
                 pass' = [pass EXCEPT !.drivers = @ \ {p}, !.marked = @ \cup {Older(p, q)}]
          PROVE  \E m \in SUBSET Paths : pass' = [pass EXCEPT !.drivers = @ \ {p}, !.marked = m]
      <4>1. pass.marked \cup {Older(p, q)} \in SUBSET Paths
        BY <1>1 DEF Older, Passes
      <4> QED BY <3>2, <4>1
    <3> QED BY <1>1, <3>1, <3>2
  <2>2. PICK m \in SUBSET Paths : pass' = [pass EXCEPT !.drivers = @ \ {p}, !.marked = m]
    BY <2>1
  <2>3. pass.drivers \ {p} \in SUBSET Paths
    BY <1>1 DEF Passes
  <2> QED
    BY <1>1, <2>2, <2>3 DEF Passes
<1>3. RowsTypeOK' /\ RowsInv'
  BY <1>1, <1>2, SameText
<1>4. StageInv'
  <2>1. Vanished' = Vanished
    BY <1>1, <1>2 DEF Vanished, Known
  <2> QED
    BY <1>1, <1>2, <2>1 DEF ReindexInv, StageInv
<1>5. BatchInv' /\ KeptInv'
  <2>1. BatchInv'
    BY <1>1, <1>2 DEF ReindexInv, BatchInv, Known
  <2>2. KeptInv'
    BY <1>1, <1>2 DEF ReindexInv, KeptInv, Known
  <2> QED BY <2>1, <2>2
<1>6. SeenInv'
  BY <1>1, <1>2 DEF ReindexInv, SeenInv, Known, Exists
<1>7. TouchedInv'
  BY <1>1, <1>2 DEF ReindexInv, TouchedInv, UpToDate
<1>8. EmbeddedInv'
  BY <1>1, <1>2 DEF ReindexInv, EmbeddedInv
<1>9. DerivedInv'
  <2>1. ToRate' = ToRate
    BY <1>1, <1>2 DEF ToRate, Known
  <2> QED
    BY <1>1, <1>2, <2>1 DEF ReindexInv, DerivedInv
<1> QED
  BY <1>3, <1>4, <1>5, <1>6, <1>7, <1>8, <1>9 DEF ReindexInv

\* What a pass leaves behind that nothing overtook.
LEMMA EndPassDerives ==
  ASSUME ReindexInv, EndPass, faults = 0, NEW p \in Paths
  PROVE  /\ view[p].vec = view[p].hash /\ view[p].cvec = view[p].hash
         /\ disturbed = {} => view[p].rated = view[p].hash
<1>1. /\ pass.pc \in {"graph", "pair"} /\ pass.batch = {}
      /\ pass.pc = "graph" => pass.touched = {}
  BY DEF EndPass, ReindexInv, StageInv
<1> QED
  BY <1>1 DEF ReindexInv, EmbeddedInv, DerivedInv

LEMMA EndPassStep ==
  ASSUME ReindexInv, EndPass
  PROVE  ReindexInv'
<1>1. /\ committed' = view /\ pass' = Resting
      /\ UNCHANGED <<files, view, edits, faults, edited, disturbed>>
  BY DEF EndPass
<1>2. RowsTypeOK'
  <2>1. ReindexTypes
    BY TypesAre, Zenon DEF ReindexInv
  <2>2. pass' \in Passes
    BY <1>1, RestingIs
  <2>3. ReindexTypes'
    BY <1>1, <2>1, <2>2, Zenon DEF ReindexTypes
  <2> QED
    BY <2>3, TypesAre, Zenon
<1>3. Sound(view)' /\ Sound(committed)' /\ \A p \in Paths : (files[p].mtime <= edits)'
  BY <1>1 DEF ReindexInv, RowsInv, Sound, Blank, Told, Known
<1>4. faults' = 0 =>
        \A p \in Paths :
          /\ view'[p].vec = view'[p].hash /\ view'[p].cvec = view'[p].hash
          /\ disturbed' = {} => view'[p].rated = view'[p].hash
  BY <1>1, EndPassDerives
<1> QED
  BY <1>1, <1>2, <1>3, <1>4, RestingInv

\* A pass fails: what is on disk is sound.
LEMMA FailedStep ==
  ASSUME ReindexInv, faults' = faults + 1, faults < MaxFaults, (\E l \in Left : committed' = l[1] /\ graphDisk' = l[2]),
         view' = committed', pass' = Resting,
         UNCHANGED <<files, edits, edited, disturbed>>
  PROVE  ReindexInv'
<1>1. /\ view \in [Paths -> Doc] /\ committed \in [Paths -> Doc] /\ pass \in Passes
      /\ faults \in Nat /\ faults' \in 0..MaxFaults /\ faults' # 0
      /\ edits \in Nat /\ \A p \in Paths : files[p].mtime <= edits
  BY ConstantsAssumption DEF ReindexInv, RowsTypeOK, Passes, RowsInv
<1>2. committed' = committed \/ committed' = DocVecs(view)
  BY DEF Left
<1>3. committed' \in [Paths -> Doc]
  BY <1>1, <1>2, DocVecsAre
<1>4. RowsTypeOK'
  <2>1. ReindexTypes
    BY TypesAre, Zenon DEF ReindexInv
  <2>2. pass' \in Passes
    BY RestingIs
  <2>3. ReindexTypes'
    BY <1>1, <1>3, <2>1, <2>2, Zenon DEF ReindexTypes
  <2> QED
    BY <2>3, TypesAre, Zenon
<1>5. Sound(committed)'
  <2>1. CASE committed' = committed
    BY <2>1 DEF ReindexInv, RowsInv, Sound, Blank, Told, Known
  <2>2. CASE committed' = DocVecs(view)
    <3>1. \A q \in Paths :
           /\ ~Known(committed', q) => committed'[q] = NoRow
           /\ committed'[q].mtime <= edits
           /\ "paths" \notin disturbed /\ Known(committed', q)
              /\ committed'[q].mtime = files[q].mtime => committed'[q].hash = files[q].content
      <4>1. \A q \in Paths :
              /\ committed'[q].hash = view[q].hash /\ committed'[q].mtime = view[q].mtime
              /\ ~Known(view, q) => committed'[q] = view[q]
        BY <1>1, <2>2, DocVecsAre
      <4> QED
        BY <1>3, <4>1, SameTextSound
    <3> QED
      BY <3>1 DEF Sound, Blank, Told, Known
  <2> QED BY <1>2, <2>1, <2>2
<1>6. Sound(view)'
  BY <1>5 DEF Sound, Blank, Told, Known
<1>7. \A p \in Paths : (files[p].mtime <= edits)'
  BY <1>1
<1> QED
  BY <1>1, <1>4, <1>5, <1>6, <1>7, RestingInv

LEMMA ReindexNext == ReindexInv /\ [Next]_vars => ReindexInv'
<1> SUFFICES ASSUME ReindexInv, [Next]_vars PROVE ReindexInv'
  OBVIOUS
<1>1. CASE EditFile
  BY <1>1, EditFileStep
<1>2. CASE Begin \/ BeginPaths
  BY <1>2, BeginStep
<1>3. CASE PassStep
  <2>1. CASE \E p \in Paths : Miss(p) \/ Stat(p) \/ Prune(p) \/ ReadFirst(p) \/ Pair(p)
    BY <2>1, MissStep, StatStep, PruneStep, ReadFirstStep, PairStep
  <2>2. CASE Read
    BY <2>2, ReadFileStep
  <2>3. CASE RemoveVanished
    BY <2>3, RemoveVanishedStep
  <2>4. CASE StatAfter
    BY <2>4, StatAfterStep
  <2>5. CASE FlushBegin \/ Flush
    BY <2>5, FlushBeginStep, FlushStep
  <2>6. CASE SyncCodeGraph
    BY <2>6, SyncCodeGraphStep
  <2>7. CASE ResetStatus
    BY <2>7, ResetStatusStep
  <2>8. CASE Rate
    BY <2>8, RateStep
  <2>9. CASE EndPass
    BY <2>9, EndPassStep
  <2> QED
    BY <1>3, <2>1, <2>2, <2>3, <2>4, <2>5, <2>6, <2>7, <2>8, <2>9 DEF PassStep
<1>4. CASE CommitProgress
  BY <1>4, CommitProgressStep
<1>5. CASE EmbedFails \/ Crash
  BY <1>5, FailedStep DEF EmbedFails, Crash, Abort
<1>6. CASE UNCHANGED vars
  <2>1. /\ files' = files /\ committed' = committed /\ view' = view /\ pass' = pass
        /\ edits' = edits /\ faults' = faults /\ edited' = edited /\ disturbed' = disturbed
    BY <1>6 DEF vars
  <2>2. RowsTypeOK' /\ RowsInv' /\ StageInv' /\ BatchInv'
    BY <2>1 DEF ReindexInv, RowsTypeOK, RowsInv, Sound, Blank, Told, StageInv, BatchInv, Known,
                Vanished
  <2>3. KeptInv' /\ SeenInv' /\ TouchedInv' /\ EmbeddedInv' /\ DerivedInv'
    BY <2>1 DEF ReindexInv, KeptInv, SeenInv, TouchedInv, UpToDate, EmbeddedInv, DerivedInv,
                Known, Exists, ToRate
  <2> QED
    BY <2>2, <2>3 DEF ReindexInv
<1> QED
  BY <1>1, <1>2, <1>3, <1>4, <1>5, <1>6 DEF Next

\* What the runs' histories hold at any time.
LEMMA ReindexInvariant == Spec => []ReindexInv
BY ReindexInit, ReindexNext, PTL DEF Spec

\* Of the steps that take a pass to its end, only the last one of its own is no
\* failure.
LEMMA OnlyEndPassCompletes ==
  ASSUME ReindexInv, [Next]_vars, pass.pc # "idle", pass'.pc = "idle",
         faults' = faults \/ faults' = 0
  PROVE  EndPass
<1>1. faults \in Nat /\ pass \in Passes
  BY ConstantsAssumption DEF ReindexInv, RowsTypeOK, Passes
<1>2. ~(EditFile \/ Begin \/ BeginPaths \/ CommitProgress \/ UNCHANGED vars)
  <2>1. ~(EditFile \/ CommitProgress \/ UNCHANGED vars)
    BY <1>1 DEF EditFile, CommitProgress, vars
  <2>2. ~(Begin \/ BeginPaths)
    BY <1>1 DEF Begin, BeginPaths
  <2> QED BY <2>1, <2>2
<1>3. ~(EmbedFails \/ Crash)
  BY <1>1 DEF EmbedFails, Crash, Abort
<1>4. \A p \in Paths : ~(Miss(p) \/ Stat(p) \/ Prune(p) \/ ReadFirst(p) \/ Pair(p))
  <2> TAKE p \in Paths
  <2>1. ~Miss(p)
    BY <1>1 DEF Miss, Scanning, Passes
  <2>2. ~Stat(p)
    BY <1>1 DEF Stat, Scanning, Passes
  <2>3. ~Prune(p)
    BY <1>1 DEF Prune, Scanning, Passes
  <2>4. ~ReadFirst(p)
    BY <1>1 DEF ReadFirst, Scanning, Passes
  <2>5. ~Pair(p)
    BY <1>1 DEF Pair, Passes
  <2> QED BY <2>1, <2>2, <2>3, <2>4, <2>5
<1>5. ~(Read \/ StatAfter)
  <2>1. ASSUME Read \/ StatAfter PROVE pass'.pc = "scan"
    BY <1>1, <2>1 DEF Read, StatAfter, Refresh, Upsert, Passes
  <2> QED BY <2>1
<1>6. ~(RemoveVanished \/ FlushBegin \/ Flush)
  BY <1>1 DEF RemoveVanished, Scanning, FlushBegin, Flush, Passes
<1>7. ~(SyncCodeGraph \/ ResetStatus \/ Rate)
  BY <1>1 DEF SyncCodeGraph, ResetStatus, Rate, Passes
<1> QED
  BY <1>2, <1>3, <1>4, <1>5, <1>6, <1>7 DEF Next, PassStep

-----------------------------------------------------------------------------
(***************************************************************************)
(* Reindex: the graph.  Until a pass fails or is disturbed, the citations  *)
(* of a doc are those of its text, but for what was passed over.           *)
(***************************************************************************)
Ending == {"graph", "rate", "pair"}

InTime(p) ==
  /\ \A q \in Paths : <<p, q>> \in graph.cites => Known(view, q) /\ <<view[p].hash, q>> \in Cites
  /\ \A q \in Paths : <<p, q>> \in graph.lost => ~Known(view, q) /\ <<view[p].hash, q>> \in Cites
  /\ \A q \in Paths : <<view[p].hash, q>> \in Cites =>
                        <<p, q>> \in graph.cites \/ <<p, q>> \in graph.lost \/ <<p, q>> \in unseen

CitesInv ==
  faults = 0 /\ disturbed \subseteq {"rating"} =>
    \A p \in Paths : InTime(p) \/ (p \in pass.touched /\ pass.pc \notin Ending)

\* What a scan extracted from a file nobody edits is what the file cites.
ExtractedInv ==
  pass.kind = "source" /\ pass.pc \in Ending =>
    \A p \in Paths \cap (pass.touched \ edited) : \A q \in Paths :
      <<p, q>> \in graph.cites <=> Known(view, q) /\ <<view[p].hash, q>> \in Cites

\* The marks a pass has made are right, and the docs it rated and did not mark are
\* live or stale; a driver that is done has no rival.
MarksInv ==
  /\ pass.pc # "pair" => pass.marked = {}
  /\ pass.pc \in {"rate", "pair"} => \A p \in ToRate \ pass.marked : graph.dup[p] = NoPath
  /\ \A p \in pass.marked : graph.dup[p] \in Paths /\ MarkedRightly(p)
  /\ pass.pc = "pair" /\ ~Crowded => \A p \in ToRate \ pass.drivers : Live(p) => Unrivalled(p)

GraphInv == LinksTypeOK /\ CitesInv /\ ExtractedInv /\ MarksInv

\* The citations of a doc depend on nothing else.
LEMMA InTimeStays ==
  ASSUME NEW p \in Paths, InTime(p), view'[p].hash = view[p].hash,
         \A q \in Paths : view'[q].hash = view[q].hash,
         graph'.cites = graph.cites, graph'.lost = graph.lost, unseen' = unseen
  PROVE  InTime(p)'
BY DEF InTime, Known

\* A step that leaves the graph and every text as they are, outside the end of a
\* pass.
LEMMA LinksStay ==
  ASSUME GraphInv, UNCHANGED <<graph, unseen>>, graphDisk' \in {graphDisk, graph},
         \A q \in Paths : view'[q].hash = view[q].hash,
         pass.pc \notin Ending, pass'.pc \notin Ending, pass'.touched = pass.touched,
         pass'.marked = pass.marked, faults' = faults, disturbed' = disturbed
  PROVE  GraphInv'
<1>1. LinksTypeOK'
  BY DEF GraphInv, LinksTypeOK
<1>2. CitesInv'
  BY InTimeStays DEF GraphInv, CitesInv
<1>3. ExtractedInv' /\ MarksInv'
  BY DEF GraphInv, ExtractedInv, MarksInv, Ending
<1> QED BY <1>1, <1>2, <1>3 DEF GraphInv

LEMMA GraphInvInit == Init => GraphInv
<1> SUFFICES ASSUME Init PROVE GraphInv
  OBVIOUS
<1>1. /\ graph = [cites |-> {}, lost |-> {}, dup |-> [p \in Paths |-> NoPath]]
      /\ graphDisk = graph /\ unseen = {} /\ pass = Resting
      /\ \A p \in Paths : view[p].hash = NoFile
  BY NoRowIs DEF Init
<1>2. LinksTypeOK
  BY <1>1 DEF LinksTypeOK, Graph
<1>3. CitesInv
  BY <1>1, ConstantsAssumption DEF CitesInv, InTime
<1>4. ExtractedInv /\ MarksInv
  BY <1>1 DEF ExtractedInv, MarksInv, Ending, Resting
<1> QED BY <1>2, <1>3, <1>4 DEF GraphInv

\* A pass writes p.
LEMMA UpsertLinks ==
  ASSUME ReindexInv, GraphInv, NEW p \in Paths, NEW c \in Texts, NEW m \in 0..MaxFileEdits,
         Upsert(p, c, m), pass.pc = "read", UNCHANGED <<graphDisk, unseen, faults, disturbed>>
  PROVE  GraphInv'
<1>1. /\ graph \in Graph /\ graph' = Relink(p) /\ pass \in Passes /\ c # NoFile
      /\ view \in [Paths -> Doc]
  BY ConstantsAssumption DEF GraphInv, LinksTypeOK, Upsert, ReindexInv, RowsTypeOK, Passes
<1>2. /\ pass'.pc = "scan" /\ pass'.touched = pass.touched \cup {p} /\ pass'.marked = pass.marked
  BY <1>1 DEF Upsert, Touched, Passes
<1>3. /\ view'[p].hash = c /\ \A q \in Paths \ {p} : view'[q] = view[q]
  <2>1. RowOf(p, c, m).hash = c
    BY <1>1 DEF RowOf, Doc
  <2> HIDE DEF RowOf
  <2> QED BY <1>1, <2>1 DEF Upsert
<1>4. /\ graph' \in Graph /\ graph'.dup = graph.dup
      /\ graph'.cites = {e \in graph.cites : e[1] # p}
                        \cup {e \in graph.lost : e[2] = p /\ e[1] # p}
      /\ graph'.lost = {e \in graph.lost : p \notin {e[1], e[2]}}
  BY <1>1 DEF Relink, Graph
<1>5. LinksTypeOK'
  BY <1>4 DEF GraphInv, LinksTypeOK
<1>6. CitesInv'
  <2> SUFFICES ASSUME faults = 0, disturbed \subseteq {"rating"}, NEW q \in Paths \ {p},
                      InTime(q)
               PROVE  InTime(q)'
    BY <1>2 DEF GraphInv, CitesInv, Ending
  <2>1. view'[q].hash = view[q].hash /\ Known(view', p) /\ unseen' = unseen
        /\ \A x \in Paths \ {p} : Known(view', x) <=> Known(view, x)
    BY <1>1, <1>3 DEF Known
  <2>2. \A x \in Paths \ {p} : /\ <<q, x>> \in graph'.cites <=> <<q, x>> \in graph.cites
                               /\ <<q, x>> \in graph'.lost <=> <<q, x>> \in graph.lost
    BY <1>4
  <2>3. /\ <<q, p>> \in graph'.cites <=> <<q, p>> \in graph.cites \/ <<q, p>> \in graph.lost
        /\ <<q, p>> \notin graph'.lost
    BY <1>4
  <2> HIDE DEF Upsert, Relink
  <2> QED
    BY <2>1, <2>2, <2>3 DEF InTime
<1>7. ExtractedInv' /\ MarksInv'
  BY <1>2 DEF GraphInv, ExtractedInv, MarksInv, Ending
<1> QED BY <1>5, <1>6, <1>7 DEF GraphInv

\* A pass deletes p.
LEMMA UnlinkLinks ==
  ASSUME ReindexInv, GraphInv, NEW p \in Paths, p \notin pass.touched, graph' = Unlink(p),
         view' = [view EXCEPT ![p] = NoRow], pass.pc = "scan", pass'.pc = "scan",
         pass'.touched = pass.touched, pass'.marked = pass.marked,
         UNCHANGED <<graphDisk, unseen, faults, disturbed>>
  PROVE  GraphInv'
<1>1. /\ graph \in Graph /\ view \in [Paths -> Doc]
  BY DEF GraphInv, LinksTypeOK, ReindexInv, RowsTypeOK
<1>2. /\ view'[p].hash = NoFile /\ ~Known(view', p)
      /\ \A q \in Paths \ {p} : view'[q] = view[q]
  BY <1>1, NoRowIs DEF Known
<1>3. /\ graph' \in Graph
      /\ graph'.cites = {e \in graph.cites : p \notin {e[1], e[2]}}
      /\ graph'.lost = {e \in graph.lost : e[1] # p}
                       \cup {e \in graph.cites : e[2] = p /\ e[1] # p}
  BY <1>1 DEF Unlink, Graph
<1>4. LinksTypeOK'
  BY <1>3 DEF GraphInv, LinksTypeOK
<1>5. CitesInv'
  <2> SUFFICES ASSUME NEW q \in Paths, InTime(q)
               PROVE  InTime(q)'
    BY DEF GraphInv, CitesInv, Ending
  <2>1. CASE q = p
    <3>1. \A x \in Paths : <<q, x>> \notin graph'.cites /\ <<q, x>> \notin graph'.lost
      BY <1>3, <2>1
    <3>2. \A x \in Paths : <<view'[q].hash, x>> \notin Cites
      BY <1>2, <2>1, ConstantsAssumption
    <3> QED BY <3>1, <3>2 DEF InTime
  <2>2. CASE q # p
    <3>1. view'[q].hash = view[q].hash /\ unseen' = unseen
          /\ \A x \in Paths \ {p} : Known(view', x) <=> Known(view, x)
      BY <1>2, <2>2 DEF Known
    <3>2. \A x \in Paths \ {p} : /\ <<q, x>> \in graph'.cites <=> <<q, x>> \in graph.cites
                                 /\ <<q, x>> \in graph'.lost <=> <<q, x>> \in graph.lost
      BY <1>3, <2>2
    <3>3. /\ <<q, p>> \notin graph'.cites
          /\ <<q, p>> \in graph'.lost <=> <<q, p>> \in graph.cites \/ <<q, p>> \in graph.lost
      BY <1>3, <2>2
    <3> QED
      BY <1>2, <3>1, <3>2, <3>3 DEF InTime
  <2> QED BY <2>1, <2>2
<1>6. ExtractedInv' /\ MarksInv'
  BY DEF GraphInv, ExtractedInv, MarksInv, Ending
<1> QED BY <1>4, <1>5, <1>6 DEF GraphInv

\* The citations are extracted.
LEMMA SyncCodeGraphLinks ==
  ASSUME ReindexInv, GraphInv, SyncCodeGraph
  PROVE  GraphInv'
<1> DEFINE now == {e \in Extracted : Known(view, e[2])}
           none == {e \in Extracted : ~Known(view, e[2])}
<1>1. /\ graph \in Graph /\ pass \in Passes /\ pass.pc = "scan" /\ pass.touched \subseteq Paths
      /\ graph' = [graph EXCEPT !.cites = {e \in @ : e[1] \notin pass.touched} \cup now,
                                !.lost = {e \in @ : e[1] \notin pass.touched}]
      /\ unseen' = {e \in unseen : e[1] \notin pass.touched} \cup none
      /\ pass' = [pass EXCEPT !.pc = "graph"]
      /\ UNCHANGED <<files, view, graphDisk, faults, edited, disturbed>>
  BY DEF SyncCodeGraph, ScanDone, GraphInv, LinksTypeOK, ReindexInv, RowsTypeOK, Passes
<1>2. /\ now \subseteq Paths \X Paths /\ none \subseteq Paths \X Paths
      /\ \A p \in pass.touched, q \in Paths :
           /\ <<p, q>> \in now <=> Known(view, q) /\ <<files[p].content, q>> \in Cites
           /\ <<p, q>> \in none <=> ~Known(view, q) /\ <<files[p].content, q>> \in Cites
      /\ \A e \in now \cup none : e[1] \in pass.touched
  BY <1>1 DEF Extracted
<1> HIDE DEF now, none
<1>3. /\ graph' \in Graph
      /\ graph'.cites = {e \in graph.cites : e[1] \notin pass.touched} \cup now
      /\ graph'.lost = {e \in graph.lost : e[1] \notin pass.touched}
  BY <1>1, <1>2 DEF Graph
<1>4. pass'.pc = "graph" /\ pass'.touched = pass.touched /\ pass'.kind = pass.kind
      /\ pass'.marked = pass.marked
  BY <1>1 DEF Passes
<1>5. LinksTypeOK'
  BY <1>1, <1>2, <1>3 DEF GraphInv, LinksTypeOK
<1>6. \A p \in pass.touched, q \in Paths :
        /\ <<p, q>> \in graph'.cites <=> Known(view, q) /\ <<files[p].content, q>> \in Cites
        /\ <<p, q>> \notin graph'.lost
        /\ <<p, q>> \in unseen' <=> ~Known(view, q) /\ <<files[p].content, q>> \in Cites
  BY <1>1, <1>2, <1>3
<1>7. \A p \in Paths \ pass.touched, q \in Paths :
        /\ <<p, q>> \in graph'.cites <=> <<p, q>> \in graph.cites
        /\ <<p, q>> \in graph'.lost <=> <<p, q>> \in graph.lost
        /\ <<p, q>> \in unseen' <=> <<p, q>> \in unseen
  <2> SUFFICES ASSUME NEW p \in Paths \ pass.touched, NEW q \in Paths
               PROVE  /\ <<p, q>> \in graph'.cites <=> <<p, q>> \in graph.cites
                      /\ <<p, q>> \in graph'.lost <=> <<p, q>> \in graph.lost
                      /\ <<p, q>> \in unseen' <=> <<p, q>> \in unseen
    OBVIOUS
  <2>1. <<p, q>> \notin now \cup none /\ <<p, q>>[1] = p
    BY <1>2
  <2> QED BY <2>1, <1>1, <1>3
<1>8. CitesInv'
  <2> SUFFICES ASSUME faults = 0, disturbed \subseteq {"rating"}, NEW p \in Paths
               PROVE  InTime(p)'
    BY <1>1 DEF CitesInv
  <2>1. CASE p \in pass.touched
    <3>1. view[p].hash = files[p].content
      BY <2>1, <1>1, UndisturbedIsUpToDate DEF ReindexInv, TouchedInv
    <3> QED
      BY <2>1, <3>1, <1>1, <1>6 DEF InTime, Known
  <2>2. CASE p \notin pass.touched
    <3>1. InTime(p)
      BY <2>2, <1>1 DEF GraphInv, CitesInv
    <3> QED
      BY <2>2, <3>1, <1>1, <1>7 DEF InTime, Known
  <2> QED BY <2>1, <2>2
<1>9. ExtractedInv'
  <2> SUFFICES ASSUME pass.kind = "source", NEW p \in pass.touched \ edited, NEW q \in Paths
               PROVE  <<p, q>> \in graph'.cites <=> Known(view, q) /\ <<view[p].hash, q>> \in Cites
    BY <1>1, <1>4 DEF ExtractedInv, Known
  <2>1. view[p].hash = files[p].content
    BY <1>1 DEF ReindexInv, TouchedInv, UpToDate
  <2> QED BY <2>1, <1>6
<1>10. MarksInv'
  BY <1>1, <1>4 DEF GraphInv, MarksInv
<1> QED BY <1>5, <1>8, <1>9, <1>10 DEF GraphInv

\* A step of the end of a pass that leaves the citations.
LEMMA CitationsStay ==
  ASSUME GraphInv, pass.pc \in Ending, pass'.pc \in Ending,
         graph'.cites = graph.cites, graph'.lost = graph.lost, unseen' = unseen,
         \A q \in Paths : view'[q].hash = view[q].hash,
         pass'.touched = pass.touched, pass'.kind = pass.kind, edited' = edited,
         faults' = faults, disturbed \subseteq disturbed'
  PROVE  CitesInv' /\ ExtractedInv'
<1>1. CitesInv'
  BY InTimeStays DEF GraphInv, CitesInv
<1>2. ExtractedInv'
  BY DEF GraphInv, ExtractedInv, Known
<1> QED BY <1>1, <1>2

LEMMA ResetStatusLinks ==
  ASSUME ReindexInv, GraphInv, ResetStatus
  PROVE  GraphInv'
<1> DEFINE row(p) == [view[p] EXCEPT !.rated = NoFile]
           dup == [p \in Paths |-> IF p \in ToRate THEN NoPath ELSE graph.dup[p]]
<1>1. /\ graph \in Graph /\ pass \in Passes /\ pass.pc = "graph" /\ view \in [Paths -> Doc]
      /\ view' = [p \in Paths |-> IF p \in ToRate THEN row(p) ELSE view[p]]
      /\ graph' = [graph EXCEPT !.dup = dup] /\ graphDisk' = graph'
      /\ pass' = [pass EXCEPT !.pc = "rate"]
      /\ UNCHANGED <<unseen, faults, edited, disturbed>>
  BY DEF ResetStatus, GraphInv, LinksTypeOK, ReindexInv, RowsTypeOK, Passes
<1>2. \A p \in Paths : row(p).hash = view[p].hash
  BY <1>1 DEF Doc
<1> HIDE DEF row
<1>3. \A p \in Paths : view'[p].hash = view[p].hash
  BY <1>1, <1>2
<1>4. dup \in [Paths -> Paths \cup {NoPath}] /\ \A p \in ToRate : p \in Paths /\ dup[p] = NoPath
  BY <1>1 DEF Graph, ToRate
<1> HIDE DEF dup
<1>5. graph' \in Graph /\ graph'.cites = graph.cites /\ graph'.lost = graph.lost /\ graph'.dup = dup
  BY <1>1, <1>4 DEF Graph
<1>6. pass'.pc = "rate" /\ pass'.touched = pass.touched /\ pass'.kind = pass.kind
      /\ pass'.marked = pass.marked /\ pass'.removed = pass.removed
  BY <1>1 DEF Passes
<1>7. LinksTypeOK'
  BY <1>1, <1>5 DEF GraphInv, LinksTypeOK
<1>8. CitesInv' /\ ExtractedInv'
  BY <1>1, <1>3, <1>5, <1>6, CitationsStay DEF Ending
<1>9. MarksInv'
  <2>1. ToRate' = ToRate
    BY <1>3, <1>6 DEF ToRate, Known
  <2> QED
    BY <2>1, <1>1, <1>4, <1>5, <1>6 DEF GraphInv, MarksInv
<1> QED BY <1>7, <1>8, <1>9 DEF GraphInv

LEMMA RateLinks ==
  ASSUME ReindexInv, GraphInv, Rate
  PROVE  GraphInv'
<1> DEFINE row(p) == [view[p] EXCEPT !.rated = files[p].content]
           drivers == {p \in ToRate : files[p].content \notin Withdrawn}
<1>1. /\ graph \in Graph /\ pass \in Passes /\ pass.pc = "rate" /\ view \in [Paths -> Doc]
      /\ view' = [p \in Paths |-> IF p \in ToRate THEN row(p) ELSE view[p]]
      /\ graph' = graph /\ graphDisk' = graph
      /\ pass' = [pass EXCEPT !.pc = "pair", !.drivers = drivers]
      /\ UNCHANGED <<unseen, faults, edited>> /\ disturbed \subseteq disturbed'
  BY DEF Rate, GraphInv, LinksTypeOK, ReindexInv, RowsTypeOK, Passes
<1>2. \A p \in Paths : row(p).hash = view[p].hash /\ row(p).rated = files[p].content
  BY <1>1 DEF Doc
<1> HIDE DEF row
<1>3. /\ \A p \in Paths : view'[p].hash = view[p].hash
      /\ \A p \in ToRate : p \in Paths /\ view'[p].rated = files[p].content
  BY <1>1, <1>2 DEF ToRate
<1>4. drivers \in SUBSET Paths
  BY DEF ToRate
<1>5. pass'.pc = "pair" /\ pass'.touched = pass.touched /\ pass'.kind = pass.kind
      /\ pass'.marked = pass.marked /\ pass'.removed = pass.removed /\ pass'.drivers = drivers
  BY <1>1, <1>4 DEF Passes
<1>6. LinksTypeOK'
  BY <1>1 DEF GraphInv, LinksTypeOK
<1>7. CitesInv' /\ ExtractedInv'
  BY <1>1, <1>3, <1>5, CitationsStay DEF Ending
<1>8. MarksInv'
  <2>1. ToRate' = ToRate
    BY <1>3, <1>5 DEF ToRate, Known
  <2>2. pass.marked = {} /\ pass'.marked = {}
    BY <1>1, <1>5 DEF GraphInv, MarksInv
  <2>3. \A p \in ToRate : graph'.dup[p] = NoPath
    BY <1>1, <2>2 DEF GraphInv, MarksInv
  <2>4. \A p \in ToRate \ drivers : ~Live(p)'
    BY <1>3 DEF Live
  <2> QED
    BY <2>1, <2>2, <2>3, <2>4, <1>5 DEF MarksInv
<1> QED BY <1>6, <1>7, <1>8 DEF GraphInv

\* One driver is done.
LEMMA PairLinks ==
  ASSUME ReindexInv, GraphInv, NEW p \in Paths, Pair(p)
  PROVE  GraphInv'
<1>1. /\ graph \in Graph /\ graphDisk \in Graph /\ pass \in Passes /\ pass.pc = "pair"
      /\ view \in [Paths -> Doc] /\ p \in pass.drivers
      /\ graphDisk' \in {graphDisk, graph'}
      /\ UNCHANGED <<view, unseen, faults, edited, disturbed>>
      /\ \A q \in Paths : view[q].mtime \in Nat
  <2>1. /\ graph \in Graph /\ graphDisk \in Graph /\ pass \in Passes /\ view \in [Paths -> Doc]
    BY DEF GraphInv, LinksTypeOK, ReindexInv, RowsTypeOK, Passes
  <2>2. \A q \in Paths : view[q].mtime \in Nat
    BY <2>1, ConstantsAssumption DEF Doc
  <2> QED BY <2>1, <2>2 DEF Pair
<1>2. CASE /\ p \in pass.marked \/ Neighbours(p) = {} \/ Crowded
           /\ pass' = [pass EXCEPT !.drivers = @ \ {p}]
           /\ graph' = graph
  <2>1. /\ pass'.pc = "pair" /\ pass'.touched = pass.touched /\ pass'.kind = pass.kind
        /\ pass'.marked = pass.marked /\ pass'.removed = pass.removed
        /\ pass'.drivers = pass.drivers \ {p}
    BY <1>1, <1>2 DEF Passes
  <2>2. LinksTypeOK'
    BY <1>1, <1>2 DEF GraphInv, LinksTypeOK
  <2>3. CitesInv' /\ ExtractedInv'
    BY <1>1, <1>2, <2>1, CitationsStay DEF Ending
  <2>4. ToRate' = ToRate /\ \A q \in Paths : (Live(q)' <=> Live(q)) /\ (MarkedRightly(q)' <=> MarkedRightly(q))
                            /\ (Unrivalled(q)' <=> Unrivalled(q))
    BY <1>1, <1>2, <2>1 DEF ToRate, Known, Live, MarkedRightly, Unrivalled, Neighbours, Alike
  <2>5. ~Crowded /\ Live(p) => Unrivalled(p)
    <3>1. p \in pass.marked => ~Live(p)
      BY ConstantsAssumption DEF GraphInv, MarksInv, Live
    <3> QED BY <1>2, <3>1 DEF Unrivalled
  <2>6. MarksInv'
    <3>1. ToRate \subseteq Paths /\ pass.marked \subseteq Paths
      BY <1>1 DEF ToRate, Passes
    <3> QED
      BY <1>1, <1>2, <2>1, <2>4, <2>5, <3>1 DEF GraphInv, MarksInv
  <2> QED BY <2>2, <2>3, <2>6 DEF GraphInv
<1>3. ASSUME p \notin pass.marked, NEW q \in Neighbours(p),
             graph' = [graph EXCEPT !.dup[Older(p, q)] = Newer(p, q)],
             pass' = [pass EXCEPT !.drivers = @ \ {p}, !.marked = @ \cup {Older(p, q)}]
      PROVE  GraphInv'
  <2> DEFINE o == Older(p, q)
             n == Newer(p, q)
  <2>1. /\ q \in Paths \ {p} /\ Live(q) /\ Alike(p, q)
        /\ o \in Paths /\ n \in Paths \ {o} /\ {o, n} = {p, q}
    BY DEF Neighbours, Older, Newer
  <2>2. Alike(o, n) /\ view[n].mtime >= view[o].mtime
    <3>1. Alike(q, p)
      BY <2>1, ConstantsAssumption DEF Alike
    <3>2. view[p].mtime \in Nat /\ view[q].mtime \in Nat
      BY <1>1, <2>1
    <3> QED BY <2>1, <3>1, <3>2 DEF Older, Newer
  <2>3. o \notin pass.marked
    <3>1. q \notin pass.marked
      BY <2>1, ConstantsAssumption DEF GraphInv, MarksInv, Live
    <3> QED BY <1>3, <2>1, <3>1
  <2> HIDE DEF o, n
  <2>4. /\ graph' \in Graph /\ graph'.cites = graph.cites /\ graph'.lost = graph.lost
        /\ graph'.dup[o] = n /\ \A x \in Paths \ {o} : graph'.dup[x] = graph.dup[x]
    BY <1>1, <1>3, <2>1 DEF Graph, o, n
  <2>5. /\ pass'.pc = "pair" /\ pass'.touched = pass.touched /\ pass'.kind = pass.kind
        /\ pass'.marked = pass.marked \cup {o} /\ pass'.removed = pass.removed
        /\ pass'.drivers = pass.drivers \ {p}
    <3>1. pass.marked \cup {o} \in SUBSET Paths
      BY <1>1, <2>1 DEF Passes
    <3> QED BY <1>1, <1>3, <3>1 DEF Passes, o
  <2>6. LinksTypeOK'
    BY <1>1, <2>4 DEF GraphInv, LinksTypeOK
  <2>7. CitesInv' /\ ExtractedInv'
    BY <1>1, <2>4, <2>5, CitationsStay DEF Ending
  <2>8. ToRate' = ToRate /\ ToRate \subseteq Paths /\ pass.marked \subseteq Paths
    BY <1>1, <2>5 DEF ToRate, Known, Passes
  <2>9. \A x \in pass'.marked : graph'.dup[x] \in Paths /\ MarkedRightly(x)'
    <3> TAKE x \in pass'.marked
    <3>1. CASE x = o
      BY <1>1, <2>1, <2>2, <2>4, <3>1 DEF MarkedRightly, Alike
    <3>2. CASE x # o
      <4>1. x \in pass.marked /\ x \in Paths \ {o} /\ graph'.dup[x] = graph.dup[x]
        BY <2>4, <2>5, <2>8, <3>2
      <4>2. graph.dup[x] \in Paths /\ MarkedRightly(x)
        BY <4>1 DEF GraphInv, MarksInv
      <4> QED
        BY <1>1, <4>1, <4>2 DEF MarkedRightly, Alike
    <3> QED BY <3>1, <3>2
  <2>10. \A x \in ToRate \ pass'.marked : graph'.dup[x] = NoPath
    BY <1>1, <2>4, <2>5, <2>8 DEF GraphInv, MarksInv
  <2>11. ASSUME ~Crowded, NEW x \in ToRate \ pass'.drivers, Live(x)'
         PROVE  Unrivalled(x)'
    <3>1. x \in Paths \ {o} /\ graph'.dup[x] = graph.dup[x] /\ Live(x)
      <4>1. graph'.dup[x] = NoPath /\ x \in Paths
        BY <2>11, <2>8 DEF Live
      <4>2. x # o
        BY <2>1, <2>4, <4>1, ConstantsAssumption
      <4> QED BY <1>1, <2>4, <2>11, <4>1, <4>2 DEF Live
    <3>2. CASE x = p
      <4>1. o = q /\ n = p
        BY <2>1, <3>1, <3>2
      <4> QED
        BY <2>4, <2>5, <3>2, <4>1 DEF Unrivalled
    <3>3. CASE x # p
      <4>1. x \in ToRate \ pass.drivers
        BY <2>5, <2>11, <3>3
      <4>2. Unrivalled(x)
        BY <1>1, <2>11, <3>1, <4>1 DEF GraphInv, MarksInv
      <4>3. CASE Neighbours(x) = {}
        <5>1. \A y \in Paths : Live(y)' => Live(y)
          <6> TAKE y \in Paths
          <6> HAVE Live(y)'
          <6>1. graph'.dup[y] = NoPath
            BY DEF Live
          <6>2. y # o
            BY <2>1, <2>4, <6>1, ConstantsAssumption
          <6> QED BY <1>1, <2>4, <6>2 DEF Live
        <5>2. Neighbours(x)' = {}
          BY <1>1, <4>3, <5>1 DEF Neighbours, Alike
        <5> QED BY <5>2 DEF Unrivalled
      <4>4. CASE \E y \in pass.marked : graph.dup[y] = x
        <5>1. PICK y \in pass.marked : graph.dup[y] = x
          BY <4>4
        <5>2. y \in pass'.marked /\ graph'.dup[y] = x
          BY <2>3, <2>4, <2>5, <2>8, <5>1
        <5> QED BY <5>2 DEF Unrivalled
      <4> QED BY <4>2, <4>3, <4>4 DEF Unrivalled
    <3> QED BY <3>2, <3>3
  <2>12. MarksInv'
    BY <2>5, <2>8, <2>9, <2>10, <2>11 DEF MarksInv
  <2> QED BY <2>6, <2>7, <2>12 DEF GraphInv
<1> QED
  BY <1>2, <1>3 DEF Pair

LEMMA EndPassLinks ==
  ASSUME ReindexInv, GraphInv, EndPass
  PROVE  GraphInv'
<1>1. /\ graphDisk' = graph /\ pass' = Resting /\ pass.pc \in Ending
      /\ UNCHANGED <<view, graph, unseen, faults, disturbed>>
  BY DEF EndPass, Ending
<1>2. LinksTypeOK'
  BY <1>1 DEF GraphInv, LinksTypeOK
<1>3. CitesInv'
  BY <1>1, InTimeStays DEF GraphInv, CitesInv
<1>4. ExtractedInv' /\ MarksInv'
  BY <1>1 DEF ExtractedInv, MarksInv, Ending, Resting
<1> QED BY <1>2, <1>3, <1>4 DEF GraphInv

LEMMA AbortLinks ==
  ASSUME ReindexInv, GraphInv, Abort
  PROVE  GraphInv'
<1>1. /\ faults' = faults + 1 /\ pass' = Resting /\ unseen' = unseen /\ faults \in Nat
      /\ graphDisk' \in {graphDisk, graph} /\ graph' = graphDisk'
  BY ConstantsAssumption DEF Abort, Left, ReindexInv, RowsTypeOK
<1>2. LinksTypeOK'
  BY <1>1 DEF GraphInv, LinksTypeOK
<1>3. CitesInv'
  BY <1>1 DEF CitesInv
<1>4. ExtractedInv' /\ MarksInv'
  BY <1>1 DEF ExtractedInv, MarksInv, Ending, Resting
<1> QED BY <1>2, <1>3, <1>4 DEF GraphInv

LEMMA EditFileLinks ==
  ASSUME ReindexInv, GraphInv, EditFile
  PROVE  GraphInv'
<1>1. /\ UNCHANGED <<view, graph, graphDisk, unseen, pass, faults>>
      /\ edited \subseteq edited' /\ disturbed \subseteq disturbed'
  BY DEF EditFile, links
<1>2. LinksTypeOK'
  BY <1>1 DEF GraphInv, LinksTypeOK
<1>3. CitesInv'
  BY <1>1, InTimeStays DEF GraphInv, CitesInv
<1>4. ExtractedInv'
  BY <1>1 DEF GraphInv, ExtractedInv, Known
<1>5. MarksInv'
  BY <1>1 DEF GraphInv, MarksInv, ToRate, Known, Live, MarkedRightly, Unrivalled, Neighbours, Alike
<1> QED BY <1>2, <1>3, <1>4, <1>5 DEF GraphInv

\* A step of the scan that writes no doc.
LEMMA ScanLinks ==
  ASSUME ReindexInv, GraphInv, UNCHANGED <<links, view, faults, disturbed>>,
         pass.pc \in {"idle", "scan", "read", "embed"}, pass'.pc \in {"scan", "read", "embed"},
         pass'.touched = pass.touched, pass'.marked = pass.marked
  PROVE  GraphInv'
BY LinksStay DEF links, Ending

LEMMA MoveLinks ==
  ASSUME ReindexInv, GraphInv, NEW p \in Paths, Miss(p) \/ Stat(p) \/ ReadFirst(p)
  PROVE  GraphInv'
<1>1. pass \in Passes /\ pass.pc = "scan" /\ UNCHANGED <<links, view, faults, disturbed>>
  BY DEF Miss, Stat, ReadFirst, Scanning, ReindexInv, RowsTypeOK, Passes
<1>2. pass'.pc \in {"scan", "read"} /\ pass'.touched = pass.touched /\ pass'.marked = pass.marked
  <2>1. CASE Miss(p)
    BY <1>1, <2>1 DEF Miss, Passes
  <2>2. CASE Stat(p)
    BY <1>1, <2>2 DEF Stat, Passes
  <2>3. CASE ReadFirst(p)
    BY <1>1, <2>3 DEF ReadFirst, Passes
  <2> QED BY <2>1, <2>2, <2>3
<1> QED BY <1>1, <1>2, ScanLinks

LEMMA BeginLinks ==
  ASSUME ReindexInv, GraphInv, Begin \/ BeginPaths
  PROVE  GraphInv'
<1>1. pass = Resting /\ UNCHANGED <<links, view, faults, disturbed>>
  BY DEF Begin, BeginPaths, ReindexInv, StageInv
<1>2. pass'.pc = "scan" /\ pass'.touched = {} /\ pass'.marked = {}
  <2>1. CASE Begin
    BY <2>1 DEF Begin, Resting
  <2>2. CASE BeginPaths
    BY <2>2 DEF BeginPaths, Resting
  <2> QED BY <2>1, <2>2
<1> QED BY <1>1, <1>2, ScanLinks DEF Resting

\* A file is read: its doc is written, or refreshed, or is left.
LEMMA RefreshLinks ==
  ASSUME ReindexInv, GraphInv, pass.pc = "read", NEW p \in Paths, NEW m, Refresh(p, m),
         UNCHANGED <<graphDisk, unseen, faults, disturbed>>
  PROVE  GraphInv'
<1>1. pass \in Passes /\ view \in [Paths -> Doc]
  BY DEF ReindexInv, RowsTypeOK, Passes
<1>2. pass'.pc = "scan" /\ pass'.touched = pass.touched /\ pass'.marked = pass.marked
      /\ graph' = graph
  BY <1>1 DEF Refresh, Passes
<1>3. \A q \in Paths : view'[q].hash = view[q].hash
  <2> DEFINE row == [view[p] EXCEPT !.mtime = m]
  <2>1. row.hash = view[p].hash
    BY <1>1 DEF Doc
  <2>2. view' = view \/ view' = [view EXCEPT ![p] = row]
    BY <1>1 DEF Refresh
  <2> HIDE DEF row
  <2> QED BY <1>1, <2>1, <2>2
<1> QED BY <1>2, <1>3, LinksStay DEF Ending

LEMMA ReadLinks ==
  ASSUME ReindexInv, GraphInv, Read \/ StatAfter
  PROVE  GraphInv'
<1>1. /\ pass \in Passes /\ pass.pc = "read" /\ pass.cur \in Paths
      /\ UNCHANGED <<graphDisk, unseen, faults, disturbed>>
      /\ \A p \in Paths : files[p] \in File
      /\ pass.mtime \in 0..MaxFileEdits
      /\ pass.kind = "paths" => pass.content \in Texts
  BY DEF Read, StatAfter, ReindexInv, RowsTypeOK, Passes, StageInv
<1>2. \/ /\ pass' \in {[pass EXCEPT !.pc = "scan", !.cur = NoPath, !.mtime = 0],
                       [pass EXCEPT !.pc = "scan", !.cur = NoPath, !.content = NoFile]}
         /\ UNCHANGED <<view, graph>>
      \/ \E m \in 0..MaxFileEdits : Refresh(pass.cur, m)
      \/ \E c \in Texts, m \in 0..MaxFileEdits : Upsert(pass.cur, c, m)
  <2>1. files[pass.cur].content \in Texts \cup {NoFile}
        /\ files[pass.cur].mtime \in 0..MaxFileEdits
        /\ (Exists(pass.cur) => files[pass.cur].content \in Texts)
    BY <1>1 DEF File, Exists
  <2>2. CASE Read
    BY <1>1, <2>1, <2>2, Zenon DEF Read
  <2>3. CASE StatAfter
    BY <1>1, <2>1, <2>3, Zenon DEF StatAfter
  <2> QED BY <2>2, <2>3
<1>3. CASE /\ pass' \in {[pass EXCEPT !.pc = "scan", !.cur = NoPath, !.mtime = 0],
                         [pass EXCEPT !.pc = "scan", !.cur = NoPath, !.content = NoFile]}
           /\ UNCHANGED <<view, graph>>
  <2>1. pass'.pc = "scan" /\ pass'.touched = pass.touched /\ pass'.marked = pass.marked
    BY <1>1, <1>3 DEF Passes
  <2> QED BY <1>1, <1>3, <2>1, ScanLinks DEF links
<1>4. CASE \E m \in 0..MaxFileEdits : Refresh(pass.cur, m)
  BY <1>1, <1>4, RefreshLinks
<1>5. CASE \E c \in Texts, m \in 0..MaxFileEdits : Upsert(pass.cur, c, m)
  BY <1>1, <1>5, UpsertLinks
<1> QED BY <1>2, <1>3, <1>4, <1>5

LEMMA FlushLinks ==
  ASSUME ReindexInv, GraphInv, FlushBegin \/ Flush \/ CommitProgress
  PROVE  GraphInv'
<1>1. pass \in Passes /\ view \in [Paths -> Doc] /\ pass.pc \in {"scan", "embed"}
      /\ UNCHANGED <<graph, unseen, faults, disturbed>> /\ graphDisk' \in {graphDisk, graph}
  BY DEF FlushBegin, Flush, CommitProgress, Scanning, ReindexInv, RowsTypeOK, Passes, links
<1>2. pass'.pc \in {"scan", "embed"} /\ pass'.touched = pass.touched /\ pass'.marked = pass.marked
  <2>1. CASE FlushBegin
    BY <1>1, <2>1 DEF FlushBegin, Passes
  <2>2. CASE Flush
    BY <1>1, <2>2 DEF Flush, Passes
  <2>3. CASE CommitProgress
    BY <1>1, <2>3 DEF CommitProgress, Scanning
  <2> QED BY <2>1, <2>2, <2>3
<1>3. \A q \in Paths : view'[q].hash = view[q].hash
  <2>1. CASE Flush
    BY <1>1, <2>1, DocVecsAre, ChunkVecsAre DEF Flush
  <2>2. CASE FlushBegin \/ CommitProgress
    BY <2>2 DEF FlushBegin, CommitProgress
  <2> QED BY <2>1, <2>2
<1> QED BY <1>1, <1>2, <1>3, LinksStay DEF Ending

LEMMA RemoveLinks ==
  ASSUME ReindexInv, GraphInv, RemoveVanished \/ \E p \in Paths : Prune(p)
  PROVE  GraphInv'
<1>1. pass \in Passes
  BY DEF ReindexInv, RowsTypeOK, Passes
<1>2. CASE RemoveVanished
  <2>1. PICK p \in Vanished : view' = [view EXCEPT ![p] = NoRow] /\ graph' = Unlink(p)
    BY <1>2 DEF RemoveVanished
  <2>2. p \in Paths /\ p \notin pass.touched /\ pass.pc = "scan"
        /\ UNCHANGED <<graphDisk, unseen, faults, disturbed>>
    BY <1>2 DEF RemoveVanished, Scanning, Vanished, ReindexInv, StageInv
  <2>3. pass'.pc = "scan" /\ pass'.touched = pass.touched /\ pass'.marked = pass.marked
    BY <1>1, <1>2 DEF RemoveVanished, Scanning, Passes
  <2> QED BY <2>1, <2>2, <2>3, UnlinkLinks
<1>3. CASE \E p \in Paths : Prune(p)
  <2>1. PICK p \in Paths : Prune(p)
    BY <1>3
  <2>2. /\ p \notin pass.touched /\ pass.pc = "scan" /\ graph' = Unlink(p)
        /\ view' = [view EXCEPT ![p] = NoRow]
        /\ UNCHANGED <<graphDisk, unseen, faults, disturbed>>
    BY <2>1 DEF Prune, Scanning, ReindexInv, StageInv
  <2>3. pass'.pc = "scan" /\ pass'.touched = pass.touched /\ pass'.marked = pass.marked
    BY <1>1, <2>1 DEF Prune, Scanning, Passes
  <2> QED BY <2>2, <2>3, UnlinkLinks
<1> QED BY <1>2, <1>3

LEMMA GraphInvNext == ReindexInv /\ GraphInv /\ [Next]_vars => GraphInv'
<1> SUFFICES ASSUME ReindexInv, GraphInv, [Next]_vars PROVE GraphInv'
  OBVIOUS
<1>1. CASE EditFile
  BY <1>1, EditFileLinks
<1>2. CASE Begin \/ BeginPaths
  BY <1>2, BeginLinks
<1>3. CASE PassStep
  <2>1. CASE \E p \in Paths : Miss(p) \/ Stat(p) \/ Prune(p) \/ ReadFirst(p) \/ Pair(p)
    BY <2>1, MoveLinks, RemoveLinks, PairLinks
  <2>2. CASE Read \/ StatAfter
    BY <2>2, ReadLinks
  <2>3. CASE RemoveVanished
    BY <2>3, RemoveLinks
  <2>4. CASE FlushBegin \/ Flush
    BY <2>4, FlushLinks
  <2>5. CASE SyncCodeGraph
    BY <2>5, SyncCodeGraphLinks
  <2>6. CASE ResetStatus
    BY <2>6, ResetStatusLinks
  <2>7. CASE Rate
    BY <2>7, RateLinks
  <2>8. CASE EndPass
    BY <2>8, EndPassLinks
  <2> QED
    BY <1>3, <2>1, <2>2, <2>3, <2>4, <2>5, <2>6, <2>7, <2>8 DEF PassStep
<1>4. CASE CommitProgress
  BY <1>4, FlushLinks
<1>5. CASE EmbedFails \/ Crash
  BY <1>5, AbortLinks DEF EmbedFails, Crash
<1>6. CASE UNCHANGED vars
  <2>1. /\ UNCHANGED <<view, graph, graphDisk, unseen, pass, faults, edited, disturbed>>
    BY <1>6 DEF vars, links
  <2>2. LinksTypeOK' /\ CitesInv' /\ ExtractedInv'
    BY <2>1, InTimeStays DEF GraphInv, LinksTypeOK, CitesInv, ExtractedInv, Known
  <2>3. MarksInv'
    BY <2>1 DEF GraphInv, MarksInv, ToRate, Known, Live, MarkedRightly, Unrivalled, Neighbours,
                Alike
  <2> QED BY <2>2, <2>3 DEF GraphInv
<1> QED
  BY <1>1, <1>2, <1>3, <1>4, <1>5, <1>6 DEF Next

LEMMA GraphInvariant == Spec => [](ReindexInv /\ GraphInv)
<1>1. Init => ReindexInv /\ GraphInv
  BY ReindexInit, GraphInvInit
<1>2. ReindexInv /\ GraphInv /\ [Next]_vars => (ReindexInv /\ GraphInv)'
  BY ReindexNext, GraphInvNext
<1> QED BY <1>1, <1>2, PTL DEF Spec


\* Only docs have citations, seen by the pass or on disk.
Owned(g, rows) == \A e \in g.cites \cup g.lost : Known(rows, e[1])

OwnedInv ==
  /\ Owned(graph, view)
  /\ Owned(graphDisk, committed)
  /\ pass.pc = "pair" => committed = view

LEMMA OwnedStays ==
  ASSUME GraphInv, OwnedInv, graph'.cites \cup graph'.lost \subseteq graph.cites \cup graph.lost,
         \A p \in Paths : Known(view, p) => Known(view', p),
         \/ committed' = committed /\ graphDisk' = graphDisk
         \/ committed' = view' /\ graphDisk' = graph',
         pass'.pc = "pair" => committed' = view'
  PROVE  OwnedInv'
<1>1. graph \in Graph
  BY DEF GraphInv, LinksTypeOK
<1>2. \A e \in graph.cites \cup graph.lost : e[1] \in Paths
  BY <1>1 DEF Graph
<1>3. Owned(graph', view')
  BY <1>2 DEF OwnedInv, Owned
<1>4. Owned(graphDisk', committed')
  BY <1>3 DEF OwnedInv
<1> QED BY <1>3, <1>4 DEF OwnedInv, Owned, Known

LEMMA ReadOwned ==
  ASSUME ReindexInv, GraphInv, OwnedInv, Read \/ StatAfter
  PROVE  OwnedInv'
<1>1. /\ pass \in Passes /\ pass.pc = "read" /\ view \in [Paths -> Doc] /\ graph \in Graph
      /\ UNCHANGED <<committed, graphDisk>>
  BY DEF Read, StatAfter, ReindexInv, RowsTypeOK, Passes, GraphInv, LinksTypeOK, links
<1>2. \/ /\ pass' \in {[pass EXCEPT !.pc = "scan", !.cur = NoPath, !.mtime = 0],
                       [pass EXCEPT !.pc = "scan", !.cur = NoPath, !.content = NoFile]}
         /\ UNCHANGED <<view, graph>>
      \/ \E m : Refresh(pass.cur, m)
      \/ \E c \in Texts : \E m : Upsert(pass.cur, c, m)
  <2>1. /\ Exists(pass.cur) => files[pass.cur].content \in Texts
        /\ pass.kind = "paths" => pass.content \in Texts
    BY <1>1 DEF ReindexInv, RowsTypeOK, StageInv, File, Exists
  <2>2. CASE Read
    BY <1>1, <2>1, <2>2, Zenon DEF Read
  <2>3. CASE StatAfter
    <3>1. pass.kind = "paths"
      BY <2>3 DEF StatAfter
    <3> QED BY <1>1, <2>1, <2>3, <3>1, Zenon DEF StatAfter
  <2> QED BY <2>2, <2>3
<1>3. CASE /\ pass' \in {[pass EXCEPT !.pc = "scan", !.cur = NoPath, !.mtime = 0],
                         [pass EXCEPT !.pc = "scan", !.cur = NoPath, !.content = NoFile]}
           /\ UNCHANGED <<view, graph>>
  <2>1. pass'.pc = "scan"
    BY <1>1, <1>3 DEF Passes
  <2> QED BY <1>1, <1>3, <2>1, OwnedStays
<1>4. ASSUME NEW m, Refresh(pass.cur, m)
      PROVE  OwnedInv'
  <2>1. pass'.pc = "scan" /\ graph' = graph
    BY <1>1, <1>4 DEF Refresh, Passes
  <2>2. \A q \in Paths : view'[q].hash = view[q].hash
    <3> DEFINE row == [view[pass.cur] EXCEPT !.mtime = m]
    <3>1. pass.cur \in Paths => row.hash = view[pass.cur].hash
      BY <1>1 DEF Doc
    <3>2. view' = view \/ view' = [view EXCEPT ![pass.cur] = row]
      BY <1>1, <1>4 DEF Refresh
    <3> HIDE DEF row
    <3> QED BY <1>1, <3>1, <3>2
  <2> QED BY <1>1, <2>1, <2>2, OwnedStays DEF Known
<1>5. ASSUME NEW c \in Texts, NEW m, Upsert(pass.cur, c, m)
      PROVE  OwnedInv'
  <2>1. pass'.pc = "scan" /\ graph' = Relink(pass.cur)
    BY <1>1, <1>5 DEF Upsert, Passes
  <2>2. graph'.cites \cup graph'.lost \subseteq graph.cites \cup graph.lost
    BY <1>1, <2>1 DEF Relink, Graph
  <2>3. \A q \in Paths : Known(view, q) => Known(view', q)
    <3> DEFINE row == RowOf(pass.cur, c, m)
    <3>1. pass.cur \in Paths => row.hash = c
      BY <1>1 DEF RowOf, Doc
    <3>2. view' = [view EXCEPT ![pass.cur] = row]
      BY <1>5 DEF Upsert
    <3> HIDE DEF row
    <3> QED BY <1>1, <3>1, <3>2, ConstantsAssumption DEF Known
  <2> QED BY <1>1, <2>1, <2>2, <2>3, OwnedStays
<1> QED BY <1>2, <1>3, <1>4, <1>5

LEMMA RemoveOwned ==
  ASSUME ReindexInv, GraphInv, OwnedInv, RemoveVanished \/ \E p \in Paths : Prune(p)
  PROVE  OwnedInv'
<1>1. PICK p \in Paths : view' = [view EXCEPT ![p] = NoRow] /\ graph' = Unlink(p)
  BY DEF RemoveVanished, Vanished, Prune
<1>2. /\ pass \in Passes /\ view \in [Paths -> Doc] /\ graph \in Graph /\ pass.pc = "scan"
      /\ UNCHANGED <<committed, graphDisk>>
  BY DEF ReindexInv, RowsTypeOK, Passes, GraphInv, LinksTypeOK, RemoveVanished, Prune, Scanning
<1>3. pass'.pc # "pair"
  BY <1>2 DEF RemoveVanished, Prune, Passes
<1>4. \A e \in graph'.cites \cup graph'.lost :
        e \in graph.cites \cup graph.lost /\ e[1] \in Paths \ {p}
  BY <1>1, <1>2 DEF Unlink, Graph
<1>5. \A q \in Paths \ {p} : view'[q] = view[q]
  BY <1>1, <1>2
<1> QED
  BY <1>2, <1>3, <1>4, <1>5 DEF OwnedInv, Owned, Known

LEMMA LateOwned ==
  ASSUME ReindexInv, GraphInv, OwnedInv,
         SyncCodeGraph \/ ResetStatus \/ Rate \/ EndPass \/ \E p \in Paths : Pair(p)
  PROVE  OwnedInv'
<1>1. /\ pass \in Passes /\ view \in [Paths -> Doc] /\ graph \in Graph
      /\ \A p \in pass.touched : Known(view, p)
  BY DEF ReindexInv, RowsTypeOK, Passes, GraphInv, LinksTypeOK, BatchInv
<1>2. CASE SyncCodeGraph
  <2>1. /\ pass'.pc # "pair" /\ UNCHANGED <<view, committed, graphDisk>>
    BY <1>1, <1>2 DEF SyncCodeGraph, Passes
  <2>2. \A e \in graph'.cites \cup graph'.lost :
          e \in graph.cites \cup graph.lost \/ e[1] \in pass.touched
    BY <1>1, <1>2 DEF SyncCodeGraph, Extracted, Graph
  <2> QED BY <1>1, <2>1, <2>2 DEF OwnedInv, Owned, Known
<1>3. CASE ResetStatus \/ Rate
  <2>1. /\ committed' = view' /\ graphDisk' = graph'
        /\ graph'.cites = graph.cites /\ graph'.lost = graph.lost
    BY <1>1, <1>3 DEF ResetStatus, Rate, Graph
  <2>2. \A p \in Paths : view'[p].hash = view[p].hash
    <3> DEFINE row(p, c) == [view[p] EXCEPT !.rated = c]
    <3>1. \A p \in Paths : \A c : row(p, c).hash = view[p].hash
      BY <1>1 DEF Doc
    <3>2. \/ view' = [p \in Paths |-> IF p \in ToRate THEN row(p, NoFile) ELSE view[p]]
          \/ view' = [p \in Paths |-> IF p \in ToRate THEN row(p, files[p].content) ELSE view[p]]
      BY <1>3 DEF ResetStatus, Rate
    <3> HIDE DEF row
    <3> QED BY <3>1, <3>2
  <2> QED BY <2>1, <2>2, OwnedStays DEF Known
<1>4. CASE EndPass
  <2>1. /\ committed' = view' /\ graphDisk' = graph' /\ view' = view /\ graph' = graph
    BY <1>4 DEF EndPass
  <2> QED BY <2>1, OwnedStays
<1>5. ASSUME NEW p \in Paths, Pair(p)
      PROVE  OwnedInv'
  <2>1. /\ graph'.cites = graph.cites /\ graph'.lost = graph.lost /\ graphDisk' \in {graphDisk, graph'}
        /\ UNCHANGED <<view, committed>> /\ committed = view
    BY <1>1, <1>5 DEF Pair, Graph, OwnedInv
  <2> QED BY <2>1 DEF OwnedInv, Owned, Known
<1> QED BY <1>2, <1>3, <1>4, <1>5

LEMMA OwnedNext == ReindexInv /\ GraphInv /\ OwnedInv /\ [Next]_vars => OwnedInv'
<1> SUFFICES ASSUME ReindexInv, GraphInv, OwnedInv, [Next]_vars PROVE OwnedInv'
  OBVIOUS
<1>1. pass \in Passes /\ view \in [Paths -> Doc]
  BY DEF ReindexInv, RowsTypeOK, Passes
<1>2. CASE EditFile \/ UNCHANGED vars
  <2>1. UNCHANGED <<committed, view, graph, graphDisk, pass>>
    BY <1>2 DEF EditFile, vars, links
  <2> QED BY <2>1, OwnedStays DEF OwnedInv
<1>3. CASE Begin \/ BeginPaths
  <2>1. UNCHANGED <<committed, view, graph, graphDisk>> /\ pass'.pc = "scan"
    BY <1>3 DEF Begin, BeginPaths, links, Resting
  <2> QED BY <2>1, OwnedStays
<1>4. CASE \E p \in Paths : Miss(p) \/ Stat(p) \/ ReadFirst(p)
  <2>1. PICK p \in Paths : Miss(p) \/ Stat(p) \/ ReadFirst(p)
    BY <1>4
  <2>2. UNCHANGED <<committed, view, graph, graphDisk>>
    BY <2>1 DEF Miss, Stat, ReadFirst, links
  <2>3. pass'.pc # "pair"
    BY <1>1, <2>1 DEF Miss, Stat, ReadFirst, Scanning, Passes
  <2> QED BY <2>2, <2>3, OwnedStays
<1>5. CASE Read \/ StatAfter
  BY <1>5, ReadOwned
<1>6. CASE RemoveVanished \/ \E p \in Paths : Prune(p)
  BY <1>6, RemoveOwned
<1>7. CASE FlushBegin \/ CommitProgress
  <2>1. /\ UNCHANGED <<view, graph>> /\ pass'.pc # "pair"
        /\ \/ committed' = view' /\ graphDisk' = graph'
           \/ UNCHANGED <<committed, graphDisk>>
    BY <1>1, <1>7 DEF FlushBegin, CommitProgress, Scanning, Passes
  <2> QED BY <2>1, OwnedStays
<1>8. CASE Flush
  <2>1. UNCHANGED <<committed, graph, graphDisk>> /\ pass'.pc # "pair"
    BY <1>1, <1>8 DEF Flush, links, Passes
  <2>2. \A q \in Paths : view'[q].hash = view[q].hash
    BY <1>1, <1>8, DocVecsAre, ChunkVecsAre DEF Flush
  <2> QED BY <2>1, <2>2, OwnedStays DEF Known
<1>9. CASE SyncCodeGraph \/ ResetStatus \/ Rate \/ EndPass \/ \E p \in Paths : Pair(p)
  BY <1>9, LateOwned
<1>10. CASE EmbedFails \/ Crash
  <2>1. /\ view' = committed' /\ graph' = graphDisk' /\ pass' = Resting
        /\ \/ committed' = committed /\ graphDisk' = graphDisk
           \/ committed' = DocVecs(view) /\ graphDisk' = graph
    BY <1>10 DEF EmbedFails, Crash, Abort, Left
  <2>2. CASE committed' = committed /\ graphDisk' = graphDisk
    BY <2>1, <2>2 DEF OwnedInv, Owned, Known, Resting
  <2>3. CASE committed' = DocVecs(view) /\ graphDisk' = graph
    <3>1. \A q \in Paths : view'[q].hash = view[q].hash
      BY <1>1, <2>1, <2>3, DocVecsAre
    <3> QED BY <2>1, <2>3, <3>1, OwnedStays DEF Known, Resting
  <2> QED BY <2>1, <2>2, <2>3
<1> QED
  BY <1>2, <1>3, <1>4, <1>5, <1>6, <1>7, <1>8, <1>9, <1>10 DEF Next, PassStep

LEMMA OwnedInvariant == Spec => [](ReindexInv /\ GraphInv /\ OwnedInv)
<1>1. Init => OwnedInv
  <2> SUFFICES ASSUME Init PROVE OwnedInv
    OBVIOUS
  <2>1. /\ graph = [cites |-> {}, lost |-> {}, dup |-> [p \in Paths |-> NoPath]]
        /\ graphDisk = graph /\ pass.pc = "idle"
    BY DEF Init, Resting
  <2> QED BY <2>1 DEF OwnedInv, Owned
<1> QED BY <1>1, GraphInvariant, OwnedNext, PTL DEF Spec

\* A completed pass leaves on disk what it saw.
LEMMA EndPassWrites ==
  ASSUME ReindexInv, EndPass
  PROVE  /\ committed' = view /\ view' = view /\ graphDisk' = graph /\ graph' = graph
         /\ UNCHANGED <<files, unseen, disturbed>>
         /\ pass.pc \in {"graph", "pair"} /\ pass.batch = {}
         /\ pass.pc = "graph" => pass.touched = {} /\ ~pass.removed
         /\ pass.pc = "pair" => pass.drivers = {}
BY DEF EndPass, ReindexInv, StageInv

(***************************************************************************)
(* Reindex.  Whatever was edited, failed or crashed, and however often: a  *)
(* completed pass over the source leaves rows for exactly the files nobody *)
(* edited meanwhile, and until a file is edited in the middle of a         *)
(* watcher's pass each says what its file says, although the pass trusted  *)
(* an unchanged mtime (indexer.py:340-346).  Until a pass fails, each has  *)
(* the vectors of its text, the status its own text gives it and, but for  *)
(* targets that became docs later, its citations, although only what the   *)
(* pass touched was embedded, cited and rated; and no doc a pass did not   *)
(* rewrite loses that status to it (status.py:51-56).  A pass leaves the   *)
(* docs it rated with duplicate marks that are right, and misses none but  *)
(* where 20 nearer rows crowd the search (status.py:276-337).              *)
(***************************************************************************)
THEOREM PassesKeepTheIndex == Spec => PassKeepsTheIndex
<1>1. ReindexInv /\ GraphInv => TypeOK
  BY DEF ReindexInv, GraphInv, TypeOK
<1>2. ReindexInv /\ [Next]_vars =>
        (Completes => \A p \in Settled :
           /\ Known(committed', p) <=> Exists(p)
           /\ "paths" \notin disturbed' => SaysFile(p)')
  <2> SUFFICES ASSUME ReindexInv, [Next]_vars, Completes, NEW p \in Settled
               PROVE  /\ Known(committed', p) <=> Exists(p)
                      /\ "paths" \notin disturbed' => SaysFile(p)'
    OBVIOUS
  <2>1. EndPass /\ pass.kind = "source" /\ p \in Paths \ edited
    BY OnlyEndPassCompletes DEF Completes, Settled
  <2>2. /\ committed' = view /\ files' = files /\ disturbed' = disturbed
        /\ pass.pc \in {"graph", "pair"}
    BY <2>1, EndPassWrites
  <2>3. /\ Known(view, p) <=> Exists(p)
        /\ "paths" \notin disturbed => view[p].hash = files[p].content
    BY <2>1, <2>2, ScanIndexes
  <2> QED
    BY <2>2, <2>3 DEF Known, SaysFile
<1>3. ReindexInv /\ GraphInv /\ [Next]_vars =>
        (Completes /\ faults = 0 => \A p \in Settled :
           /\ Embedded(p)'
           /\ disturbed' \subseteq {"rating"} => CitedInTime(p)'
           /\ disturbed' = {} => Rated(p)')
  <2> SUFFICES ASSUME ReindexInv, GraphInv, [Next]_vars, Completes, faults = 0, NEW p \in Settled
               PROVE  /\ Embedded(p)'
                      /\ disturbed' \subseteq {"rating"} => CitedInTime(p)'
                      /\ disturbed' = {} => Rated(p)'
    OBVIOUS
  <2>1. EndPass /\ p \in Paths
    BY OnlyEndPassCompletes DEF Completes, Settled
  <2>2. /\ committed' = view /\ graphDisk' = graph /\ disturbed' = disturbed /\ unseen' = unseen
        /\ pass.pc \in {"graph", "pair"}
    BY <2>1, EndPassWrites
  <2>3. disturbed \subseteq {"rating"} => InTime(p)
    BY <2>1, <2>2 DEF GraphInv, CitesInv, Ending
  <2>4. disturbed' \subseteq {"rating"} => CitedInTime(p)'
    BY <2>2, <2>3 DEF InTime, CitedInTime, Citations, CitedDocs, PassedOver, Known
  <2> QED
    BY <2>1, <2>2, <2>4, EndPassDerives DEF Embedded, DocEmbedded, ChunksEmbedded, Rated
<1>4. ReindexInv /\ GraphInv /\ [Next]_vars =>
        (pass.pc = "pair" /\ pass'.pc = "idle" /\ faults' = faults =>
           /\ \A p \in ToRate \cup pass.marked : MarkedRightly(p)'
           /\ ~Crowded => \A p \in ToRate : Live(p) => Unrivalled(p))
  <2> SUFFICES ASSUME ReindexInv, GraphInv, [Next]_vars, pass.pc = "pair", pass'.pc = "idle",
                      faults' = faults
               PROVE  /\ \A p \in ToRate \cup pass.marked : MarkedRightly(p)'
                      /\ ~Crowded => \A p \in ToRate : Live(p) => Unrivalled(p)
    OBVIOUS
  <2>1. EndPass
    BY OnlyEndPassCompletes
  <2>2. view' = view /\ graph' = graph /\ pass.drivers = {}
    BY <2>1, EndPassWrites
  <2>3. \A p \in ToRate \cup pass.marked : MarkedRightly(p)
    <3>1. \A p \in ToRate \ pass.marked : MarkedRightly(p)
      BY ConstantsAssumption DEF GraphInv, MarksInv, MarkedRightly
    <3> QED BY <3>1 DEF GraphInv, MarksInv
  <2>4. \A p : MarkedRightly(p)' <=> MarkedRightly(p)
    BY <2>2 DEF MarkedRightly, Alike
  <2> QED
    BY <2>2, <2>3, <2>4 DEF GraphInv, MarksInv
<1>5. ReindexInv /\ [Next]_vars =>
        (faults' = 0 /\ "paths" \notin disturbed' =>
           \A p \in Paths : LeavesAlone(p) => Rated(p)')
  <2> SUFFICES ASSUME ReindexInv, [Next]_vars, faults' = 0, "paths" \notin disturbed',
                      NEW p \in Paths, LeavesAlone(p)
               PROVE  Rated(p)'
    OBVIOUS
  <2>1. /\ EndPass /\ pass.kind = "source" /\ p \in Paths \ edited /\ p \notin pass.touched
        /\ Known(committed', p) /\ pass.existing[p].rated = pass.existing[p].hash
    <3>1. pass.pc # "idle"
      BY DEF LeavesAlone, ReindexInv, StageInv, Resting
    <3> QED BY <3>1, OnlyEndPassCompletes DEF LeavesAlone, Settled
  <2>2. /\ Known(view, p) /\ committed' = view /\ "paths" \notin disturbed
        /\ pass.pc \in {"graph", "pair"} /\ (pass.pc = "graph" => ~pass.removed)
    BY <2>1, EndPassWrites DEF Known
  <2>3. CASE pass.pc = "pair" /\ p \in ToRate
    BY <2>1, <2>2, <2>3, ScanIndexes DEF Rated, ReindexInv, DerivedInv
  <2>4. CASE ~(pass.pc = "pair" /\ p \in ToRate)
    <3>1. ~pass.removed
      BY <2>2, <2>4 DEF ToRate
    <3> QED
      BY <2>1, <2>2, <3>1 DEF ReindexInv, KeptInv, Rated
  <2> QED BY <2>3, <2>4
<1>6. Spec => CompletedPassIndexes
  BY <1>2, ReindexInvariant, PTL DEF Spec, CompletedPassIndexes
<1>7. Spec => CompletedPassDerives
  BY <1>3, GraphInvariant, PTL DEF Spec, CompletedPassDerives
<1>8. Spec => DuplicatesAreMarked
  BY <1>4, GraphInvariant, PTL DEF Spec, DuplicatesAreMarked
<1>9. Spec => StatusKeptUnfailed
  BY <1>5, ReindexInvariant, PTL DEF Spec, StatusKeptUnfailed
<1>10. Spec => []TypeOK
  BY <1>1, GraphInvariant, PTL
<1> QED
  BY <1>6, <1>7, <1>8, <1>9, <1>10 DEF PassKeepsTheIndex

(***************************************************************************)
(* Reindex.  A completed full pass over the source leaves each file nobody *)
(* edited meanwhile its row, text, doc vector, the status of its text and  *)
(* its citations, whatever earlier passes, failures, crashes and edits     *)
(* left behind (indexer.py:256-259).                                       *)
(***************************************************************************)
THEOREM FullPassesRepair == Spec => FullPassRepairs
<1>1. ReindexInv /\ GraphInv /\ OwnedInv /\ [Next]_vars =>
        (Completes /\ pass.full =>
           \A p \in Settled : (SaysFile(p) /\ DocEmbedded(p) /\ Rated(p) /\ Cited(p))')
  <2> SUFFICES ASSUME ReindexInv, GraphInv, OwnedInv, [Next]_vars, Completes, pass.full,
                      NEW p \in Settled
               PROVE  (SaysFile(p) /\ DocEmbedded(p) /\ Rated(p) /\ Cited(p))'
    OBVIOUS
  <2>1. EndPass /\ pass.kind = "source" /\ p \in Paths \ edited
    BY OnlyEndPassCompletes DEF Completes, Settled
  <2>2. /\ committed' = view /\ graphDisk' = graph /\ files' = files
        /\ pass.pc \in {"graph", "pair"} /\ pass.batch = {}
        /\ pass.pc = "graph" => pass.touched = {}
    BY <2>1, EndPassWrites
  <2>3. CASE Exists(p)
    <3>1. p \in pass.touched /\ Known(view, p)
      BY <2>1, <2>2, <2>3, ScanIndexes
    <3>2. view[p].hash = files[p].content
      BY <2>1, <3>1 DEF ReindexInv, TouchedInv, UpToDate
    <3>3. view[p].vec = view[p].hash
      BY <2>1, <2>2, <3>1 DEF ReindexInv, EmbeddedInv
    <3>4. view[p].rated = files[p].content
      BY <2>1, <2>2, <3>1 DEF ReindexInv, DerivedInv, ToRate
    <3>5. \A q \in Paths : <<p, q>> \in graph.cites <=> Known(view, q) /\ <<view[p].hash, q>> \in Cites
      BY <2>1, <2>2, <3>1 DEF GraphInv, ExtractedInv, Ending
    <3>6. Cited(p)'
      BY <2>2, <3>5 DEF Cited, Citations, CitedDocs, Known
    <3> QED
      BY <2>2, <3>2, <3>3, <3>4, <3>6 DEF SaysFile, DocEmbedded, Rated
  <2>4. CASE ~Exists(p)
    <3>1. ~Known(view, p)
      BY <2>1, <2>2, <2>4, ScanIndexes
    <3>2. view[p] = NoRow
      BY <2>1, <3>1 DEF ReindexInv, RowsInv, Sound, Blank
    <3>3. \A q \in Paths : <<p, q>> \notin graph.cites /\ <<view[p].hash, q>> \notin Cites
      <4>1. \A q \in Paths : <<p, q>> \notin graph.cites
        BY <3>1 DEF OwnedInv, Owned
      <4>2. view[p].hash \notin Texts
        BY <3>1, ConstantsAssumption DEF Known
      <4> QED BY <4>1, <4>2, ConstantsAssumption
    <3>4. Cited(p)'
      BY <2>2, <3>3 DEF Cited, Citations, CitedDocs, Known
    <3> QED
      BY <2>2, <2>4, <3>2, <3>4, NoRowIs DEF SaysFile, DocEmbedded, Rated, Exists
  <2> QED BY <2>3, <2>4
<1> QED
  BY <1>1, OwnedInvariant, PTL DEF Spec, FullPassRepairs

(***************************************************************************)
(* Retrieval: sets put in order, and lists of docs.                        *)
(***************************************************************************)
\* `before' is a strict total order of S.
Ranks(S, before) ==
  /\ IsFiniteSet(S)
  /\ \A d \in S : <<d, d>> \notin before
  /\ \A d, e \in S : d # e => <<d, e>> \in before \/ <<e, d>> \in before
  /\ \A d, e, x \in S : <<d, e>> \in before /\ <<e, x>> \in before => <<d, x>> \in before

Ahead(S, before, d) == {e \in S : <<e, d>> \in before}

\* s has elements of S, each at most once; or each of them once.
Once(s, S) == s \in Seq(S) /\ \A i, j \in 1..Len(s) : s[i] = s[j] => i = j
Lists(s, S) == Once(s, S) /\ Range(s) = S

\* It has them in that order.
Follows(s, before) == \A i, j \in 1..Len(s) : i < j => <<s[i], s[j]>> \in before

LEMMA AheadIs ==
  ASSUME NEW S, NEW before, Ranks(S, before), NEW d \in S
  PROVE  /\ IsFiniteSet(Ahead(S, before, d))
         /\ Cardinality(Ahead(S, before, d)) \in 0..Cardinality(S) - 1
<1>1. IsFiniteSet(S) /\ Ahead(S, before, d) \in SUBSET S /\ d \notin Ahead(S, before, d)
  BY DEF Ranks, Ahead
<1> DEFINE A == Ahead(S, before, d)
<1> HIDE DEF A
<1>2. IsFiniteSet(A) /\ Cardinality(A) <= Cardinality(S) /\ Cardinality(A) # Cardinality(S)
  <2>1. A \in SUBSET S /\ d \notin A
    BY <1>1 DEF A
  <2>2. IsFiniteSet(A) /\ Cardinality(A) <= Cardinality(S)
        /\ (Cardinality(S) = Cardinality(A) => S = A)
    BY <1>1, <2>1, FS_Subset
  <2> QED BY <2>1, <2>2
<1>3. Cardinality(A) \in Nat /\ Cardinality(S) \in Nat
  BY <1>1, <1>2, FS_CardinalityType
<1>4. Cardinality(A) \in 0..Cardinality(S) - 1
  BY <1>2, <1>3
<1> QED BY <1>2, <1>4 DEF A

\* The one before has fewer before it.
LEMMA AheadGrows ==
  ASSUME NEW S, NEW before, Ranks(S, before), NEW d \in S, NEW e \in S, <<d, e>> \in before
  PROVE  Cardinality(Ahead(S, before, d)) < Cardinality(Ahead(S, before, e))
<1> DEFINE A == Ahead(S, before, d)
           B == Ahead(S, before, e)
<1>1. A \in SUBSET B /\ d \in B /\ d \notin A
  BY DEF Ahead, Ranks
<1>2. IsFiniteSet(A) /\ IsFiniteSet(B)
  BY AheadIs
<1> HIDE DEF A, B
<1>3. Cardinality(A) <= Cardinality(B) /\ (Cardinality(B) = Cardinality(A) => B = A)
  BY <1>1, <1>2, FS_Subset
<1>4. Cardinality(A) \in Nat /\ Cardinality(B) \in Nat
  BY <1>2, FS_CardinalityType
<1>5. Cardinality(A) < Cardinality(B)
  BY <1>1, <1>3, <1>4
<1> QED BY <1>5 DEF A, B

\* Each place has its element: the numbers of those before are all different.
LEMMA PlaceFilled ==
  ASSUME NEW S, NEW before, Ranks(S, before), NEW i \in 1..Cardinality(S)
  PROVE  \E d \in S : Cardinality(Ahead(S, before, d)) = i - 1
<1> DEFINE n == Cardinality(S)
           T == 0..n - 1
           f == [d \in S |-> Cardinality(Ahead(S, before, d))]
<1>1. IsFiniteSet(S) /\ n \in Nat
  BY FS_CardinalityType DEF Ranks
<1>2. f \in [S -> T]
  BY AheadIs
<1>3. \A d, e \in S : f[d] = f[e] => d = e
  <2> SUFFICES ASSUME NEW d \in S, NEW e \in S, d # e PROVE f[d] # f[e]
    OBVIOUS
  <2>1. f[d] \in T /\ f[e] \in T
    BY <1>2
  <2>2. <<d, e>> \in before => f[d] < f[e]
    BY AheadGrows
  <2>3. <<e, d>> \in before => f[e] < f[d]
    BY AheadGrows
  <2>4. <<d, e>> \in before \/ <<e, d>> \in before
    BY DEF Ranks
  <2> QED BY <1>1, <2>1, <2>2, <2>3, <2>4
<1> HIDE DEF f, n
<1>4. IsFiniteSet(T) /\ Cardinality(T) = n
  <2>1. IsFiniteSet(T) /\ Cardinality(T) = IF 0 > n - 1 THEN 0 ELSE (n - 1) - 0 + 1
    BY <1>1, FS_Interval
  <2> QED BY <1>1, <2>1
<1> HIDE DEF T
<1>5. f \in Injection(S, T)
  BY <1>2, <1>3 DEF Injection, IsInjective
<1>6. Cardinality(S) = Cardinality(T)
  BY <1>4 DEF n
<1>7. f \in Surjection(S, T)
  BY <1>4, <1>5, <1>6, FS_Injection
<1>8. \A j \in T : \E d \in S : f[d] = j
  BY <1>7 DEF Surjection
<1>9. i - 1 \in T
  BY <1>1 DEF T, n
<1> QED BY <1>8, <1>9 DEF f

LEMMA ArrangedIs ==
  ASSUME NEW S, NEW before, Ranks(S, before)
  PROVE  /\ Lists(Arranged(S, before), S) /\ Follows(Arranged(S, before), before)
         /\ Len(Arranged(S, before)) = Cardinality(S)
         /\ \A i \in 1..Cardinality(S) :
              Cardinality(Ahead(S, before, Arranged(S, before)[i])) = i - 1
<1> DEFINE n == Cardinality(S)
           s == Arranged(S, before)
<1>1. IsFiniteSet(S) /\ n \in Nat
  BY FS_CardinalityType DEF Ranks
<1>2. s = [i \in 1..n |-> CHOOSE d \in S : Cardinality(Ahead(S, before, d)) = i - 1]
  BY DEF Arranged, Ahead
<1> HIDE DEF s, n
<1>3. \A i \in 1..n : s[i] \in S /\ Cardinality(Ahead(S, before, s[i])) = i - 1
  <2> SUFFICES ASSUME NEW i \in 1..n
               PROVE  s[i] \in S /\ Cardinality(Ahead(S, before, s[i])) = i - 1
    OBVIOUS
  <2>1. \E d \in S : Cardinality(Ahead(S, before, d)) = i - 1
    BY PlaceFilled DEF n
  <2>2. s[i] = CHOOSE d \in S : Cardinality(Ahead(S, before, d)) = i - 1
    BY <1>2
  <2> QED BY <2>1, <2>2
<1>4. s \in [1..n -> S]
  BY <1>2, <1>3
<1>5. s \in Seq(S) /\ Len(s) = n
  BY <1>1, <1>4, SeqDef
<1>6. \A i, j \in 1..n : s[i] = s[j] => i = j
  <2> SUFFICES ASSUME NEW i \in 1..n, NEW j \in 1..n, s[i] = s[j] PROVE i = j
    OBVIOUS
  <2>1. i - 1 = j - 1
    BY <1>3
  <2> QED BY <2>1, <1>1
<1>7. ASSUME NEW i \in 1..n, NEW j \in 1..n, i < j PROVE <<s[i], s[j]>> \in before
  <2>1. s[i] # s[j] /\ s[i] \in S /\ s[j] \in S
    BY <1>1, <1>3, <1>6, <1>7
  <2>2. ASSUME <<s[j], s[i]>> \in before PROVE FALSE
    <3>1. Cardinality(Ahead(S, before, s[j])) < Cardinality(Ahead(S, before, s[i]))
      BY <2>1, <2>2, AheadGrows
    <3>2. j - 1 < i - 1
      BY <3>1, <1>3
    <3> QED BY <3>2, <1>7, <1>1
  <2> QED BY <2>1, <2>2 DEF Ranks
<1>8. ASSUME NEW d \in S PROVE \E i \in 1..n : s[i] = d
  <2> DEFINE k == Cardinality(Ahead(S, before, d))
  <2>1. k \in 0..n - 1
    BY AheadIs DEF n
  <2> HIDE DEF k
  <2>2. k + 1 \in 1..n /\ (k + 1) - 1 = k
    BY <2>1, <1>1
  <2>3. s[k + 1] \in S /\ Cardinality(Ahead(S, before, s[k + 1])) = k
    BY <2>2, <1>3
  <2>4. s[k + 1] = d
    <3>1. <<d, s[k + 1]>> \in before => k < k
      BY <2>3, AheadGrows DEF k
    <3>2. <<s[k + 1], d>> \in before => k < k
      BY <2>3, AheadGrows DEF k
    <3>3. ~(k < k)
      BY <2>1
    <3> QED BY <3>1, <3>2, <3>3, <2>3 DEF Ranks
  <2> QED BY <2>2, <2>4
<1>9. Lists(s, S)
  <2>1. Once(s, S)
    BY <1>5, <1>6 DEF Once
  <2>2. Range(s) = S
    BY <1>3, <1>4, <1>8 DEF Range
  <2> QED BY <2>1, <2>2 DEF Lists
<1>10. Follows(s, before)
  BY <1>5, <1>7 DEF Follows
<1> QED BY <1>3, <1>5, <1>9, <1>10 DEF s, n

\* Whole numbers have an order.
LEMMA RisingRanks ==
  ASSUME NEW S \in SUBSET Int, IsFiniteSet(S)
  PROVE  Ranks(S, Rising(S))
BY DEF Ranks, Rising

-----------------------------------------------------------------------------
\* A prefix.
Fewer(n, m) == IF n < m THEN n ELSE m

LEMMA FirstOfIs ==
  ASSUME NEW S, NEW s \in Seq(S), NEW n \in Nat
  PROVE  /\ FirstOf(s, n) \in Seq(S)
         /\ Len(FirstOf(s, n)) = Fewer(n, Len(s))
         /\ Fewer(n, Len(s)) \in 0..Len(s)
         /\ \A i \in 1..Fewer(n, Len(s)) : FirstOf(s, n)[i] = s[i]
<1> DEFINE k == Fewer(n, Len(s))
<1>1. Len(s) \in Nat /\ \A i \in 1..Len(s) : s[i] \in S
  BY LenProperties, ElementOfSeq
<1>2. k \in 0..Len(s) /\ FirstOf(s, n) = SubSeq(s, 1, k)
  BY <1>1 DEF FirstOf, Fewer
<1> HIDE DEF k
<1>3. k \in Int /\ \A i \in 1..k : s[i] \in S
  BY <1>1, <1>2
<1>4. /\ SubSeq(s, 1, k) \in Seq(S)
      /\ Len(SubSeq(s, 1, k)) = IF 1 <= k THEN k - 1 + 1 ELSE 0
      /\ \A i \in 1..k - 1 + 1 : SubSeq(s, 1, k)[i] = s[1 + i - 1]
  BY <1>3, SubSeqProperties
<1>5. Len(SubSeq(s, 1, k)) = k /\ \A i \in 1..k : SubSeq(s, 1, k)[i] = s[i]
  <2>1. k - 1 + 1 = k /\ \A i \in 1..k : 1 + i - 1 = i
    BY <1>3
  <2>2. Len(SubSeq(s, 1, k)) = k
    BY <1>1, <1>2, <1>4
  <2>3. ASSUME NEW i \in 1..k PROVE SubSeq(s, 1, k)[i] = s[i]
    BY <1>4, <2>1
  <2> QED BY <2>2, <2>3
<1> QED BY <1>2, <1>4, <1>5 DEF k

LEMMA FirstOfOnce ==
  ASSUME NEW S, NEW s, Once(s, S), NEW n \in Nat
  PROVE  Once(FirstOf(s, n), S) /\ Range(FirstOf(s, n)) \subseteq Range(s)
<1> DEFINE k == Fewer(n, Len(s))
           h == FirstOf(s, n)
<1>1. s \in Seq(S) /\ \A i, j \in 1..Len(s) : s[i] = s[j] => i = j
  BY DEF Once
<1>2. h \in Seq(S) /\ Len(h) = k /\ k \in 0..Len(s) /\ \A i \in 1..k : h[i] = s[i]
  BY <1>1, FirstOfIs
<1>3. Len(s) \in Nat /\ DOMAIN s = 1..Len(s) /\ DOMAIN h = 1..Len(h)
  BY <1>1, <1>2, LenProperties
<1> HIDE DEF k, h
<1>4. \A i \in 1..k : i \in 1..Len(s)
  BY <1>2, <1>3
<1>5. Once(h, S)
  BY <1>1, <1>2, <1>4 DEF Once
<1>6. Range(h) \subseteq Range(s)
  BY <1>2, <1>3, <1>4 DEF Range
<1> QED BY <1>5, <1>6 DEF h

LEMMA FirstOfFollows ==
  ASSUME NEW S, NEW s \in Seq(S), NEW n \in Nat, NEW before, Follows(s, before)
  PROVE  Follows(FirstOf(s, n), before)
<1> DEFINE k == Fewer(n, Len(s))
           h == FirstOf(s, n)
<1>1. h \in Seq(S) /\ Len(h) = k /\ k \in 0..Len(s) /\ \A i \in 1..k : h[i] = s[i]
  BY FirstOfIs
<1>2. Len(s) \in Nat
  BY LenProperties
<1> HIDE DEF k, h
<1>3. \A i \in 1..k : i \in 1..Len(s)
  BY <1>1, <1>2
<1>4. Follows(h, before)
  BY <1>1, <1>3 DEF Follows
<1> QED BY <1>4 DEF h

\* Who has fewer than n before it is among the first n.
LEMMA AheadIsFirst ==
  ASSUME NEW S, NEW before, Ranks(S, before), NEW n \in Nat, NEW d \in S,
         Cardinality(Ahead(S, before, d)) < n
  PROVE  d \in Range(FirstOf(Arranged(S, before), n))
<1> DEFINE s == Arranged(S, before)
           h == FirstOf(s, n)
<1>1. /\ s \in Seq(S) /\ Range(s) = S /\ Len(s) = Cardinality(S)
      /\ \A i \in 1..Cardinality(S) : Cardinality(Ahead(S, before, s[i])) = i - 1
  BY ArrangedIs DEF Lists, Once
<1>2. Len(s) \in Nat /\ DOMAIN s = 1..Len(s)
  BY <1>1, LenProperties
<1>3. h \in Seq(S) /\ Len(h) = Fewer(n, Len(s)) /\ \A i \in 1..Fewer(n, Len(s)) : h[i] = s[i]
  BY <1>1, FirstOfIs
<1>4. DOMAIN h = 1..Fewer(n, Len(s))
  BY <1>3, LenProperties
<1> HIDE DEF s
<1>5. PICK i \in 1..Len(s) : s[i] = d
  BY <1>1, <1>2 DEF Range
<1>6. i - 1 < n
  BY <1>1, <1>5
<1>7. i \in 1..Fewer(n, Len(s))
  BY <1>2, <1>5, <1>6 DEF Fewer
<1>8. h[i] = d
  BY <1>3, <1>5, <1>7
<1> HIDE DEF h
<1>9. d \in Range(h)
  BY <1>4, <1>7, <1>8 DEF Range
<1> QED BY <1>9 DEF h, s

-----------------------------------------------------------------------------
\* Some places of a sequence, in order.
LEMMA AtIs ==
  ASSUME NEW S, NEW s \in Seq(S), NEW places \in SUBSET (1..Len(s))
  PROVE  \E at : /\ Lists(at, places) /\ Follows(at, Rising(places))
                 /\ Len(at) = Cardinality(places)
                 /\ At(s, places) = [i \in 1..Len(at) |-> s[at[i]]]
<1>1. Len(s) \in Nat
  BY LenProperties
<1>2. places \in SUBSET Int /\ IsFiniteSet(places)
  <2>1. IsFiniteSet(1..Len(s))
    BY <1>1, FS_Interval
  <2>2. IsFiniteSet(places)
    BY <2>1, FS_Subset
  <2> QED BY <2>2
<1>3. Ranks(places, Rising(places))
  BY <1>2, RisingRanks
<1> DEFINE at == Arranged(places, Rising(places))
<1>4. Lists(at, places) /\ Follows(at, Rising(places)) /\ Len(at) = Cardinality(places)
  BY <1>3, ArrangedIs
<1>5. DOMAIN at = 1..Len(at)
  BY <1>4, LenProperties DEF Lists, Once
<1>6. At(s, places) = [i \in 1..Len(at) |-> s[at[i]]]
  BY <1>5 DEF At
<1> QED BY <1>4, <1>6

LEMMA AtOnce ==
  ASSUME NEW S, NEW s, Once(s, S), NEW places \in SUBSET (1..Len(s))
  PROVE  /\ Once(At(s, places), S) /\ Range(At(s, places)) = {s[i] : i \in places}
         /\ Len(At(s, places)) = Cardinality(places)
<1>1. s \in Seq(S) /\ \A i, j \in 1..Len(s) : s[i] = s[j] => i = j
  BY DEF Once
<1>2. PICK at : /\ Lists(at, places) /\ Follows(at, Rising(places))
                /\ Len(at) = Cardinality(places)
                /\ At(s, places) = [i \in 1..Len(at) |-> s[at[i]]]
  BY <1>1, AtIs
<1>3. /\ at \in Seq(places) /\ Range(at) = places
      /\ \A i, j \in 1..Len(at) : at[i] = at[j] => i = j
  BY <1>2 DEF Lists, Once
<1>4. Len(at) \in Nat /\ DOMAIN at = 1..Len(at) /\ \A i \in 1..Len(at) : at[i] \in places
  BY <1>3, LenProperties, ElementOfSeq
<1>5. \A i \in 1..Len(s) : s[i] \in S
  BY <1>1, ElementOfSeq
<1> DEFINE h == [i \in 1..Len(at) |-> s[at[i]]]
<1>6. h \in [1..Len(at) -> S]
  BY <1>4, <1>5
<1>7. h \in Seq(S) /\ Len(h) = Len(at)
  BY <1>4, <1>6, SeqDef
<1>8. \A i, j \in 1..Len(h) : h[i] = h[j] => i = j
  BY <1>1, <1>3, <1>4, <1>7
<1>9. Once(h, S)
  BY <1>7, <1>8 DEF Once
<1>10. Range(h) = {s[i] : i \in places}
  <2>1. DOMAIN h = 1..Len(at)
    OBVIOUS
  <2>2. \A k \in 1..Len(at) : at[k] \in places
    BY <1>4
  <2>3. ASSUME NEW i \in places PROVE \E k \in 1..Len(at) : at[k] = i
    BY <1>3, <1>4 DEF Range
  <2>4. \A k \in 1..Len(at) : h[k] = s[at[k]]
    OBVIOUS
  <2> HIDE DEF h
  <2>5. ASSUME NEW x \in Range(h) PROVE x \in {s[i] : i \in places}
    <3>1. PICK k \in 1..Len(at) : h[k] = x
      BY <2>1 DEF Range
    <3>2. at[k] \in places /\ s[at[k]] = x
      BY <2>2, <2>4, <3>1
    <3> QED BY <3>2
  <2>6. ASSUME NEW i \in places PROVE s[i] \in Range(h)
    <3>1. PICK k \in 1..Len(at) : at[k] = i
      BY <2>3
    <3>2. h[k] = s[i]
      BY <2>4, <3>1
    <3>3. \A k2 \in DOMAIN h : h[k2] \in Range(h)
      BY DEF Range
    <3> QED BY <2>1, <3>2, <3>3
  <2> QED BY <2>5, <2>6
<1> QED BY <1>2, <1>7, <1>9, <1>10

LEMMA AtFollows ==
  ASSUME NEW S, NEW s \in Seq(S), NEW places \in SUBSET (1..Len(s)),
         NEW before, Follows(s, before)
  PROVE  Follows(At(s, places), before)
<1>1. PICK at : /\ Lists(at, places) /\ Follows(at, Rising(places))
                /\ At(s, places) = [i \in 1..Len(at) |-> s[at[i]]]
  BY AtIs
<1>2. at \in Seq(places)
  BY <1>1 DEF Lists, Once
<1>3. Len(at) \in Nat /\ \A i \in 1..Len(at) : at[i] \in places
  BY <1>2, LenProperties, ElementOfSeq
<1> DEFINE h == [i \in 1..Len(at) |-> s[at[i]]]
<1>4. Len(h) = Len(at)
  <2>1. \A i \in 1..Len(s) : s[i] \in S
    BY ElementOfSeq
  <2>2. h \in [1..Len(at) -> S]
    BY <1>3, <2>1
  <2> QED BY <1>3, <2>2, SeqDef
<1>5. \A i, j \in 1..Len(at) : i < j => at[i] < at[j]
  BY <1>1 DEF Follows, Rising
<1>6. \A i, j \in 1..Len(at) : i < j => <<h[i], h[j]>> \in before
  BY <1>3, <1>5 DEF Follows
<1>7. Follows(h, before)
  <2> HIDE DEF h
  <2> QED BY <1>4, <1>6 DEF Follows
<1> QED BY <1>1, <1>7

LEMMA SelectOnce ==
  ASSUME NEW S, NEW s, Once(s, S), NEW T
  PROVE  Once(Select(s, T), S) /\ Range(Select(s, T)) = Range(s) \cap T
<1> DEFINE places == {i \in DOMAIN s : s[i] \in T}
<1>1. DOMAIN s = 1..Len(s)
  BY LenProperties DEF Once
<1>2. places \in SUBSET (1..Len(s))
  BY <1>1
<1>3. Select(s, T) = At(s, places)
  BY DEF Select
<1>4. {s[i] : i \in places} = Range(s) \cap T
  BY DEF Range
<1> HIDE DEF places
<1>5. Once(At(s, places), S) /\ Range(At(s, places)) = {s[i] : i \in places}
  BY <1>2, AtOnce
<1> QED BY <1>3, <1>4, <1>5

LEMMA SelectFollows ==
  ASSUME NEW S, NEW s \in Seq(S), NEW T, NEW before, Follows(s, before)
  PROVE  Follows(Select(s, T), before)
<1> DEFINE places == {i \in DOMAIN s : s[i] \in T}
<1>1. DOMAIN s = 1..Len(s)
  BY LenProperties
<1>2. places \in SUBSET (1..Len(s))
  BY <1>1
<1>3. Select(s, T) = At(s, places)
  BY DEF Select
<1> HIDE DEF places
<1> QED BY <1>2, <1>3, AtFollows

\* Some docs, from the nearest to the farthest.
LEMMA DocsAre == IsFiniteSet(Docs) /\ Docs \in SUBSET Int
<1>1. N \in Nat
  BY RetrievalAssumption
<1>2. IsFiniteSet(1..N)
  BY <1>1, FS_Interval
<1> QED BY <1>2 DEF Docs

LEMMA ByDistanceIs ==
  ASSUME NEW S \in SUBSET Docs
  PROVE  /\ IsFiniteSet(S) /\ Ranks(S, Rising(S))
         /\ Lists(ByDistance(S), S) /\ Follows(ByDistance(S), Rising(Docs))
         /\ Once(ByDistance(S), Docs) /\ Range(ByDistance(S)) = S
<1>1. IsFiniteSet(S)
  BY DocsAre, FS_Subset
<1>2. Ranks(S, Rising(S))
  BY <1>1, DocsAre, RisingRanks
<1>3. Lists(ByDistance(S), S) /\ Follows(ByDistance(S), Rising(S))
  BY <1>2, ArrangedIs DEF ByDistance
<1>4. Rising(S) \subseteq Rising(Docs)
  BY DEF Rising
<1>5. Follows(ByDistance(S), Rising(Docs))
  BY <1>3, <1>4 DEF Follows
<1>6. ByDistance(S) \in Seq(S) /\ Range(ByDistance(S)) = S
  BY <1>3 DEF Lists, Once
<1>7. ByDistance(S) \in Seq(Docs)
  BY <1>6, SeqMonotonic
<1>8. Once(ByDistance(S), Docs)
  BY <1>3, <1>7 DEF Lists, Once
<1> QED BY <1>1, <1>2, <1>3, <1>5, <1>6, <1>8

LEMMA NearestAre ==
  ASSUME NEW S \in SUBSET Docs, NEW n \in Nat
  PROVE  /\ Once(FirstOf(ByDistance(S), n), Docs)
         /\ Range(FirstOf(ByDistance(S), n)) \subseteq S
         /\ Follows(FirstOf(ByDistance(S), n), Rising(Docs))
<1>1. Once(ByDistance(S), Docs) /\ Range(ByDistance(S)) = S /\ Follows(ByDistance(S), Rising(Docs))
  BY ByDistanceIs
<1>2. ByDistance(S) \in Seq(Docs)
  BY <1>1 DEF Once
<1>3. Once(FirstOf(ByDistance(S), n), Docs) /\ Range(FirstOf(ByDistance(S), n)) \subseteq Range(ByDistance(S))
  BY <1>1, FirstOfOnce
<1>4. Follows(FirstOf(ByDistance(S), n), Rising(Docs))
  BY <1>1, <1>2, FirstOfFollows
<1> QED BY <1>1, <1>3, <1>4

\* A doc of S with fewer than n nearer in S is among the n nearest.
LEMMA NearIsAmongNearest ==
  ASSUME NEW S \in SUBSET Docs, NEW n \in Nat, NEW d \in S, NEW T \in SUBSET Docs,
         {e \in S : e < d} \subseteq T, Cardinality(T) < n
  PROVE  d \in Range(FirstOf(ByDistance(S), n))
<1>1. Ranks(S, Rising(S))
  BY ByDistanceIs
<1>2. Ahead(S, Rising(S), d) \in SUBSET T
  BY DEF Ahead, Rising
<1>3. IsFiniteSet(T)
  BY ByDistanceIs
<1>4. IsFiniteSet(Ahead(S, Rising(S), d)) /\ Cardinality(Ahead(S, Rising(S), d)) <= Cardinality(T)
  BY <1>2, <1>3, FS_Subset
<1>5. Cardinality(Ahead(S, Rising(S), d)) \in Nat /\ Cardinality(T) \in Nat
  BY <1>3, <1>4, FS_CardinalityType
<1>6. Cardinality(Ahead(S, Rising(S), d)) < n
  BY <1>4, <1>5
<1>7. d \in Range(FirstOf(Arranged(S, Rising(S)), n))
  BY <1>1, <1>6, AheadIsFirst
<1> QED BY <1>7 DEF ByDistance

-----------------------------------------------------------------------------
\* The rows of a partition.
FromSource(c, q, src) == {d \in Visible(c, q) : c.doc[d].source = src}

LEMMA OwnerTagIsTag == \A q : OwnerTag(q) => q.tags # {}
BY FS_EmptySet DEF OwnerTag

\* What is in a partition that is asked, and passes the other filters, is visible.
LEMMA InPartition ==
  ASSUME NEW c, NEW q, NEW src \in Partitions(c, q), NEW d \in Docs,
         c.doc[d].source = src, Lifecycled(c.doc[d], q), c.doc[d].status # "duplicate",
         Tagged(c.doc[d], q)
  PROVE  d \in FromSource(c, q, src)
<1>1. InScope(c.doc[d], q)
  BY DEF Partitions, InScope
<1> QED BY <1>1 DEF FromSource, Visible, PassesFilters

KnnK(q) == IF q.tags # {} /\ ~OwnerTag(q) THEN MaxK ELSE Window

LEMMA KnnIs ==
  ASSUME NEW c, NEW q, NEW src \in Partitions(c, q)
  PROVE  /\ Once(Knn(c, q, src), Docs) /\ Range(Knn(c, q, src)) \subseteq FromSource(c, q, src)
         /\ Follows(Knn(c, q, src), Rising(Docs))
         /\ KnnPool(c, q, src) \in SUBSET Docs /\ KnnK(q) \in Nat
         /\ \A d \in Range(FirstOf(ByDistance(KnnPool(c, q, src)), KnnK(q))) :
                Tagged(c.doc[d], q) => d \in Range(Knn(c, q, src))
<1> DEFINE pool == KnnPool(c, q, src)
           near == Range(FirstOf(ByDistance(pool), KnnK(q)))
           fit == {d \in near : Tagged(c.doc[d], q)}
<1>1. Knn(c, q, src) = ByDistance(fit)
  BY DEF Knn, KnnK
<1>2. pool \in SUBSET Docs /\ KnnK(q) \in Nat
  BY RetrievalAssumption DEF KnnPool, KnnK
<1>3. near \subseteq pool
  <2> HIDE DEF pool
  <2> QED BY <1>2, NearestAre
<1>4. ASSUME NEW d \in fit PROVE d \in FromSource(c, q, src)
  BY <1>3, InPartition DEF KnnPool
<1>5. fit \in SUBSET Docs
  BY <1>2, <1>3
<1>6. \A d \in near : Tagged(c.doc[d], q) => d \in fit
  OBVIOUS
<1> HIDE DEF fit
<1>7. /\ Once(ByDistance(fit), Docs) /\ Range(ByDistance(fit)) = fit
      /\ Follows(ByDistance(fit), Rising(Docs))
  BY <1>5, ByDistanceIs
<1> QED BY <1>1, <1>2, <1>4, <1>6, <1>7

LEMMA OwnerFallbackIs ==
  ASSUME NEW c, NEW q, NEW src \in Partitions(c, q)
  PROVE  /\ OwnerFallback(c, q, src) \in Seq(Docs)
         /\ Range(OwnerFallback(c, q, src)) \subseteq FromSource(c, q, src)
         /\ ~OwnerTag(q) => OwnerFallback(c, q, src) = << >>
<1> DEFINE pool == {d \in Docs : LET p == c.doc[d] IN
                      /\ p.source = src /\ Lifecycled(p, q) /\ p.status # "duplicate"
                      /\ Tagged(p, q) /\ Cardinality(p.owners) > 1}
<1>1. OwnerFallback(c, q, src) = IF ~OwnerTag(q) THEN << >> ELSE FirstOf(ByDistance(pool), Wide)
  BY DEF OwnerFallback
<1>2. pool \in SUBSET Docs
  OBVIOUS
<1>3. ASSUME NEW d \in pool PROVE d \in FromSource(c, q, src)
  BY InPartition
<1>4. Wide \in Nat
  BY RetrievalAssumption
<1> HIDE DEF pool
<1>5. CASE ~OwnerTag(q)
  <2>1. << >> \in Seq(Docs) /\ DOMAIN << >> = {}
    BY EmptySeq, LenProperties
  <2>2. Range(<< >>) = {}
    BY <2>1 DEF Range
  <2> QED BY <1>1, <1>5, <2>1, <2>2
<1>6. CASE OwnerTag(q)
  <2>1. /\ Once(FirstOf(ByDistance(pool), Wide), Docs)
        /\ Range(FirstOf(ByDistance(pool), Wide)) \subseteq pool
    BY <1>2, <1>4, NearestAre
  <2> QED BY <1>1, <1>3, <1>6, <2>1 DEF Once
<1> QED BY <1>5, <1>6

RowOrder(c) == {p \in Docs \X Docs : c.row[p[1]] < c.row[p[2]]}

LEMMA RowOrderRanks ==
  ASSUME NEW c \in Corpora, NEW S \in SUBSET Docs
  PROVE  Ranks(S, RowOrder(c))
<1>1. c.row \in [Docs -> Nat] /\ \A d, e \in Docs : c.row[d] = c.row[e] => d = e
  BY RetrievalAssumption DEF Corpora, Docs, IsInjective
<1>2. IsFiniteSet(S)
  BY ByDistanceIs
<1> QED BY <1>1, <1>2 DEF Ranks, RowOrder

LEMMA HnswIs ==
  ASSUME NEW c \in Corpora, NEW q, NEW src
  PROVE  /\ Once(Hnsw(c, q, src), Docs) /\ Range(Hnsw(c, q, src)) \subseteq FromSource(c, q, src)
         /\ q.tags # {} => Range(Hnsw(c, q, src)) = FromSource(c, q, src)
<1> DEFINE pool == {d \in Docs : c.doc[d].source = src}
           near == ByDistance(pool)
           got == Range(IF q.tags # {} THEN near ELSE FirstOf(near, Window))
           fit == {d \in got : PassesFilters(c, q, d)}
<1>1. Hnsw(c, q, src) = Arranged(fit, RowOrder(c))
  BY DEF Hnsw, RowOrder
<1>2. pool \in SUBSET Docs /\ Window \in Nat
  BY RetrievalAssumption
<1>3. got \in SUBSET pool /\ (q.tags # {} => got = pool)
  <2>1. Range(near) = pool
    BY <1>2, ByDistanceIs
  <2>2. Range(FirstOf(near, Window)) \subseteq pool
    BY <1>2, NearestAre
  <2> QED BY <2>1, <2>2
<1>4. fit \in SUBSET Docs /\ fit \subseteq FromSource(c, q, src) /\ (q.tags # {} => fit = FromSource(c, q, src))
  BY <1>3 DEF FromSource, Visible
<1> HIDE DEF fit
<1>5. Lists(Arranged(fit, RowOrder(c)), fit)
  BY <1>4, RowOrderRanks, ArrangedIs
<1>6. Arranged(fit, RowOrder(c)) \in Seq(fit) /\ Range(Arranged(fit, RowOrder(c))) = fit
  BY <1>5 DEF Lists, Once
<1>7. Arranged(fit, RowOrder(c)) \in Seq(Docs)
  BY <1>4, <1>6, SeqMonotonic
<1>8. Once(Arranged(fit, RowOrder(c)), Docs)
  BY <1>5, <1>7 DEF Lists, Once
<1> QED BY <1>1, <1>4, <1>6, <1>8

LEMMA RangeOfConcat ==
  ASSUME NEW S, NEW s \in Seq(S), NEW t \in Seq(S)
  PROVE  Range(s \o t) = Range(s) \cup Range(t) /\ s \o t \in Seq(S)
<1>1. /\ s \o t \in Seq(S) /\ Len(s \o t) = Len(s) + Len(t)
      /\ \A i \in 1..Len(s) + Len(t) : (s \o t)[i] = IF i <= Len(s) THEN s[i] ELSE t[i - Len(s)]
  BY ConcatProperties
<1>2. /\ Len(s) \in Nat /\ Len(t) \in Nat
      /\ DOMAIN s = 1..Len(s) /\ DOMAIN t = 1..Len(t) /\ DOMAIN (s \o t) = 1..Len(s) + Len(t)
  BY <1>1, LenProperties
<1> DEFINE h == s \o t
<1> HIDE DEF h
<1>3. ASSUME NEW x \in Range(h) PROVE x \in Range(s) \cup Range(t)
  <2>1. PICK i \in 1..Len(s) + Len(t) : h[i] = x
    BY <1>2 DEF Range, h
  <2>2. CASE i <= Len(s)
    <3>1. i \in DOMAIN s /\ s[i] = x
      BY <1>1, <1>2, <2>1, <2>2 DEF h
    <3> QED BY <3>1 DEF Range
  <2>3. CASE ~(i <= Len(s))
    <3>1. i - Len(s) \in DOMAIN t /\ t[i - Len(s)] = x
      BY <1>1, <1>2, <2>1, <2>3 DEF h
    <3> QED BY <3>1 DEF Range
  <2> QED BY <2>2, <2>3
<1>4. ASSUME NEW x \in Range(s) PROVE x \in Range(h)
  <2>1. PICK i \in 1..Len(s) : s[i] = x
    BY <1>2 DEF Range
  <2>2. i \in DOMAIN h /\ h[i] = x
    BY <1>1, <1>2, <2>1 DEF h
  <2> QED BY <2>2 DEF Range
<1>5. ASSUME NEW x \in Range(t) PROVE x \in Range(h)
  <2>1. PICK i \in 1..Len(t) : t[i] = x
    BY <1>2 DEF Range
  <2>2. Len(s) + i \in 1..Len(s) + Len(t) /\ ~(Len(s) + i <= Len(s)) /\ (Len(s) + i) - Len(s) = i
    BY <1>2
  <2>3. Len(s) + i \in DOMAIN h /\ h[Len(s) + i] = x
    BY <1>1, <1>2, <2>1, <2>2 DEF h
  <2> QED BY <2>3 DEF Range
<1>6. Range(h) = Range(s) \cup Range(t)
  BY <1>3, <1>4, <1>5
<1> QED BY <1>1, <1>6 DEF h

LEMMA SourceRowsAre ==
  ASSUME NEW c \in Corpora, NEW q, NEW src \in Partitions(c, q)
  PROVE  /\ Range(SourceRows(c, q, src)) \subseteq FromSource(c, q, src)
         /\ ~OwnerTag(q) => Once(SourceRows(c, q, src), Docs)
         /\ ~OwnerTag(q) /\ src \notin c.flagged => Follows(SourceRows(c, q, src), Rising(Docs))
<1>1. CASE src \in c.flagged
  BY <1>1, HnswIs DEF SourceRows
<1>2. CASE src \notin c.flagged
  <2> DEFINE k == Knn(c, q, src)
             o == OwnerFallback(c, q, src)
  <2>1. Once(k, Docs) /\ Range(k) \subseteq FromSource(c, q, src) /\ Follows(k, Rising(Docs))
    BY KnnIs
  <2>2. /\ o \in Seq(Docs) /\ Range(o) \subseteq FromSource(c, q, src)
        /\ ~OwnerTag(q) => o = << >>
    BY OwnerFallbackIs
  <2>3. SourceRows(c, q, src) = k \o o
    BY <1>2 DEF SourceRows
  <2> HIDE DEF k, o
  <2>4. k \in Seq(Docs)
    BY <2>1 DEF Once
  <2>5. Range(k \o o) = Range(k) \cup Range(o)
    BY <2>2, <2>4, RangeOfConcat
  <2>6. k \o << >> = k
    BY <2>4, ConcatEmptySeq
  <2> QED BY <2>1, <2>2, <2>3, <2>5, <2>6
<1> QED BY <1>1, <1>2

-----------------------------------------------------------------------------
\* The partitions of a search.
FlatIn(c) == Sources(c) \cap c.flagged = {}

LEMMA PartitionsAre ==
  ASSUME NEW c, NEW q
  PROVE  /\ IsFiniteSet(Partitions(c, q)) /\ Partitions(c, q) # {}
         /\ IsFiniteSet(Sources(c)) /\ (q.scope = "*" => Partitions(c, q) = Sources(c))
<1>1. IsFiniteSet(Sources(c)) /\ Sources(c) # {}
  <2> DEFINE f == [d \in Docs |-> c.doc[d].source]
             T == Sources(c)
  <2>1. f \in [Docs -> T] /\ \A x \in T : \E d \in Docs : f[d] = x
    BY DEF Sources
  <2>2. 1 \in Docs
    BY RetrievalAssumption DEF Docs
  <2>3. T # {}
    BY <2>2 DEF Sources
  <2> HIDE DEF f, T
  <2>4. f \in Surjection(Docs, T)
    BY <2>1 DEF Surjection
  <2>5. IsFiniteSet(T)
    BY <2>4, DocsAre, FS_Surjection
  <2> QED BY <2>3, <2>5 DEF T
<1>2. IsFiniteSet({q.scope})
  BY FS_Singleton
<1> QED BY <1>1, <1>2 DEF Partitions

LEMMA OnlyPartition ==
  ASSUME NEW c, NEW q, ~(Cardinality(Partitions(c, q)) > 1), NEW src \in Partitions(c, q)
  PROVE  Partitions(c, q) = {src}
<1> DEFINE P == Partitions(c, q)
<1>1. IsFiniteSet(P) /\ P # {}
  BY PartitionsAre
<1> HIDE DEF P
<1>2. Cardinality(P) \in Nat
  BY <1>1, FS_CardinalityType
<1>3. Cardinality(P) # 0
  BY <1>1, FS_EmptySet
<1>4. Cardinality(P) = 1
  BY <1>2, <1>3 DEF P
<1>5. \E x : P = {x}
  BY <1>1, <1>4, FS_Singleton
<1> QED BY <1>5 DEF P

LEMMA PartitionOfVisible ==
  ASSUME NEW c, NEW q, NEW d \in Visible(c, q)
  PROVE  /\ c.doc[d].source \in Partitions(c, q) /\ c.doc[d].source \in Sources(c)
         /\ d \in FromSource(c, q, c.doc[d].source)
BY DEF Visible, PassesFilters, InScope, Partitions, Sources, FromSource

LEMMA VectorRowsAre ==
  ASSUME NEW c \in Corpora, NEW q
  PROVE  /\ Once(VectorRows(c, q), Docs) /\ Range(VectorRows(c, q)) \subseteq Visible(c, q)
         /\ FlatIn(c) \/ OwnerTag(q) => Follows(VectorRows(c, q), Rising(Docs))
<1> DEFINE all == UNION {Range(SourceRows(c, q, src)) : src \in Partitions(c, q)}
<1>1. \A src : FromSource(c, q, src) \subseteq Visible(c, q) /\ Visible(c, q) \subseteq Docs
  BY DEF FromSource, Visible
<1>2. all \in SUBSET Visible(c, q)
  <2>1. \A src \in Partitions(c, q) : Range(SourceRows(c, q, src)) \subseteq Visible(c, q)
    BY <1>1, SourceRowsAre
  <2> QED BY <2>1
<1>3. CASE Cardinality(Partitions(c, q)) > 1 \/ OwnerTag(q)
  <2>1. VectorRows(c, q) = ByDistance(all)
    BY <1>3 DEF VectorRows, Merged
  <2> HIDE DEF all
  <2>2. all \in SUBSET Docs
    BY <1>1, <1>2
  <2> QED BY <1>2, <2>1, <2>2, ByDistanceIs
<1>4. CASE ~(Cardinality(Partitions(c, q)) > 1 \/ OwnerTag(q))
  <2> DEFINE src == CHOOSE src \in Partitions(c, q) : TRUE
  <2>1. VectorRows(c, q) = SourceRows(c, q, src)
    BY <1>4 DEF VectorRows, Merged
  <2>2. src \in Partitions(c, q)
    BY PartitionsAre
  <2> HIDE DEF src
  <2>3. /\ Range(SourceRows(c, q, src)) \subseteq FromSource(c, q, src)
        /\ Once(SourceRows(c, q, src), Docs)
        /\ src \notin c.flagged => Follows(SourceRows(c, q, src), Rising(Docs))
    BY <1>4, <2>2, SourceRowsAre
  <2>4. ASSUME FlatIn(c), src \in c.flagged PROVE Follows(SourceRows(c, q, src), Rising(Docs))
    <3>1. src \notin Sources(c)
      BY <2>4 DEF FlatIn
    <3>2. FromSource(c, q, src) = {}
      BY <3>1 DEF FromSource, Visible, Sources
    <3>3. DOMAIN SourceRows(c, q, src) = {}
      BY <2>3, <3>2 DEF Range
    <3>4. 1..Len(SourceRows(c, q, src)) = {}
      BY <2>3, <3>3, LenProperties DEF Once
    <3> QED BY <3>4 DEF Follows
  <2> QED BY <1>1, <1>4, <2>1, <2>3, <2>4
<1> QED BY <1>3, <1>4

-----------------------------------------------------------------------------
\* Of a pool, at least all before d that may be shown, and few enough of the
\* others not to squeeze it out: d is among the first k.
LEMMA NotSqueezed ==
  ASSUME NEW c, NEW q, NEW chunks \in BOOLEAN, NEW d \in Wanted(c, q, chunks),
         NEW pool \in SUBSET Docs, d \in pool, NEW k \in Nat, Limit <= k,
         \/ Cardinality(NearerOf(c, d, pool)) < k
         \/ NearerOf(c, d, pool) \subseteq Shown(c, q, chunks),
         \A e \in pool : c.doc[e].source = c.doc[d].source
  PROVE  d \in Range(FirstOf(ByDistance(pool), k))
<1> DEFINE T == NearerOf(c, d, pool)
           U == NearerOf(c, d, Shown(c, q, chunks))
<1>1. T \in SUBSET Docs /\ U \in SUBSET Docs /\ {e \in pool : e < d} \subseteq T
  BY DEF NearerOf, Shown, Visible
<1>2. Cardinality(U) < Limit
  BY DEF Wanted
<1>3. T \subseteq Shown(c, q, chunks) => T \subseteq U
  BY DEF NearerOf
<1>4. Cardinality(T) < k \/ T \subseteq U
  BY <1>3
<1> HIDE DEF T, U
<1>5. IsFiniteSet(T) /\ IsFiniteSet(U)
  BY <1>1, ByDistanceIs
<1>6. T \subseteq U => Cardinality(T) <= Cardinality(U)
  BY <1>5, FS_Subset
<1>7. Cardinality(T) \in Nat /\ Cardinality(U) \in Nat /\ Limit \in Nat
  BY <1>5, FS_CardinalityType, RetrievalAssumption
<1>8. Cardinality(T) < k
  BY <1>2, <1>4, <1>6, <1>7
<1> QED BY <1>1, <1>8, NearIsAmongNearest

LEMMA SourceRowsRecall ==
  ASSUME NEW c \in Corpora, NEW q, IsFiniteSet(q.tags), NEW d \in Wanted(c, q, FALSE),
         ~Squeezed(c, q, FALSE, d), c.doc[d].source \notin c.flagged \/ q.tags # {}
  PROVE  d \in Range(SourceRows(c, q, c.doc[d].source))
<1> DEFINE src == c.doc[d].source
<1>1. d \in Visible(c, q) /\ Visible(c, q) = Shown(c, q, FALSE)
  BY DEF Wanted, Shown
<1>2. /\ d \in Docs /\ src \in Partitions(c, q) /\ d \in FromSource(c, q, src)
      /\ Lifecycled(c.doc[d], q) /\ c.doc[d].status # "duplicate" /\ Tagged(c.doc[d], q)
  BY <1>1, PartitionOfVisible DEF Visible, PassesFilters
<1>3. /\ Limit \in Nat /\ Window \in Nat /\ MaxK \in Nat /\ Wide \in Nat
      /\ Limit <= Wide /\ Limit <= Window /\ Limit <= MaxK
  BY RetrievalAssumption
<1>4. CASE src \in c.flagged
  <2>1. q.tags # {}
    BY <1>4
  <2>2. Range(Hnsw(c, q, src)) = FromSource(c, q, src)
    BY <2>1, HnswIs
  <2> QED BY <1>2, <1>4, <2>2 DEF SourceRows
<1>5. CASE src \notin c.flagged
  <2> DEFINE k == Knn(c, q, src)
             o == OwnerFallback(c, q, src)
             pool == KnnPool(c, q, src)
             several == {e \in Docs : LET p == c.doc[e] IN
                           /\ p.source = src /\ Lifecycled(p, q) /\ p.status # "duplicate"
                           /\ Tagged(p, q) /\ Cardinality(p.owners) > 1}
  <2>1. k \in Seq(Docs) /\ o \in Seq(Docs) /\ SourceRows(c, q, src) = k \o o
    BY <1>2, <1>5, KnnIs, OwnerFallbackIs DEF SourceRows, Once
  <2>2. Range(SourceRows(c, q, src)) = Range(k) \cup Range(o)
    <3> HIDE DEF k, o
    <3> QED BY <2>1, RangeOfConcat
  <2>3. pool \in SUBSET Docs /\ \A e \in pool : c.doc[e].source = src
    BY DEF KnnPool
  <2>4. CASE OwnerTag(q) => c.doc[d].owners = q.tags
    <3>1. d \in pool
      BY <1>2, <2>4 DEF KnnPool
    <3>2. \/ Cardinality(NearerOf(c, d, pool)) < KnnK(q)
          \/ NearerOf(c, d, pool) \subseteq Shown(c, q, FALSE)
      <4>1. CASE q.tags # {} /\ ~OwnerTag(q)
        <5>1. \/ NearerOf(c, d, pool) \subseteq Shown(c, q, FALSE)
              \/ ~(Cardinality(NearerOf(c, d, pool)) >= MaxK)
          BY <1>5, <4>1 DEF Squeezed, ChunkK
        <5>2. IsFiniteSet(NearerOf(c, d, pool))
          <6> HIDE DEF pool
          <6>1. NearerOf(c, d, pool) \in SUBSET Docs
            BY <2>3 DEF NearerOf
          <6> QED BY <6>1, ByDistanceIs
        <5>3. Cardinality(NearerOf(c, d, pool)) \in Nat
          BY <5>2, FS_CardinalityType
        <5>4. KnnK(q) = MaxK
          BY <4>1 DEF KnnK
        <5> DEFINE n == Cardinality(NearerOf(c, d, pool))
        <5> HIDE DEF n
        <5>5. ~(n >= MaxK) => n < MaxK
          BY <1>3, <5>3 DEF n
        <5> QED BY <5>1, <5>4, <5>5 DEF n
      <4>2. CASE ~(q.tags # {} /\ ~OwnerTag(q))
        <5> SUFFICES ASSUME NEW e \in pool PROVE e \in Shown(c, q, FALSE)
          BY DEF NearerOf
        <5>1. Tagged(c.doc[e], q)
          BY <4>2, OwnerTagIsTag DEF KnnPool, Tagged
        <5>2. e \in FromSource(c, q, src)
          BY <1>2, <5>1, InPartition DEF KnnPool
        <5> QED BY <1>1, <5>2 DEF FromSource
      <4> QED BY <4>1, <4>2
    <3>3. KnnK(q) \in Nat /\ Limit <= KnnK(q)
      BY <1>3 DEF KnnK
    <3>4. d \in Range(FirstOf(ByDistance(pool), KnnK(q)))
      <4> HIDE DEF pool
      <4> QED BY <2>3, <3>1, <3>2, <3>3, NotSqueezed
    <3> QED BY <1>2, <2>2, <3>4, KnnIs
  <2>5. CASE OwnerTag(q) /\ c.doc[d].owners # q.tags
    <3> DEFINE owners == c.doc[d].owners
    <3>1. PICK x : q.tags = {x}
      BY <2>5, FS_Singleton DEF OwnerTag
    <3>2. x \in owners /\ owners # {x}
      BY <1>2, <2>5, <3>1 DEF Tagged
    <3>3. IsFiniteSet(owners)
      BY <1>2, RetrievalAssumption DEF Corpora
    <3> HIDE DEF owners
    <3>4. Cardinality(owners) \in Nat /\ Cardinality(owners) # 0 /\ Cardinality(owners) # 1
      <4>1. Cardinality(owners) \in Nat
        BY <3>3, FS_CardinalityType
      <4>2. Cardinality(owners) # 0
        BY <3>2, <3>3, FS_EmptySet
      <4>3. Cardinality(owners) # 1
        BY <3>2, <3>3, FS_Singleton
      <4> QED BY <4>1, <4>2, <4>3
    <3>5. Cardinality(owners) > 1
      BY <3>4
    <3>6. d \in several
      BY <1>2, <3>5 DEF owners
    <3>7. NearerOf(c, d, several) \subseteq Shown(c, q, FALSE)
      <4> SUFFICES ASSUME NEW e \in several PROVE e \in Shown(c, q, FALSE)
        BY DEF NearerOf
      <4>1. e \in FromSource(c, q, src)
        BY <1>2, InPartition
      <4> QED BY <1>1, <4>1 DEF FromSource
    <3>8. several \in SUBSET Docs /\ \A e \in several : c.doc[e].source = src
      OBVIOUS
    <3>9. d \in Range(FirstOf(ByDistance(several), Wide))
      <4> HIDE DEF several
      <4> QED BY <1>3, <3>6, <3>7, <3>8, NotSqueezed
    <3>10. o = FirstOf(ByDistance(several), Wide)
      BY <2>5 DEF OwnerFallback
    <3> QED BY <2>2, <3>9, <3>10
  <2> QED BY <2>4, <2>5
<1> QED BY <1>4, <1>5

LEMMA VectorRowsRecall ==
  ASSUME NEW c \in Corpora, NEW q, IsFiniteSet(q.tags), NEW d \in Wanted(c, q, FALSE),
         ~Squeezed(c, q, FALSE, d), FlatIn(c) \/ q.tags # {}
  PROVE  d \in Range(VectorRows(c, q))
<1> DEFINE src == c.doc[d].source
           all == UNION {Range(SourceRows(c, q, s)) : s \in Partitions(c, q)}
<1>1. src \in Partitions(c, q) /\ src \in Sources(c)
  BY PartitionOfVisible DEF Wanted, Shown
<1>2. src \notin c.flagged \/ q.tags # {}
  BY <1>1 DEF FlatIn
<1>3. d \in Range(SourceRows(c, q, src))
  BY <1>2, SourceRowsRecall
<1>4. CASE Cardinality(Partitions(c, q)) > 1 \/ OwnerTag(q)
  <2>1. VectorRows(c, q) = ByDistance(all)
    BY <1>4 DEF VectorRows, Merged
  <2>2. d \in all
    BY <1>1, <1>3
  <2>3. all \in SUBSET Docs
    <3>1. \A s \in Partitions(c, q) : Range(SourceRows(c, q, s)) \subseteq Docs
      BY SourceRowsAre DEF FromSource, Visible
    <3> QED BY <3>1
  <2> HIDE DEF all
  <2> QED BY <2>1, <2>2, <2>3, ByDistanceIs
<1>5. CASE ~(Cardinality(Partitions(c, q)) > 1 \/ OwnerTag(q))
  <2>1. Partitions(c, q) = {src}
    BY <1>1, <1>5, OnlyPartition
  <2>2. (CHOOSE s \in Partitions(c, q) : TRUE) = src
    BY <2>1
  <2> QED BY <1>3, <1>5, <2>2 DEF VectorRows, Merged
<1> QED BY <1>4, <1>5

-----------------------------------------------------------------------------
\* Where a doc stands.
LEMMA WhereIs ==
  ASSUME NEW S, NEW s \in Seq(S), NEW d \in Range(s)
  PROVE  Where(s, d) \in 1..Len(s) /\ s[Where(s, d)] = d
<1>1. DOMAIN s = 1..Len(s)
  BY LenProperties
<1>2. \E i \in DOMAIN s : s[i] = d
  BY DEF Range
<1>3. Where(s, d) \in DOMAIN s /\ s[Where(s, d)] = d
  BY <1>2 DEF Where
<1> QED BY <1>1, <1>3

LEMMA WhereOf ==
  ASSUME NEW S, NEW s, Once(s, S), NEW i \in 1..Len(s)
  PROVE  s[i] \in Range(s) /\ Where(s, s[i]) = i
<1>1. s \in Seq(S) /\ DOMAIN s = 1..Len(s)
  BY LenProperties DEF Once
<1>2. s[i] \in Range(s)
  BY <1>1 DEF Range
<1>3. Where(s, s[i]) \in 1..Len(s) /\ s[Where(s, s[i])] = s[i]
  BY <1>1, <1>2, WhereIs
<1> QED BY <1>2, <1>3 DEF Once

\* Who is before whom in s.
Behind(s) == {p \in Range(s) \X Range(s) : Where(s, p[1]) < Where(s, p[2])}

LEMMA FollowsItself ==
  ASSUME NEW S, NEW s, Once(s, S)
  PROVE  Follows(s, Behind(s))
<1>1. \A i \in 1..Len(s) : s[i] \in Range(s) /\ Where(s, s[i]) = i
  BY WhereOf
<1> QED BY <1>1 DEF Follows, Behind

\* In a sequence that follows an order, the lesser comes first.
LEMMA LesserFirst ==
  ASSUME NEW S, NEW s, Once(s, S), NEW before, Follows(s, before),
         NEW i \in 1..Len(s), NEW j \in 1..Len(s), <<s[j], s[i]>> \notin before, s[i] # s[j]
  PROVE  i < j
<1>1. Len(s) \in Nat
  BY LenProperties DEF Once
<1>2. ~(j < i) /\ i # j
  BY DEF Follows
<1> QED BY <1>1, <1>2

LEMMA KeepsWhere ==
  ASSUME NEW S, NEW s, Once(s, S), NEW T, NEW h, Once(h, T), Follows(h, Behind(s)),
         NEW d \in Range(h), NEW e \in Range(h), d \in Range(s), e \in Range(s), Where(s, d) < Where(s, e)
  PROVE  Where(h, d) < Where(h, e)
<1>1. h \in Seq(T) /\ s \in Seq(S) /\ Len(s) \in Nat
  BY LenProperties DEF Once
<1>2. Where(h, d) \in 1..Len(h) /\ h[Where(h, d)] = d /\ Where(h, e) \in 1..Len(h) /\ h[Where(h, e)] = e
  BY <1>1, WhereIs
<1>3. Where(s, d) \in 1..Len(s) /\ Where(s, e) \in 1..Len(s)
  BY <1>1, WhereIs
<1>4. d # e /\ <<e, d>> \notin Behind(s)
  BY <1>1, <1>3 DEF Behind
<1> DEFINE i == Where(h, d)
           j == Where(h, e)
<1>5. i \in 1..Len(h) /\ j \in 1..Len(h) /\ <<h[j], h[i]>> \notin Behind(s) /\ h[i] # h[j]
  BY <1>2, <1>4
<1> HIDE DEF i, j
<1>6. i < j
  BY <1>5, LesserFirst
<1> QED BY <1>6 DEF i, j

LEMMA SelectKeeps ==
  ASSUME NEW S, NEW s, Once(s, S), NEW T, NEW d \in Range(s) \cap T, NEW e \in Range(s) \cap T,
         Where(s, d) < Where(s, e)
  PROVE  Where(Select(s, T), d) < Where(Select(s, T), e)
<1> DEFINE h == Select(s, T)
<1>1. Once(h, S) /\ Range(h) = Range(s) \cap T
  BY SelectOnce
<1>2. s \in Seq(S) /\ Follows(s, Behind(s))
  BY FollowsItself DEF Once
<1>3. Follows(h, Behind(s))
  BY <1>2, SelectFollows
<1> HIDE DEF h
<1>4. Where(h, d) < Where(h, e)
  BY <1>1, <1>3, KeepsWhere
<1> QED BY <1>4 DEF h

\* Who is before one of the first n is one of them.
LEMMA FirstOfKeeps ==
  ASSUME NEW S, NEW s, Once(s, S), NEW n \in Nat, NEW d \in Range(s),
         NEW e \in Range(FirstOf(s, n)), Where(s, d) < Where(s, e)
  PROVE  d \in Range(FirstOf(s, n)) /\ Where(FirstOf(s, n), d) < Where(FirstOf(s, n), e)
<1> DEFINE k == Fewer(n, Len(s))
           h == FirstOf(s, n)
<1>1. s \in Seq(S)
  BY DEF Once
<1>2. h \in Seq(S) /\ Len(h) = k /\ k \in 0..Len(s) /\ \A i \in 1..k : h[i] = s[i]
  BY <1>1, FirstOfIs
<1>3. Once(h, S) /\ Range(h) \subseteq Range(s)
  BY FirstOfOnce
<1>4. Follows(h, Behind(s))
  BY <1>1, FollowsItself, FirstOfFollows
<1>5. Len(s) \in Nat
  BY <1>1, LenProperties
<1> HIDE DEF k, h
<1>6. PICK i \in 1..k : h[i] = e
  <2>1. DOMAIN h = 1..k
    BY <1>2, LenProperties
  <2> QED BY <2>1 DEF Range, h
<1>7. i \in 1..Len(s) /\ s[i] = e
  BY <1>2, <1>5, <1>6
<1>8. Where(s, e) = i
  BY <1>7, WhereOf
<1>9. Where(s, d) \in 1..Len(s) /\ s[Where(s, d)] = d
  BY <1>1, WhereIs
<1>10. Where(s, d) \in 1..k
  BY <1>2, <1>5, <1>6, <1>8, <1>9
<1>11. h[Where(s, d)] = d
  BY <1>2, <1>9, <1>10
<1>12. Where(s, d) \in 1..Len(h)
  BY <1>2, <1>10
<1>13. h[Where(s, d)] \in Range(h)
  BY <1>3, <1>12, WhereOf
<1>14. d \in Range(h)
  BY <1>11, <1>13
<1>15. e \in Range(h)
  BY DEF h
<1>16. Where(h, d) < Where(h, e)
  BY <1>3, <1>4, <1>14, <1>15, KeepsWhere
<1> QED BY <1>14, <1>16 DEF h

-----------------------------------------------------------------------------
\* Keyword hits.
LEMMA BmAre ==
  ASSUME NEW c \in Corpora
  PROVE  Once(c.bm, Docs)
<1>1. c.bm \in Seq(Docs) /\ IsInjective(c.bm)
  BY RetrievalAssumption DEF Corpora, Docs
<1>2. DOMAIN c.bm = 1..Len(c.bm)
  BY <1>1, LenProperties
<1> QED BY <1>1, <1>2 DEF Once, IsInjective

LEMMA BmIdsAre ==
  ASSUME NEW c \in Corpora, NEW q
  PROVE  /\ Once(BmIds(c, q), Docs) /\ Range(BmIds(c, q)) \subseteq Visible(c, q)
         /\ Range(BmIds(c, q)) \subseteq Range(c.bm)
<1> DEFINE T == {d \in Docs : OwnerTag(q) => Tagged(c.doc[d], q)}
           hits == Select(c.bm, T)
           few == FirstOf(hits, Recall)
<1>1. Once(hits, Docs) /\ Range(hits) \subseteq Range(c.bm)
  BY BmAre, SelectOnce
<1>2. Recall \in Nat
  BY RetrievalAssumption
<1>3. Once(few, Docs) /\ Range(few) \subseteq Range(hits)
  <2> HIDE DEF hits
  <2> QED BY <1>1, <1>2, FirstOfOnce
<1>4. BmIds(c, q) = Select(few, Visible(c, q))
  BY DEF BmIds
<1> HIDE DEF few
<1>5. Once(Select(few, Visible(c, q)), Docs) /\ Range(Select(few, Visible(c, q))) = Range(few) \cap Visible(c, q)
  BY <1>3, SelectOnce
<1> HIDE DEF hits
<1> QED BY <1>1, <1>3, <1>4, <1>5

\* A visible doc that is a better hit than one of them is one of them, and before it.
LEMMA BmIdsKeep ==
  ASSUME NEW c \in Corpora, NEW q, NEW d \in Visible(c, q), NEW e \in Range(BmIds(c, q)),
         d \in Range(c.bm), Where(c.bm, d) < Where(c.bm, e)
  PROVE  d \in Range(BmIds(c, q)) /\ Where(BmIds(c, q), d) < Where(BmIds(c, q), e)
<1> DEFINE T == {x \in Docs : OwnerTag(q) => Tagged(c.doc[x], q)}
           hits == Select(c.bm, T)
           few == FirstOf(hits, Recall)
<1>1. Once(c.bm, Docs) /\ Once(hits, Docs) /\ Range(hits) = Range(c.bm) \cap T
  BY BmAre, SelectOnce
<1>2. Recall \in Nat
  BY RetrievalAssumption
<1>3. BmIds(c, q) = Select(few, Visible(c, q))
  BY DEF BmIds
<1>4. d \in T
  BY DEF Visible, PassesFilters
<1> HIDE DEF hits, T
<1>5. Once(few, Docs) /\ Range(few) \subseteq Range(hits)
  BY <1>1, <1>2, FirstOfOnce
<1>6. Range(Select(few, Visible(c, q))) = Range(few) \cap Visible(c, q)
  <2> HIDE DEF few
  <2> QED BY <1>5, SelectOnce
<1>7. e \in Range(few) /\ e \in Visible(c, q)
  BY <1>3, <1>6
<1>8. d \in Range(c.bm) \cap T /\ e \in Range(c.bm) \cap T
  BY <1>1, <1>4, <1>5, <1>7
<1>9. Where(hits, d) < Where(hits, e)
  BY <1>1, <1>8, SelectKeeps DEF hits
<1>10. d \in Range(few) /\ Where(few, d) < Where(few, e)
  BY <1>1, <1>2, <1>7, <1>8, <1>9, FirstOfKeeps
<1> HIDE DEF few
<1>11. d \in Range(few) \cap Visible(c, q) /\ e \in Range(few) \cap Visible(c, q)
  BY <1>7, <1>10
<1>12. Where(Select(few, Visible(c, q)), d) < Where(Select(few, Visible(c, q)), e)
  BY <1>5, <1>10, <1>11, SelectKeeps
<1> QED BY <1>3, <1>6, <1>11, <1>12

-----------------------------------------------------------------------------
\* Ranks, scores and the order they give.
LEMMA Quotients ==
  ASSUME NEW a \in Nat, NEW m \in Nat \ {0}, NEW n \in Nat \ {0}, m <= n
  PROVE  a \div m \in Nat /\ a \div n \in Nat /\ a \div n <= a \div m
<1>1. a \div m \in Nat /\ a \div n \in Nat
  OBVIOUS
<1> QED BY <1>1

LEMMA ReciprocalIs ==
  ASSUME NEW s \in Seq(Docs), NEW d
  PROVE  Reciprocal(s, d) \in Nat
<1>1. CASE d \in Range(s)
  <2>1. Where(s, d) \in 1..Len(s) /\ Len(s) \in Nat
    BY <1>1, WhereIs, LenProperties
  <2> DEFINE w == Where(s, d)
  <2> HIDE DEF w
  <2>2. 59 + w \in Nat \ {0} /\ Scale \in Nat
    BY <2>1 DEF Scale, w
  <2>3. Scale \div (59 + w) \in Nat
    <3> DEFINE m == 59 + w
    <3>1. m \in Nat \ {0} /\ m <= m
      BY <2>2
    <3> HIDE DEF m
    <3>2. Scale \div m \in Nat
      BY <2>2, <3>1, Quotients
    <3> QED BY <3>2 DEF m
  <2> QED BY <1>1, <2>3 DEF Reciprocal, w
<1>2. CASE d \notin Range(s)
  BY <1>2 DEF Reciprocal
<1> QED BY <1>1, <1>2

LEMMA ReciprocalFalls ==
  ASSUME NEW s \in Seq(Docs), NEW d, NEW e, e \in Range(s) => d \in Range(s) /\ Where(s, d) < Where(s, e)
  PROVE  Reciprocal(s, e) <= Reciprocal(s, d)
<1>1. CASE e \notin Range(s)
  <2>1. Reciprocal(s, e) = 0
    BY <1>1 DEF Reciprocal
  <2> QED BY <2>1, ReciprocalIs
<1>2. CASE e \in Range(s)
  <2>1. d \in Range(s) /\ Where(s, d) < Where(s, e)
    BY <1>2
  <2>2. Where(s, d) \in 1..Len(s) /\ Where(s, e) \in 1..Len(s) /\ Len(s) \in Nat
    BY <1>2, <2>1, WhereIs, LenProperties
  <2> DEFINE m == 59 + Where(s, d)
             n == 59 + Where(s, e)
  <2>3. m \in Nat \ {0} /\ n \in Nat \ {0} /\ m <= n
    BY <2>1, <2>2
  <2>4. Scale \in Nat
    BY DEF Scale
  <2>5. Reciprocal(s, d) = Scale \div m /\ Reciprocal(s, e) = Scale \div n
    BY <1>2, <2>1 DEF Reciprocal
  <2> HIDE DEF m, n
  <2>6. Scale \div n <= Scale \div m
    BY <2>3, <2>4, Quotients
  <2> QED BY <2>5, <2>6
<1> QED BY <1>1, <1>2

LEMMA ArrivalIs ==
  ASSUME NEW v \in Seq(Docs), NEW b \in Seq(Docs), NEW d \in Range(v) \cup Range(b)
  PROVE  /\ Arrival(v, b, d) \in Nat
         /\ d \in Range(v) => Arrival(v, b, d) = Where(v, d) /\ Arrival(v, b, d) <= Len(v)
         /\ d \notin Range(v) => Arrival(v, b, d) = Len(v) + Where(b, d) /\ Arrival(v, b, d) > Len(v)
<1>1. Len(v) \in Nat /\ Len(b) \in Nat
  BY LenProperties
<1>2. CASE d \in Range(v)
  <2>1. Where(v, d) \in 1..Len(v)
    BY <1>2, WhereIs
  <2> QED BY <1>1, <1>2, <2>1 DEF Arrival
<1>3. CASE d \notin Range(v)
  <2>1. Where(b, d) \in 1..Len(b)
    BY <1>3, WhereIs
  <2> QED BY <1>1, <1>3, <2>1 DEF Arrival
<1> QED BY <1>2, <1>3

LEMMA ArrivalsDiffer ==
  ASSUME NEW v \in Seq(Docs), NEW b \in Seq(Docs),
         NEW d \in Range(v) \cup Range(b), NEW e \in Range(v) \cup Range(b),
         Arrival(v, b, d) = Arrival(v, b, e)
  PROVE  d = e
<1>1. Len(v) \in Nat /\ Len(b) \in Nat
  BY LenProperties
<1>2. /\ d \in Range(v) => Where(v, d) \in 1..Len(v) /\ v[Where(v, d)] = d
      /\ e \in Range(v) => Where(v, e) \in 1..Len(v) /\ v[Where(v, e)] = e
  BY WhereIs
<1>3. /\ d \notin Range(v) => Where(b, d) \in 1..Len(b) /\ b[Where(b, d)] = d
      /\ e \notin Range(v) => Where(b, e) \in 1..Len(b) /\ b[Where(b, e)] = e
  BY WhereIs
<1> DEFINE dv == Where(v, d)
           ev == Where(v, e)
           db == Where(b, d)
           eb == Where(b, e)
<1>4. CASE d \in Range(v) /\ e \in Range(v)
  BY <1>2, <1>4 DEF Arrival
<1>5. CASE d \notin Range(v) /\ e \notin Range(v)
  <2>1. Len(v) + db = Len(v) + eb
    BY <1>5 DEF Arrival
  <2>2. db = eb
    <3>1. db \in Int /\ eb \in Int
      BY <1>3, <1>5
    <3> HIDE DEF db, eb
    <3> QED BY <1>1, <2>1, <3>1
  <2> QED BY <1>3, <1>5, <2>2
<1>6. CASE (d \in Range(v) /\ e \notin Range(v)) \/ (d \notin Range(v) /\ e \in Range(v))
  <2>1. Arrival(v, b, d) \in Nat /\ Arrival(v, b, e) \in Nat
    BY ArrivalIs
  <2>2. (Arrival(v, b, d) <= Len(v) /\ Arrival(v, b, e) > Len(v)) \/
        (Arrival(v, b, d) > Len(v) /\ Arrival(v, b, e) <= Len(v))
    BY <1>6, ArrivalIs
  <2> QED BY <1>1, <2>1, <2>2
<1> QED BY <1>4, <1>5, <1>6

Outranks(value, v, b) ==
  {p \in Docs \X Docs :
      \/ value[p[1]] > value[p[2]]
      \/ value[p[1]] = value[p[2]] /\ Arrival(v, b, p[1]) < Arrival(v, b, p[2])}

LEMMA RankedIs ==
  ASSUME NEW v \in Seq(Docs), NEW b \in Seq(Docs), NEW value,
         DOMAIN value = Range(v) \cup Range(b), \A d \in DOMAIN value : value[d] \in Int
  PROVE  /\ Ranks(DOMAIN value, Outranks(value, v, b))
         /\ Once(Ranked(value, v, b), Docs) /\ Range(Ranked(value, v, b)) = DOMAIN value
         /\ Follows(Ranked(value, v, b), Outranks(value, v, b))
<1> DEFINE S == DOMAIN value
           before == Outranks(value, v, b)
<1>1. S \in SUBSET Docs
  <2>1. \A i \in 1..Len(v) : v[i] \in Docs
    BY ElementOfSeq
  <2>2. \A i \in 1..Len(b) : b[i] \in Docs
    BY ElementOfSeq
  <2>3. DOMAIN v = 1..Len(v) /\ DOMAIN b = 1..Len(b)
    BY LenProperties
  <2> QED BY <2>1, <2>2, <2>3 DEF Range
<1>2. IsFiniteSet(S)
  BY <1>1, ByDistanceIs
<1>3. \A d \in S : Arrival(v, b, d) \in Nat
  BY ArrivalIs
<1>4. \A d, e \in S : Arrival(v, b, d) = Arrival(v, b, e) => d = e
  BY ArrivalsDiffer
<1>5. \A d, e \in S : <<d, e>> \in before <=>
         value[d] > value[e] \/ (value[d] = value[e] /\ Arrival(v, b, d) < Arrival(v, b, e))
  BY <1>1 DEF Outranks
<1> HIDE DEF before, S
<1>6. Ranks(S, before)
  <2>1. \A d \in S : value[d] \in Int
    BY DEF S
  <2>2. \A d \in S : <<d, d>> \notin before
    BY <1>3, <1>5, <2>1
  <2>3. ASSUME NEW d \in S, NEW e \in S, d # e PROVE <<d, e>> \in before \/ <<e, d>> \in before
    <3>1. Arrival(v, b, d) # Arrival(v, b, e)
      BY <1>4, <2>3
    <3> QED BY <1>3, <1>5, <2>1, <3>1
  <2>4. ASSUME NEW d \in S, NEW e \in S, NEW x \in S, <<d, e>> \in before, <<e, x>> \in before
        PROVE  <<d, x>> \in before
    <3> DEFINE at(y) == Arrival(v, b, y)
    <3>1. /\ value[d] \in Int /\ value[e] \in Int /\ value[x] \in Int
          /\ at(d) \in Nat /\ at(e) \in Nat /\ at(x) \in Nat
      BY <1>3, <2>1
    <3>2. value[d] > value[e] \/ (value[d] = value[e] /\ at(d) < at(e))
      BY <1>5, <2>4
    <3>3. value[e] > value[x] \/ (value[e] = value[x] /\ at(e) < at(x))
      BY <1>5, <2>4
    <3> HIDE DEF at
    <3>4. value[d] > value[x] \/ (value[d] = value[x] /\ at(d) < at(x))
      BY <3>1, <3>2, <3>3
    <3> QED BY <1>5, <3>4 DEF at
  <2> QED BY <1>2, <2>2, <2>3, <2>4 DEF Ranks
<1>7. Ranked(value, v, b) = Arranged(S, before)
  BY DEF Ranked, S, before, Outranks
<1>8. Lists(Arranged(S, before), S) /\ Follows(Arranged(S, before), before)
  BY <1>6, ArrangedIs
<1>9. Arranged(S, before) \in Seq(Docs)
  BY <1>1, <1>8, SeqMonotonic DEF Lists, Once
<1>10. Once(Arranged(S, before), Docs) /\ Range(Arranged(S, before)) = S
  BY <1>8, <1>9 DEF Lists, Once
<1> QED BY <1>6, <1>7, <1>8, <1>10 DEF S, before

\* What both signals put first is put first.
LEMMA AgreedRanks ==
  ASSUME NEW v, Once(v, Docs), Follows(v, Rising(Docs)), NEW b, Once(b, Docs),
         NEW d \in Range(v) \cup Range(b), NEW e \in Range(v) \cup Range(b), d < e,
         e \in Range(v) => d \in Range(v),
         e \in Range(b) => d \in Range(b) /\ Where(b, d) < Where(b, e)
  PROVE  /\ Fusion(v, b, d) \in Nat /\ Fusion(v, b, e) \in Nat
         /\ Fusion(v, b, e) <= Fusion(v, b, d) /\ Arrival(v, b, d) < Arrival(v, b, e)
<1>1. v \in Seq(Docs) /\ b \in Seq(Docs)
  BY DEF Once
<1>2. e \in Range(v) => Where(v, d) < Where(v, e)
  <2> SUFFICES ASSUME e \in Range(v) PROVE Where(v, d) < Where(v, e)
    OBVIOUS
  <2> DEFINE i == Where(v, d)
             j == Where(v, e)
  <2>1. i \in 1..Len(v) /\ v[i] = d /\ j \in 1..Len(v) /\ v[j] = e
    BY <1>1, WhereIs
  <2>2. d \in Int /\ e \in Int
    <3>1. v[i] \in Docs /\ v[j] \in Docs
      BY <1>1, <2>1, ElementOfSeq
    <3> QED BY <2>1, <3>1, DocsAre
  <2>3. d # e /\ <<e, d>> \notin Rising(Docs)
    BY <2>2 DEF Rising
  <2> HIDE DEF i, j
  <2>4. i < j
    BY <2>1, <2>3, LesserFirst
  <2> QED BY <2>4 DEF i, j
<1>3. Reciprocal(v, e) <= Reciprocal(v, d) /\ Reciprocal(b, e) <= Reciprocal(b, d)
  BY <1>1, <1>2, ReciprocalFalls
<1>4. /\ Reciprocal(v, e) \in Nat /\ Reciprocal(v, d) \in Nat
      /\ Reciprocal(b, e) \in Nat /\ Reciprocal(b, d) \in Nat
  BY <1>1, ReciprocalIs
<1>5. Fusion(v, b, d) \in Nat /\ Fusion(v, b, e) \in Nat /\ Fusion(v, b, e) <= Fusion(v, b, d)
  BY <1>3, <1>4 DEF Fusion
<1>6. Arrival(v, b, d) < Arrival(v, b, e)
  <2>1. Len(v) \in Nat /\ Arrival(v, b, d) \in Nat /\ Arrival(v, b, e) \in Nat
    BY <1>1, ArrivalIs, LenProperties
  <2>2. CASE e \in Range(v)
    BY <1>1, <1>2, <2>2, ArrivalIs
  <2>3. CASE e \notin Range(v) /\ d \in Range(v)
    <3>1. Arrival(v, b, d) <= Len(v) /\ Arrival(v, b, e) > Len(v)
      BY <1>1, <2>3, ArrivalIs
    <3> QED BY <2>1, <3>1
  <2>4. CASE e \notin Range(v) /\ d \notin Range(v)
    <3>1. Arrival(v, b, d) = Len(v) + Where(b, d) /\ Arrival(v, b, e) = Len(v) + Where(b, e)
      BY <1>1, <2>4, ArrivalIs
    <3>2. e \in Range(b) /\ Where(b, d) < Where(b, e)
      BY <2>4
    <3>3. Where(b, d) \in Int /\ Where(b, e) \in Int
      BY <1>1, <3>2, WhereIs
    <3> QED BY <2>1, <3>1, <3>2, <3>3
  <2> QED BY <2>2, <2>3, <2>4
<1> QED BY <1>5, <1>6

-----------------------------------------------------------------------------
\* What a search of docs finds.
LEMMA WeightIs ==
  ASSUME NEW c \in Corpora, NEW d \in Docs
  PROVE  StatusWeight[c.doc[d].status] \in Nat
<1>1. c.doc[d].status \in DOMAIN StatusWeight
  BY RetrievalAssumption DEF Corpora
<1> QED BY <1>1 DEF StatusWeight

LEMMA Products ==
  ASSUME NEW x \in Nat, NEW y \in Nat, NEW w \in Nat, x <= y
  PROVE  x * w \in Nat /\ y * w \in Nat /\ x * w <= y * w
OBVIOUS

Scores(c, v, b) == [d \in Range(v) \cup Range(b) |-> Score(c, v, b, d)]

LEMMA RangeOfDocs ==
  ASSUME NEW s \in Seq(Docs)
  PROVE  Range(s) \subseteq Docs
<1>1. DOMAIN s = 1..Len(s) /\ \A i \in 1..Len(s) : s[i] \in Docs
  BY LenProperties, ElementOfSeq
<1> QED BY <1>1 DEF Range

LEMMA ScoresAre ==
  ASSUME NEW c \in Corpora, NEW v \in Seq(Docs), NEW b \in Seq(Docs)
  PROVE  /\ DOMAIN Scores(c, v, b) = Range(v) \cup Range(b)
         /\ \A d \in Range(v) \cup Range(b) : Scores(c, v, b)[d] = Score(c, v, b, d) /\ Scores(c, v, b)[d] \in Int
<1>1. ASSUME NEW d \in Range(v) \cup Range(b) PROVE Score(c, v, b, d) \in Int
  <2>1. Reciprocal(v, d) \in Nat /\ Reciprocal(b, d) \in Nat
    BY ReciprocalIs
  <2>2. d \in Docs
    BY RangeOfDocs
  <2>3. StatusWeight[c.doc[d].status] \in Nat
    BY <2>2, WeightIs
  <2> DEFINE f == Fusion(v, b, d)
             w == StatusWeight[c.doc[d].status]
  <2>4. f \in Nat /\ w \in Nat /\ f <= f
    BY <2>1, <2>3 DEF Fusion
  <2> HIDE DEF f, w
  <2>5. f * w \in Nat
    BY <2>4, Products
  <2> QED BY <2>5 DEF Score, f, w
<1> QED BY <1>1 DEF Scores

LEMMA SearchIs ==
  ASSUME NEW c \in Corpora, NEW q
  PROVE  LET v == VectorRows(c, q)
             b == BmIds(c, q)
             s == FirstOf(Search(c, q), Wide)
         IN  /\ Once(s, Docs) /\ Range(s) \subseteq Visible(c, q)
             /\ Range(s) \subseteq Range(v) \cup Range(b)
             /\ Follows(s, Outranks(Scores(c, v, b), v, b))
<1> DEFINE v == VectorRows(c, q)
           b == BmIds(c, q)
           r == Search(c, q)
           value == Scores(c, v, b)
<1>1. Once(v, Docs) /\ Range(v) \subseteq Visible(c, q)
  BY VectorRowsAre
<1>2. Once(b, Docs) /\ Range(b) \subseteq Visible(c, q)
  BY BmIdsAre
<1>3. v \in Seq(Docs) /\ b \in Seq(Docs)
  BY <1>1, <1>2 DEF Once
<1>4. r = Ranked(value, v, b)
  BY DEF Search, Scores
<1> HIDE DEF v, b, r
<1>5. DOMAIN value = Range(v) \cup Range(b) /\ \A d \in DOMAIN value : value[d] \in Int
  BY <1>3, ScoresAre
<1>6. /\ Once(r, Docs) /\ Range(r) = Range(v) \cup Range(b)
      /\ Follows(r, Outranks(value, v, b))
  <2> HIDE DEF value
  <2> QED BY <1>3, <1>4, <1>5, RankedIs, ZenonT(60)
<1>7. Wide \in Nat
  BY RetrievalAssumption
<1>8. Once(FirstOf(r, Wide), Docs) /\ Range(FirstOf(r, Wide)) \subseteq Range(r)
  BY <1>6, <1>7, FirstOfOnce
<1>9. Follows(FirstOf(r, Wide), Outranks(value, v, b))
  <2>1. r \in Seq(Docs)
    BY <1>6 DEF Once
  <2> HIDE DEF value
  <2> QED BY <1>6, <1>7, <2>1, FirstOfFollows
<1> QED BY <1>1, <1>2, <1>6, <1>8, <1>9 DEF v, b, r

LEMMA SearchOrder ==
  ASSUME NEW c \in Corpora, NEW q, FlatIn(c) \/ OwnerTag(q),
         NEW s, s = FirstOf(Search(c, q), Wide), NEW i \in 1..Len(s), NEW j \in 1..Len(s),
         s[i] < s[j], c.doc[s[i]].status = c.doc[s[j]].status,
         s[j] \in Range(VectorRows(c, q)) => s[i] \in Range(VectorRows(c, q)),
         s[j] \in Range(c.bm) => s[i] \in Range(c.bm) /\ Where(c.bm, s[i]) < Where(c.bm, s[j])
  PROVE  i < j
<1> DEFINE v == VectorRows(c, q)
           b == BmIds(c, q)
           value == Scores(c, v, b)
           d == s[i]
           e == s[j]
<1>1. /\ Once(s, Docs) /\ Range(s) \subseteq Visible(c, q)
      /\ Range(s) \subseteq Range(v) \cup Range(b) /\ Follows(s, Outranks(value, v, b))
  BY SearchIs
<1>2. Once(v, Docs) /\ Follows(v, Rising(Docs))
  BY VectorRowsAre
<1>3. Once(b, Docs) /\ Range(b) \subseteq Range(c.bm)
  BY BmIdsAre
<1>4. d \in Range(s) /\ e \in Range(s)
  BY <1>1, WhereOf
<1>5. d \in Docs /\ e \in Docs /\ d \in Visible(c, q)
  BY <1>1, <1>4 DEF Visible
<1>6. e \in Range(b) => d \in Range(b) /\ Where(b, d) < Where(b, e)
  BY <1>3, <1>5, BmIdsKeep
<1>7. v \in Seq(Docs) /\ b \in Seq(Docs)
  BY <1>2, <1>3 DEF Once
<1>8. d \in Range(v) \cup Range(b) /\ e \in Range(v) \cup Range(b)
  BY <1>1, <1>4
<1>9. d < e /\ (e \in Range(v) => d \in Range(v)) /\ c.doc[d].status = c.doc[e].status
  OBVIOUS
<1> HIDE DEF v, b, d, e
<1>10. /\ Fusion(v, b, d) \in Nat /\ Fusion(v, b, e) \in Nat
       /\ Fusion(v, b, e) <= Fusion(v, b, d) /\ Arrival(v, b, d) < Arrival(v, b, e)
  BY <1>2, <1>3, <1>6, <1>8, <1>9, AgreedRanks
<1>11. value[e] <= value[d] /\ value[e] \in Int /\ value[d] \in Int
  <2> DEFINE w == StatusWeight[c.doc[d].status]
             x == Fusion(v, b, e)
             y == Fusion(v, b, d)
  <2>1. w \in Nat
    BY <1>5, WeightIs
  <2>2. /\ value[d] = Score(c, v, b, d) /\ value[e] = Score(c, v, b, e)
        /\ value[d] \in Int /\ value[e] \in Int
    BY <1>7, <1>8, ScoresAre
  <2>3. value[d] = y * w /\ value[e] = x * w
    BY <1>9, <2>2 DEF Score
  <2>4. x \in Nat /\ y \in Nat /\ x <= y
    BY <1>10
  <2> HIDE DEF w, x, y, value
  <2>5. x * w <= y * w
    BY <2>1, <2>4, Products
  <2> QED BY <2>2, <2>3, <2>5
<1>12. Arrival(v, b, d) \in Nat /\ Arrival(v, b, e) \in Nat
  BY <1>7, <1>8, ArrivalIs
<1> HIDE DEF value
<1>13. <<e, d>> \notin Outranks(value, v, b)
  BY <1>10, <1>11, <1>12 DEF Outranks
<1>14. d # e
  BY <1>5, <1>9, DocsAre
<1> QED BY <1>1, <1>13, <1>14, LesserFirst DEF d, e

-----------------------------------------------------------------------------
\* What a dense search finds, and the static one.
LEMMA DenseSearchIs ==
  ASSUME NEW c \in Corpora, NEW q
  PROVE  Once(DenseSearch(c, q), Docs) /\ Range(DenseSearch(c, q)) \subseteq Visible(c, q)
<1> DEFINE v == VectorRows(c, q)
           value == [d \in Range(v) |-> DenseScore(c, d)]
           r == Ranked(value, v, << >>)
<1>1. Once(v, Docs) /\ Range(v) \subseteq Visible(c, q)
  BY VectorRowsAre
<1>2. v \in Seq(Docs) /\ << >> \in Seq(Docs)
  BY <1>1, EmptySeq DEF Once
<1>3. Range(<< >>) = {}
  <2>1. DOMAIN << >> = {}
    BY <1>2, EmptySeq, LenProperties
  <2> QED BY <2>1 DEF Range
<1>4. \A d \in Range(v) : DenseScore(c, d) \in Int
  <2> SUFFICES ASSUME NEW d \in Range(v) PROVE DenseScore(c, d) \in Int
    OBVIOUS
  <2>1. d \in Docs
    BY <1>2, RangeOfDocs
  <2> DEFINE f == Similarity(d)
             w == StatusWeight[c.doc[d].status]
  <2>2. f \in Nat /\ f <= f
    BY <2>1, RetrievalAssumption DEF Similarity, Docs
  <2>3. w \in Nat
    BY <2>1, WeightIs
  <2> HIDE DEF f, w
  <2>4. f * w \in Nat
    BY <2>2, <2>3, Products
  <2> QED BY <2>4 DEF DenseScore, f, w
<1>5. DOMAIN value = Range(v) \cup Range(<< >>) /\ \A d \in DOMAIN value : value[d] \in Int
  BY <1>3, <1>4
<1>6. DenseSearch(c, q) = FirstOf(r, Wide)
  BY DEF DenseSearch
<1> HIDE DEF v, value
<1>7. Once(r, Docs) /\ Range(r) = DOMAIN value
  BY <1>2, <1>5, RankedIs, ZenonT(60)
<1>8. Wide \in Nat
  BY RetrievalAssumption
<1> HIDE DEF r
<1>9. Once(FirstOf(r, Wide), Docs) /\ Range(FirstOf(r, Wide)) \subseteq Range(r)
  BY <1>7, <1>8, FirstOfOnce
<1> QED BY <1>1, <1>3, <1>5, <1>6, <1>7, <1>9 DEF v

LEMMA BootPackIs ==
  ASSUME NEW c \in Corpora, NEW q, NEW floor
  PROVE  Once(BootPack(c, q, floor), Docs) /\ Range(BootPack(c, q, floor)) \subseteq Visible(c, q)
<1>1. Once(DenseSearch(c, q), Docs) /\ Range(DenseSearch(c, q)) \subseteq Visible(c, q)
  BY DenseSearchIs
<1> DEFINE s == DenseSearch(c, q)
           T == {d \in Docs : DenseScore(c, d) >= floor}
<1>2. BootPack(c, q, floor) = Select(s, T)
  BY DEF BootPack
<1> HIDE DEF s, T
<1>3. Once(s, Docs) /\ Range(s) \subseteq Visible(c, q)
  BY <1>1 DEF s
<1>4. Once(Select(s, T), Docs) /\ Range(Select(s, T)) = Range(s) \cap T
  BY <1>3, SelectOnce
<1> QED BY <1>2, <1>3, <1>4

LEMMA StaticPackIs ==
  ASSUME NEW c \in Corpora, NEW owner, NEW floor
  PROVE  LET q == BootQuestion(owner) IN
         Once(StaticPack(c, q, floor), Docs) /\ Range(StaticPack(c, q, floor)) \subseteq Visible(c, q)
<1> DEFINE q == BootQuestion(owner)
           pool == {d \in Docs : LET p == c.doc[d] IN
                      /\ p.source = "trovex" /\ Lifecycled(p, q) /\ p.status # "duplicate"
                      /\ p.owners = q.tags}
           s == FirstOf(ByDistance(pool), Wide)
           T == {d \in Docs : Similarity(d) * 100 >= floor}
<1>1. q.scope = "trovex" /\ q.tags = {owner}
  BY DEF BootQuestion
<1>2. pool \in SUBSET Docs /\ Wide \in Nat
  BY RetrievalAssumption
<1>3. pool \subseteq Visible(c, q)
  BY <1>1 DEF Visible, PassesFilters, InScope, Tagged
<1>4. StaticPack(c, q, floor) = Select(s, T)
  BY DEF StaticPack, StaticRows
<1> HIDE DEF q, pool, T
<1>5. Once(s, Docs) /\ Range(s) \subseteq pool
  BY <1>2, NearestAre
<1> HIDE DEF s
<1>6. Once(Select(s, T), Docs) /\ Range(Select(s, T)) = Range(s) \cap T
  BY <1>5, SelectOnce
<1> QED BY <1>3, <1>4, <1>5, <1>6 DEF q

-----------------------------------------------------------------------------
\* What a search of passages finds.
Turn(c, d) == Where(SetToSeq(Sources(c)), c.doc[d].source)
TurnOrder(c) ==
  {p \in Docs \X Docs :
      Turn(c, p[1]) < Turn(c, p[2]) \/ (Turn(c, p[1]) = Turn(c, p[2]) /\ p[1] < p[2])}

LEMMA TurnIs ==
  ASSUME NEW c, NEW d \in Docs
  PROVE  Turn(c, d) \in Int
<1> DEFINE S == Sources(c)
           s == SetToSeq(S)
           n == Cardinality(S)
<1>1. IsFiniteSet(S)
  BY PartitionsAre
<1>2. c.doc[d].source \in S
  BY DEF Sources
<1>3. s = CHOOSE f \in [1..n -> S] : IsInjective(f)
  BY DEF SetToSeq
<1> HIDE DEF S
<1>4. n \in Nat /\ ExistsBijection(1..n, S)
  BY <1>1, FS_CardinalityType
<1>5. PICK f : f \in [1..n -> S] /\ f \in Injection(1..n, S) /\ f \in Surjection(1..n, S)
  BY <1>4 DEF ExistsBijection, Bijection, Injection
<1>6. IsInjective(f)
  BY <1>5 DEF Injection
<1> HIDE DEF s
<1>7. s \in [1..n -> S] /\ IsInjective(s)
  BY <1>3, <1>5, <1>6
<1>8. s \in Injection(1..n, S)
  BY <1>7 DEF Injection
<1>9. Cardinality(1..n) = n
  <2> HIDE DEF n
  <2>1. Cardinality(1..n) = IF 1 > n THEN 0 ELSE n - 1 + 1
    BY <1>4, FS_Interval
  <2> QED BY <1>4, <2>1
<1>10. s \in Surjection(1..n, S)
  BY <1>1, <1>8, <1>9, FS_Injection
<1>11. \E i \in DOMAIN s : s[i] = c.doc[d].source
  BY <1>2, <1>7, <1>10 DEF Surjection
<1>12. Where(s, c.doc[d].source) \in DOMAIN s
  BY <1>11 DEF Where
<1>13. DOMAIN s \subseteq Int
  <2>1. DOMAIN s = 1..n
    BY <1>7
  <2> QED BY <2>1
<1> QED BY <1>12, <1>13 DEF Turn, S, s

LEMMA ChunkKnnIs ==
  ASSUME NEW c, NEW q, NEW src
  PROVE  /\ ChunkKnn(c, q, src) =
               IF src \in c.flagged /\ q.tags # {} THEN ByDistance(ChunkPool(c, q, src))
               ELSE FirstOf(ByDistance(ChunkPool(c, q, src)), ChunkK(q))
         /\ ChunkPool(c, q, src) \in SUBSET Docs /\ ChunkK(q) \in Nat
         /\ Range(ChunkKnn(c, q, src)) \subseteq ChunkPool(c, q, src)
<1> DEFINE pool == ChunkPool(c, q, src)
<1>1. ChunkKnn(c, q, src) = IF src \in c.flagged /\ q.tags # {} THEN ByDistance(pool)
                            ELSE FirstOf(ByDistance(pool), ChunkK(q))
  BY DEF ChunkKnn
<1>2. pool \in SUBSET Docs
  BY DEF ChunkPool
<1>3. ChunkK(q) \in Nat
  BY RetrievalAssumption DEF ChunkK
<1> HIDE DEF pool
<1>4. Range(ByDistance(pool)) = pool
  BY <1>2, ByDistanceIs
<1>5. Range(FirstOf(ByDistance(pool), ChunkK(q))) \subseteq pool
  BY <1>2, <1>3, NearestAre
<1>6. Range(ChunkKnn(c, q, src)) \subseteq pool
  BY <1>1, <1>4, <1>5
<1> QED BY <1>1, <1>2, <1>3, <1>6 DEF pool

LEMMA ChunkRowsAre ==
  ASSUME NEW c, NEW q
  PROVE  /\ Once(ChunkRows(c, q), Docs)
         /\ Range(ChunkRows(c, q)) = UNION {Range(ChunkKnn(c, q, src)) : src \in Partitions(c, q)}
         /\ q.scope # "*" => Follows(ChunkRows(c, q), Rising(Docs))
<1> DEFINE U == UNION {Range(ChunkKnn(c, q, src)) : src \in Partitions(c, q)}
<1>1. ChunkRows(c, q) = Arranged(U, TurnOrder(c))
  BY DEF ChunkRows, TurnOrder, Turn
<1>2. U \in SUBSET Docs
  <2>1. \A src \in Partitions(c, q) : Range(ChunkKnn(c, q, src)) \subseteq Docs
    BY ChunkKnnIs
  <2> QED BY <2>1
<1>3. q.scope # "*" => \A d \in U : c.doc[d].source = q.scope
  <2> SUFFICES ASSUME q.scope # "*" PROVE \A d \in U : c.doc[d].source = q.scope
    OBVIOUS
  <2>1. Partitions(c, q) = {q.scope}
    BY DEF Partitions
  <2>2. Range(ChunkKnn(c, q, q.scope)) \subseteq ChunkPool(c, q, q.scope)
    BY ChunkKnnIs
  <2> QED BY <2>1, <2>2 DEF ChunkPool
<1> HIDE DEF U
<1>4. IsFiniteSet(U)
  BY <1>2, ByDistanceIs
<1>5. U \subseteq Int /\ \A d \in U : Turn(c, d) \in Int
  BY <1>2, DocsAre, TurnIs
<1>6. Ranks(U, TurnOrder(c))
  <2>1. \A d, e \in U : <<d, e>> \in TurnOrder(c) <=>
           Turn(c, d) < Turn(c, e) \/ (Turn(c, d) = Turn(c, e) /\ d < e)
    BY <1>2 DEF TurnOrder
  <2>2. \A d \in U : <<d, d>> \notin TurnOrder(c)
    BY <1>5, <2>1
  <2>3. \A d, e \in U : d # e => <<d, e>> \in TurnOrder(c) \/ <<e, d>> \in TurnOrder(c)
    BY <1>5, <2>1
  <2>4. ASSUME NEW d \in U, NEW e \in U, NEW x \in U,
               <<d, e>> \in TurnOrder(c), <<e, x>> \in TurnOrder(c)
        PROVE  <<d, x>> \in TurnOrder(c)
    <3> DEFINE at(y) == Turn(c, y)
    <3>1. /\ d \in Int /\ e \in Int /\ x \in Int
          /\ at(d) \in Int /\ at(e) \in Int /\ at(x) \in Int
      BY <1>5
    <3>2. at(d) < at(e) \/ (at(d) = at(e) /\ d < e)
      BY <2>1, <2>4
    <3>3. at(e) < at(x) \/ (at(e) = at(x) /\ e < x)
      BY <2>1, <2>4
    <3> HIDE DEF at
    <3>4. at(d) < at(x) \/ (at(d) = at(x) /\ d < x)
      BY <3>1, <3>2, <3>3
    <3> QED BY <2>1, <3>4 DEF at
  <2> QED BY <1>4, <2>2, <2>3, <2>4 DEF Ranks
<1> DEFINE s == Arranged(U, TurnOrder(c))
<1>7. Lists(s, U) /\ Follows(s, TurnOrder(c))
  BY <1>6, ArrangedIs
<1> HIDE DEF s
<1>8. s \in Seq(U) /\ Range(s) = U
  BY <1>7 DEF Lists, Once
<1>9. s \in Seq(Docs)
  BY <1>2, <1>8, SeqMonotonic
<1>10. Once(s, Docs)
  BY <1>7, <1>9 DEF Lists, Once
<1>11. q.scope # "*" => Follows(s, Rising(Docs))
  <2> SUFFICES ASSUME q.scope # "*", NEW i \in 1..Len(s), NEW j \in 1..Len(s), i < j
               PROVE  <<s[i], s[j]>> \in Rising(Docs)
    BY DEF Follows
  <2>1. s[i] \in U /\ s[j] \in U
    BY <1>8, ElementOfSeq
  <2>2. <<s[i], s[j]>> \in TurnOrder(c)
    BY <1>7 DEF Follows
  <2>3. Turn(c, s[i]) = Turn(c, s[j])
    BY <1>3, <2>1 DEF Turn
  <2>4. Turn(c, s[i]) \in Int
    BY <1>5, <2>1
  <2>5. s[i] < s[j]
    BY <2>2, <2>3, <2>4 DEF TurnOrder
  <2> QED BY <1>2, <2>1, <2>5 DEF Rising
<1> QED BY <1>1, <1>8, <1>10, <1>11 DEF U, s

LEMMA ChunkRowsRecall ==
  ASSUME NEW c \in Corpora, NEW q, NEW d \in Wanted(c, q, TRUE),
         ~Squeezed(c, q, TRUE, d), FlatIn(c) \/ q.tags # {}
  PROVE  d \in Range(ChunkRows(c, q))
<1> DEFINE src == c.doc[d].source
           pool == ChunkPool(c, q, src)
<1>1. /\ d \in Docs /\ src \in Partitions(c, q) /\ src \in Sources(c)
      /\ Lifecycled(c.doc[d], q) /\ c.doc[d].status # "duplicate"
  <2>1. d \in Visible(c, q)
    BY DEF Wanted, Shown
  <2> QED BY <2>1, PartitionOfVisible DEF Visible, PassesFilters
<1>2. d \in pool /\ \A e \in pool : c.doc[e].source = src
  BY <1>1 DEF ChunkPool
<1>3. /\ ChunkKnn(c, q, src) = IF src \in c.flagged /\ q.tags # {} THEN ByDistance(pool)
                               ELSE FirstOf(ByDistance(pool), ChunkK(q))
      /\ pool \in SUBSET Docs /\ ChunkK(q) \in Nat
  BY ChunkKnnIs
<1>4. d \in Range(ChunkKnn(c, q, src))
  <2>1. CASE src \in c.flagged
    <3>1. q.tags # {}
      BY <1>1, <2>1 DEF FlatIn
    <3> HIDE DEF pool
    <3>2. Range(ByDistance(pool)) = pool
      BY <1>3, ByDistanceIs
    <3> QED BY <1>2, <1>3, <2>1, <3>1, <3>2
  <2>2. CASE src \notin c.flagged
    <3>1. \/ NearerOf(c, d, pool) \subseteq Shown(c, q, TRUE)
          \/ ~(Cardinality(NearerOf(c, d, pool)) >= ChunkK(q))
      BY <2>2 DEF Squeezed
    <3> HIDE DEF pool
    <3>2. NearerOf(c, d, pool) \in SUBSET Docs
      BY <1>3 DEF NearerOf
    <3>3. IsFiniteSet(NearerOf(c, d, pool))
      BY <3>2, ByDistanceIs
    <3>4. Cardinality(NearerOf(c, d, pool)) \in Nat
      BY <3>3, FS_CardinalityType
    <3>5. Limit <= ChunkK(q)
      BY RetrievalAssumption DEF ChunkK
    <3> DEFINE n == Cardinality(NearerOf(c, d, pool))
    <3> HIDE DEF n
    <3>6. ~(n >= ChunkK(q)) => n < ChunkK(q)
      BY <1>3, <3>4 DEF n
    <3>7. \/ Cardinality(NearerOf(c, d, pool)) < ChunkK(q)
          \/ NearerOf(c, d, pool) \subseteq Shown(c, q, TRUE)
      BY <3>1, <3>6 DEF n
    <3>8. d \in Range(FirstOf(ByDistance(pool), ChunkK(q)))
      BY <1>2, <1>3, <3>5, <3>7, NotSqueezed
    <3> QED BY <1>3, <2>2, <3>8
  <2> QED BY <2>1, <2>2
<1> QED BY <1>1, <1>4, ChunkRowsAre

\* The ranking of search_chunks, before it is filtered.
ChunkHits(c, q) == FirstOf(c.bm, ChunkK(q))
Fusions(v, b) == [d \in Range(v) \cup Range(b) |-> Fusion(v, b, d)]

LEMMA SearchChunksIs ==
  ASSUME NEW c \in Corpora, NEW q
  PROVE  LET v == ChunkRows(c, q)
             b == ChunkHits(c, q)
             s == SearchChunks(c, q)
         IN  /\ Once(s, Docs) /\ Len(s) <= Limit
             /\ Range(s) \subseteq {d \in Docs : ChunkPasses(c, q, d)}
             /\ Range(s) \subseteq Range(v) \cup Range(b)
             /\ Once(v, Docs) /\ Once(b, Docs)
             /\ Follows(s, Outranks(Fusions(v, b), v, b))
<1> DEFINE v == ChunkRows(c, q)
           b == ChunkHits(c, q)
           value == Fusions(v, b)
           r == Ranked(value, v, b)
           T == {d \in Docs : ChunkPasses(c, q, d)}
           h == Select(r, T)
<1>1. Once(v, Docs)
  BY ChunkRowsAre
<1>2. Once(b, Docs)
  <2> DEFINE n == ChunkK(q)
  <2>1. n \in Nat
    BY RetrievalAssumption DEF ChunkK
  <2> HIDE DEF n
  <2>2. Once(FirstOf(c.bm, n), Docs)
    BY <2>1, BmAre, FirstOfOnce
  <2> QED BY <2>2 DEF ChunkHits, n
<1>3. SearchChunks(c, q) = FirstOf(h, Limit)
  BY DEF SearchChunks, ChunkHits, Fusions
<1>4. v \in Seq(Docs) /\ b \in Seq(Docs)
  BY <1>1, <1>2 DEF Once
<1> HIDE DEF v, b, T
<1>5. DOMAIN value = Range(v) \cup Range(b) /\ \A d \in DOMAIN value : value[d] \in Int
  <2>1. ASSUME NEW d PROVE Fusion(v, b, d) \in Int
    <3>1. Reciprocal(v, d) \in Nat /\ Reciprocal(b, d) \in Nat
      BY <1>4, ReciprocalIs
    <3> QED BY <3>1 DEF Fusion
  <2> QED BY <2>1 DEF Fusions
<1> HIDE DEF value
<1>6. /\ Once(r, Docs) /\ Range(r) = Range(v) \cup Range(b)
      /\ Follows(r, Outranks(value, v, b))
  BY <1>4, <1>5, RankedIs
<1>7. r \in Seq(Docs)
  BY <1>6 DEF Once
<1> HIDE DEF r
<1>8. Once(h, Docs) /\ Range(h) = Range(r) \cap T /\ Follows(h, Outranks(value, v, b))
  BY <1>6, <1>7, SelectOnce, SelectFollows
<1>9. h \in Seq(Docs) /\ Limit \in Nat
  BY <1>8, RetrievalAssumption DEF Once
<1> HIDE DEF h
<1>10. Once(FirstOf(h, Limit), Docs) /\ Range(FirstOf(h, Limit)) \subseteq Range(h)
  BY <1>8, <1>9, FirstOfOnce
<1>11. Follows(FirstOf(h, Limit), Outranks(value, v, b))
  BY <1>8, <1>9, FirstOfFollows
<1>12. Len(FirstOf(h, Limit)) <= Limit
  <2>1. Len(FirstOf(h, Limit)) = Fewer(Limit, Len(h)) /\ Len(h) \in Nat
    BY <1>9, FirstOfIs, LenProperties
  <2> QED BY <1>9, <2>1 DEF Fewer
<1> QED BY <1>1, <1>2, <1>3, <1>6, <1>8, <1>10, <1>11, <1>12 DEF v, b, T, value

LEMMA ChunksOrder ==
  ASSUME NEW c \in Corpora, NEW q, q.scope # "*",
         NEW s, s = SearchChunks(c, q), NEW i \in 1..Len(s), NEW j \in 1..Len(s),
         s[i] < s[j], s[j] \in Range(ChunkRows(c, q)) => s[i] \in Range(ChunkRows(c, q)),
         s[j] \in Range(c.bm) => s[i] \in Range(c.bm) /\ Where(c.bm, s[i]) < Where(c.bm, s[j])
  PROVE  i < j
<1> DEFINE v == ChunkRows(c, q)
           b == ChunkHits(c, q)
           value == Fusions(v, b)
           d == s[i]
           e == s[j]
           n == ChunkK(q)
<1>1. /\ Once(s, Docs) /\ Range(s) \subseteq Range(v) \cup Range(b)
      /\ Once(v, Docs) /\ Once(b, Docs) /\ Follows(s, Outranks(value, v, b))
  BY SearchChunksIs
<1>2. Follows(v, Rising(Docs))
  BY ChunkRowsAre
<1>3. d \in Range(s) /\ e \in Range(s)
  BY <1>1, WhereOf
<1>4. d \in Docs /\ e \in Docs
  BY <1>1, <1>3, RangeOfDocs DEF Once
<1>5. n \in Nat /\ b = FirstOf(c.bm, n)
  BY RetrievalAssumption DEF ChunkHits, ChunkK
<1>6. e \in Range(b) => d \in Range(b) /\ Where(b, d) < Where(b, e)
  <2> SUFFICES ASSUME e \in Range(b) PROVE d \in Range(b) /\ Where(b, d) < Where(b, e)
    OBVIOUS
  <2>1. Once(c.bm, Docs)
    BY BmAre
  <2> HIDE DEF b, n
  <2>2. Range(b) \subseteq Range(c.bm)
    BY <1>5, <2>1, FirstOfOnce
  <2>3. d \in Range(c.bm) /\ Where(c.bm, d) < Where(c.bm, e)
    BY <2>2
  <2> HIDE DEF d, e
  <2> QED BY <1>5, <2>1, <2>3, FirstOfKeeps
<1>7. v \in Seq(Docs) /\ b \in Seq(Docs)
  BY <1>1 DEF Once
<1>8. d \in Range(v) \cup Range(b) /\ e \in Range(v) \cup Range(b)
  BY <1>1, <1>3
<1>9. d < e /\ (e \in Range(v) => d \in Range(v))
  OBVIOUS
<1>10. value[d] = Fusion(v, b, d) /\ value[e] = Fusion(v, b, e)
  BY <1>8 DEF Fusions
<1> HIDE DEF v, b, d, e, n, value
<1>11. /\ Fusion(v, b, d) \in Nat /\ Fusion(v, b, e) \in Nat
       /\ Fusion(v, b, e) <= Fusion(v, b, d) /\ Arrival(v, b, d) < Arrival(v, b, e)
  BY <1>1, <1>2, <1>6, <1>8, <1>9, AgreedRanks
<1>12. Arrival(v, b, d) \in Nat /\ Arrival(v, b, e) \in Nat
  BY <1>7, <1>8, ArrivalIs
<1>13. <<e, d>> \notin Outranks(value, v, b)
  BY <1>10, <1>11, <1>12 DEF Outranks
<1>14. d # e
  BY <1>4, <1>9, DocsAre
<1> QED BY <1>1, <1>13, <1>14, LesserFirst DEF d, e

-----------------------------------------------------------------------------
\* What a reranking model returns.
LEMMA OnceHasAsMany ==
  ASSUME NEW S, NEW s, Once(s, S)
  PROVE  IsFiniteSet(Range(s)) /\ Cardinality(Range(s)) = Len(s)
<1> DEFINE R == Range(s)
           n == Len(s)
<1>1. s \in Seq(S) /\ n \in Nat /\ DOMAIN s = 1..n /\ \A i, j \in 1..n : s[i] = s[j] => i = j
  BY LenProperties DEF Once
<1>2. s \in [1..n -> R] /\ \A x \in R : \E i \in 1..n : s[i] = x
  <2>1. s = [i \in 1..n |-> s[i]]
    BY <1>1
  <2> QED BY <1>1, <2>1 DEF Range
<1> HIDE DEF R, n
<1>3. s \in Bijection(1..n, R)
  BY <1>1, <1>2 DEF Bijection, Injection, Surjection, IsInjective
<1>4. ExistsBijection(1..n, R)
  BY <1>3 DEF ExistsBijection
<1>5. IsFiniteSet(R)
  BY <1>1, <1>4, FS_NatBijection
<1>6. Cardinality(R) = n
  BY <1>1, <1>4, FS_CountingElements
<1> QED BY <1>5, <1>6 DEF R, n

LEMMA PlacesShow ==
  ASSUME NEW order \in Seq(Int), NEW places \in SUBSET (1..Len(order))
  PROVE  \E at : /\ Lists(at, places)
                 /\ At(order, places) = [i \in 1..Len(at) |-> order[at[i]]]
  BY AtIs, SMT

LEMMA PickedIs ==
  ASSUME NEW s, Once(s, Docs), NEW order \in Seq(Int)
  PROVE  Once(Picked(s, order), Docs) /\ Range(Picked(s, order)) \subseteq Range(s)
<1> DEFINE fresh == {i \in DOMAIN order : /\ order[i] \in DOMAIN s
                                          /\ \A j \in 1..(i - 1) : order[j] # order[i]}
<1>1. DOMAIN order = 1..Len(order) /\ Len(order) \in Nat
  BY LenProperties
<1>2. s \in Seq(Docs) /\ DOMAIN s = 1..Len(s) /\ \A i, j \in 1..Len(s) : s[i] = s[j] => i = j
  BY LenProperties DEF Once
<1>3. fresh \in SUBSET (1..Len(order))
  BY <1>1
<1>4. \A i \in fresh : order[i] \in 1..Len(s)
  BY <1>2
<1>5. ASSUME NEW i \in fresh, NEW j \in fresh, order[i] = order[j] PROVE i = j
  <2>1. i \in 1..Len(order) /\ j \in 1..Len(order)
    BY <1>1
  <2>2. ASSUME i < j PROVE FALSE
    <3>1. i \in 1..(j - 1)
      BY <1>1, <2>1, <2>2
    <3> QED BY <1>5, <3>1
  <2>3. ASSUME j < i PROVE FALSE
    <3>1. j \in 1..(i - 1)
      BY <1>1, <2>1, <2>3
    <3> QED BY <1>5, <3>1
  <2> QED BY <1>1, <2>1, <2>2, <2>3
<1> DEFINE kept == At(order, fresh)
<1>6. Picked(s, order) = [i \in DOMAIN kept |-> s[kept[i]]]
  BY DEF Picked
<1> HIDE DEF fresh
<1>7. PICK at : /\ Lists(at, fresh) /\ kept = [i \in 1..Len(at) |-> order[at[i]]]
  <2>1. order \in Seq(Int)
    OBVIOUS
  <2>2. \E at : /\ Lists(at, fresh)
                /\ At(order, fresh) = [i \in 1..Len(at) |-> order[at[i]]]
    <3> HIDE DEF kept
    <3> QED BY ONLY <1>3, <2>1, PlacesShow
  <2> QED BY <2>2
<1>8. at \in Seq(fresh) /\ \A i, j \in 1..Len(at) : at[i] = at[j] => i = j
  BY <1>7 DEF Lists, Once
<1>9. Len(at) \in Nat /\ \A i \in 1..Len(at) : at[i] \in fresh
  BY <1>8, LenProperties, ElementOfSeq
<1> HIDE DEF kept
<1> DEFINE h == [i \in 1..Len(at) |-> s[order[at[i]]]]
<1>10. Picked(s, order) = h
  <2>1. DOMAIN kept = 1..Len(at) /\ \A i \in 1..Len(at) : kept[i] = order[at[i]]
    BY <1>7
  <2> QED BY <1>6, <2>1
<1>11. \A i \in 1..Len(at) : order[at[i]] \in 1..Len(s)
  BY <1>4, <1>9
<1>12. \A i \in 1..Len(at) : h[i] \in Docs /\ h[i] \in Range(s)
  BY <1>2, <1>11, ElementOfSeq DEF Range
<1>13. h \in Seq(Docs) /\ Len(h) = Len(at)
  <2>1. h \in [1..Len(at) -> Docs]
    BY <1>12
  <2> QED BY <1>9, <2>1, SeqDef
<1>14. \A i, j \in 1..Len(at) : h[i] = h[j] => i = j
  <2> SUFFICES ASSUME NEW i \in 1..Len(at), NEW j \in 1..Len(at), h[i] = h[j] PROVE i = j
    OBVIOUS
  <2>1. order[at[i]] = order[at[j]]
    BY <1>2, <1>11
  <2>2. at[i] = at[j]
    BY <1>5, <1>9, <2>1
  <2> QED BY <1>8, <2>2
<1>15. Range(h) \subseteq Range(s)
  <2>1. DOMAIN h = 1..Len(at)
    OBVIOUS
  <2> HIDE DEF h
  <2>2. ASSUME NEW x \in Range(h) PROVE x \in Range(s)
    <3>1. PICK i \in 1..Len(at) : h[i] = x
      BY <2>1 DEF Range
    <3> QED BY <1>12, <3>1
  <2> QED BY <2>2
<1> HIDE DEF h
<1>16. Once(h, Docs)
  BY <1>13, <1>14 DEF Once
<1> QED BY <1>10, <1>15, <1>16

\* The same docs as before, each once.
LEMMA ReorderedIs ==
  ASSUME NEW s, Once(s, Docs), NEW order \in Seq(Int)
  PROVE  /\ Once(Reordered(s, order), Docs) /\ Range(Reordered(s, order)) = Range(s)
         /\ Len(Reordered(s, order)) = Len(s)
<1> DEFINE p == Picked(s, order)
           r == Select(s, Docs \ Range(p))
           h == p \o r
<1>1. Once(p, Docs) /\ Range(p) \subseteq Range(s)
  BY PickedIs
<1>2. Reordered(s, order) = h
  BY DEF Reordered
<1> HIDE DEF p
<1>3. Once(r, Docs) /\ Range(r) = Range(s) \cap (Docs \ Range(p))
  BY SelectOnce
<1>4. Range(s) \subseteq Docs
  BY RangeOfDocs DEF Once
<1> HIDE DEF r
<1>5. p \in Seq(Docs) /\ r \in Seq(Docs) /\ Len(p) \in Nat /\ Len(r) \in Nat
  BY <1>1, <1>3, LenProperties DEF Once
<1>6. /\ h \in Seq(Docs) /\ Len(h) = Len(p) + Len(r)
      /\ \A i \in 1..Len(p) + Len(r) : h[i] = IF i <= Len(p) THEN p[i] ELSE r[i - Len(p)]
  BY <1>5, ConcatProperties
<1>7. Range(h) = Range(s)
  <2>1. Range(h) = Range(p) \cup Range(r)
    BY <1>5, RangeOfConcat
  <2> QED BY <1>1, <1>3, <1>4, <2>1
<1>8. \A i \in 1..Len(p) : p[i] \in Range(p)
  BY <1>1, WhereOf
<1>9. \A i \in 1..Len(r) : r[i] \notin Range(p)
  <2>1. \A i \in 1..Len(r) : r[i] \in Range(r)
    BY <1>3, WhereOf
  <2> QED BY <1>3, <2>1
<1> HIDE DEF h
<1>10. ASSUME NEW i \in 1..Len(h), NEW j \in 1..Len(h), h[i] = h[j] PROVE i = j
  <2>1. /\ i <= Len(p) => i \in 1..Len(p) /\ h[i] = p[i]
        /\ ~(i <= Len(p)) => i - Len(p) \in 1..Len(r) /\ h[i] = r[i - Len(p)]
    BY <1>5, <1>6
  <2>2. /\ j <= Len(p) => j \in 1..Len(p) /\ h[j] = p[j]
        /\ ~(j <= Len(p)) => j - Len(p) \in 1..Len(r) /\ h[j] = r[j - Len(p)]
    BY <1>5, <1>6
  <2>3. CASE i <= Len(p) /\ j <= Len(p)
    BY <1>1, <1>10, <2>1, <2>2, <2>3 DEF Once
  <2>4. CASE ~(i <= Len(p)) /\ ~(j <= Len(p))
    <3>1. i - Len(p) = j - Len(p)
      BY <1>3, <1>10, <2>1, <2>2, <2>4 DEF Once
    <3> QED BY <1>5, <1>6, <3>1
  <2>5. CASE (i <= Len(p) /\ ~(j <= Len(p))) \/ (~(i <= Len(p)) /\ j <= Len(p))
    BY <1>8, <1>9, <1>10, <2>1, <2>2, <2>5
  <2> QED BY <2>3, <2>4, <2>5
<1>11. Once(h, Docs)
  BY <1>6, <1>10 DEF Once
<1>12. Len(h) = Len(s)
  BY <1>7, <1>11, OnceHasAsMany
<1> QED BY <1>2, <1>7, <1>11, <1>12

-----------------------------------------------------------------------------
\* What holds of an answer on the way to it: the candidates kept for the
\* reranker are visible docs, each once.
RetrievalInvariant ==
  /\ phase \in {"corpus", "asked", "docs", "chunks", "boot", "static"} => corpus \in Corpora
  /\ phase = "asked" => Once(found, Docs) /\ Range(found) \subseteq Visible(corpus, ask)
  /\ AnswerIsSound /\ NearestAreRecalled /\ NearerRanksHigher

SoundDocs(s, c, q) == Once(s, Docs) /\ Range(s) \subseteq Visible(c, q)

LEMMA SoundDocsAre ==
  ASSUME NEW s, NEW c, NEW q, SoundDocs(s, c, q)
  PROVE  /\ \A i, j \in DOMAIN s : s[i] = s[j] => i = j
         /\ \A d \in Range(s) : PassesFilters(c, q, d)
<1>1. DOMAIN s = 1..Len(s)
  BY LenProperties DEF SoundDocs, Once
<1> QED BY <1>1 DEF SoundDocs, Once, Visible

LEMMA FirstOfSound ==
  ASSUME NEW s, NEW c, NEW q, SoundDocs(s, c, q)
  PROVE  /\ SoundDocs(FirstOf(s, Limit), c, q)
         /\ Len(FirstOf(s, Limit)) = IF Len(s) < Limit THEN Len(s) ELSE Limit
<1>1. Once(s, Docs) /\ s \in Seq(Docs) /\ Limit \in Nat /\ Range(s) \subseteq Visible(c, q)
  BY RetrievalAssumption DEF SoundDocs, Once
<1>2. Once(FirstOf(s, Limit), Docs) /\ Range(FirstOf(s, Limit)) \subseteq Range(s)
  BY <1>1, FirstOfOnce
<1>3. Len(FirstOf(s, Limit)) = Fewer(Limit, Len(s)) /\ Len(s) \in Nat
  BY <1>1, FirstOfIs, LenProperties
<1>4. Len(FirstOf(s, Limit)) = IF Len(s) < Limit THEN Len(s) ELSE Limit
  BY <1>1, <1>3 DEF Fewer
<1> QED BY <1>1, <1>2, <1>4 DEF SoundDocs

\* The vector side of a question recalls what it should.
LEMMA DenseRecalls ==
  ASSUME NEW c \in Corpora, NEW q, IsFiniteSet(q.tags), FlatIn(c) \/ q.tags # {},
         NEW rows, NEW chunks \in BOOLEAN, rows = IF chunks THEN ChunkRows(c, q) ELSE VectorRows(c, q)
  PROVE  \A d \in Wanted(c, q, chunks) : d \in Range(rows) \/ Squeezed(c, q, chunks, d)
<1>1. CASE chunks = TRUE
  BY <1>1, ChunkRowsRecall
<1>2. CASE chunks = FALSE
  BY <1>2, VectorRowsRecall
<1> QED BY <1>1, <1>2

LEMMA AskDocsKeeps ==
  ASSUME RetrievalInvariant, NEW q \in Questions, AskDocs(q)
  PROVE  RetrievalInvariant'
<1>1. corpus \in Corpora /\ corpus' = corpus /\ ask' = q
  BY DEF RetrievalInvariant, AskDocs
<1>2. phase' \in {"asked", "docs"}
  BY DEF AskDocs
<1>3. dense' = VectorRows(corpus, q) /\ found' = FirstOf(Search(corpus, q), Wide)
  BY DEF AskDocs
<1>4. SoundDocs(found', corpus, q)
  BY <1>1, <1>3, SearchIs DEF SoundDocs
<1>5. AnswerIsSound'
  <2>1. CASE phase' = "asked"
    BY <2>1 DEF AnswerIsSound, Answered, Booted
  <2>2. CASE phase' = "docs"
    <3>1. answer' = FirstOf(found', Limit)
      BY <2>2 DEF AskDocs
    <3>2. SoundDocs(answer', corpus, q) /\ Len(answer') = IF Len(found') < Limit THEN Len(found') ELSE Limit
      BY <1>4, <3>1, FirstOfSound
    <3>3. /\ \A i, j \in DOMAIN answer' : answer'[i] = answer'[j] => i = j
          /\ \A d \in Range(answer') : PassesFilters(corpus, q, d)
      BY <3>2, SoundDocsAre
    <3> QED BY <1>1, <2>2, <3>2, <3>3 DEF AnswerIsSound, Twins
  <2> QED BY <1>2, <2>1, <2>2
<1>6. NearestAreRecalled'
  <2> SUFFICES ASSUME FlatIn(corpus) \/ q.tags # {},
                      NEW d \in Wanted(corpus, q, FALSE)
               PROVE  d \in Range(dense') \/ Squeezed(corpus, q, FALSE, d)
    <3>1. (phase' = "chunks") = FALSE
      BY <1>2
    <3> QED BY <1>1, <3>1 DEF NearestAreRecalled, Recalled, Flat, FlatIn
  <2>1. IsFiniteSet(q.tags)
    BY RetrievalAssumption
  <2> QED BY <1>1, <1>3, <2>1, DenseRecalls
<1>7. NearerRanksHigher'
  <2> SUFFICES ASSUME FlatIn(corpus) \/ OwnerTag(q),
                      NEW i \in DOMAIN found', NEW j \in DOMAIN found', Agreed(found[i], found[j])'
               PROVE  i < j
    BY <1>1, <1>2 DEF NearerRanksHigher, Flat, FlatIn, OrderKept
  <2> DEFINE s == found'
  <2>1. DOMAIN s = 1..Len(s)
    BY <1>4, LenProperties DEF SoundDocs, Once
  <2>2. /\ s[i] < s[j] /\ corpus.doc[s[i]].status = corpus.doc[s[j]].status
        /\ s[j] \in Range(VectorRows(corpus, q)) => s[i] \in Range(VectorRows(corpus, q))
        /\ s[j] \in Range(corpus.bm) =>
             s[i] \in Range(corpus.bm) /\ Where(corpus.bm, s[i]) < Where(corpus.bm, s[j])
    BY <1>1, <1>3 DEF Agreed
  <2>3. s = FirstOf(Search(corpus, q), Wide)
    BY <1>3
  <2>4. i \in 1..Len(s) /\ j \in 1..Len(s)
    BY <2>1
  <2> HIDE DEF s
  <2> QED BY <1>1, <2>2, <2>3, <2>4, SearchOrder
<1> QED BY <1>1, <1>2, <1>4, <1>5, <1>6, <1>7 DEF RetrievalInvariant, SoundDocs

LEMMA RerankKeeps ==
  ASSUME RetrievalInvariant, NEW order \in Orders, Rerank(order)
  PROVE  RetrievalInvariant'
<1>1. /\ corpus \in Corpora /\ phase = "asked" /\ phase' = "docs"
      /\ answer' = FirstOf(Reordered(found, order), Limit)
      /\ UNCHANGED <<corpus, ask, dense, found>>
  BY DEF RetrievalInvariant, Rerank
<1>2. Once(found, Docs) /\ Range(found) \subseteq Visible(corpus, ask)
  BY <1>1 DEF RetrievalInvariant
<1>3. order \in Seq(Int)
  BY RetrievalAssumption
<1>4. SoundDocs(Reordered(found, order), corpus, ask) /\ Len(Reordered(found, order)) = Len(found)
  BY <1>2, <1>3, ReorderedIs DEF SoundDocs
<1>5. AnswerIsSound'
  <2>1. SoundDocs(answer', corpus, ask) /\ Len(answer') = IF Len(found) < Limit THEN Len(found) ELSE Limit
    BY <1>1, <1>4, FirstOfSound
  <2>2. /\ \A i, j \in DOMAIN answer' : answer'[i] = answer'[j] => i = j
        /\ \A d \in Range(answer') : PassesFilters(corpus, ask, d)
    BY <2>1, SoundDocsAre
  <2> QED BY <1>1, <2>1, <2>2 DEF AnswerIsSound, Twins
<1>6. NearestAreRecalled'
  BY <1>1 DEF RetrievalInvariant, NearestAreRecalled, Flat, Recalled
<1>7. NearerRanksHigher'
  BY <1>1 DEF RetrievalInvariant, NearerRanksHigher, Flat, OrderKept, Agreed
<1> QED BY <1>1, <1>5, <1>6, <1>7 DEF RetrievalInvariant

LEMMA AskChunksKeeps ==
  ASSUME RetrievalInvariant, NEW q \in Questions, AskChunks(q)
  PROVE  RetrievalInvariant'
<1>1. /\ corpus \in Corpora /\ corpus' = corpus /\ ask' = q /\ phase' = "chunks"
      /\ dense' = ChunkRows(corpus, q) /\ found' = SearchChunks(corpus, q) /\ answer' = found'
  BY DEF RetrievalInvariant, AskChunks
<1>2. /\ Once(found', Docs) /\ Len(found') <= Limit
      /\ Range(found') \subseteq {d \in Docs : ChunkPasses(corpus, q, d)}
  BY <1>1, SearchChunksIs
<1>3. DOMAIN found' = 1..Len(found') /\ Len(found') \in Nat
  BY <1>2, LenProperties DEF Once
<1>4. AnswerIsSound'
  <2>1. \A i, j \in DOMAIN answer' : answer'[i] = answer'[j] => i = j
    BY <1>1, <1>2, <1>3 DEF Once
  <2>2. \A d \in Range(answer') : ChunkPasses(corpus, q, d)
    BY <1>1, <1>2
  <2>3. Len(answer') = IF Len(found') < Limit THEN Len(found') ELSE Limit
    <3> DEFINE n == Len(found')
    <3>1. Limit \in Nat
      BY RetrievalAssumption
    <3>2. n \in Nat /\ n <= Limit /\ Len(answer') = n
      BY <1>1, <1>2, <1>3
    <3> HIDE DEF n
    <3>3. Len(answer') = IF n < Limit THEN n ELSE Limit
      BY <3>1, <3>2
    <3> QED BY <3>3 DEF n
  <2> QED BY <1>1, <2>1, <2>2, <2>3 DEF AnswerIsSound, Twins
<1>5. NearestAreRecalled'
  <2> SUFFICES ASSUME FlatIn(corpus) \/ q.tags # {},
                      NEW d \in Wanted(corpus, q, TRUE)
               PROVE  d \in Range(dense') \/ Squeezed(corpus, q, TRUE, d)
    <3>1. (phase' = "chunks") = TRUE
      BY <1>1
    <3> QED BY <1>1, <3>1 DEF NearestAreRecalled, Recalled, Flat, FlatIn
  <2>1. IsFiniteSet(q.tags)
    BY RetrievalAssumption
  <2> QED BY <1>1, <2>1, DenseRecalls
<1>6. NearerRanksHigher'
  <2> SUFFICES ASSUME q.scope # "*",
                      NEW i \in DOMAIN found', NEW j \in DOMAIN found', Agreed(found[i], found[j])'
               PROVE  i < j
    BY <1>1 DEF NearerRanksHigher, OrderKept
  <2> DEFINE s == found'
  <2>1. /\ s[i] < s[j]
        /\ s[j] \in Range(ChunkRows(corpus, q)) => s[i] \in Range(ChunkRows(corpus, q))
        /\ s[j] \in Range(corpus.bm) =>
             s[i] \in Range(corpus.bm) /\ Where(corpus.bm, s[i]) < Where(corpus.bm, s[j])
    BY <1>1 DEF Agreed
  <2>2. s = SearchChunks(corpus, q) /\ i \in 1..Len(s) /\ j \in 1..Len(s)
    BY <1>1, <1>3
  <2> HIDE DEF s
  <2> QED BY <1>1, <2>1, <2>2, ChunksOrder
<1> QED BY <1>1, <1>4, <1>5, <1>6 DEF RetrievalInvariant

LEMMA AskBootKeeps ==
  ASSUME RetrievalInvariant, NEW owner, NEW floor, AskBoot(owner, floor)
  PROVE  RetrievalInvariant'
<1> DEFINE q == BootQuestion(owner)
<1>1. /\ corpus \in Corpora /\ corpus' = corpus /\ ask' = q /\ phase' = "boot"
      /\ dense' = VectorRows(corpus, q) /\ answer' = BootPack(corpus, q, floor)
  BY DEF RetrievalInvariant, AskBoot
<1>2. q.tags = {owner}
  BY DEF BootQuestion
<1> HIDE DEF q
<1>3. SoundDocs(answer', corpus, q)
  BY <1>1, BootPackIs DEF SoundDocs
<1>4. AnswerIsSound'
  <2>1. /\ \A i, j \in DOMAIN answer' : answer'[i] = answer'[j] => i = j
        /\ \A d \in Range(answer') : PassesFilters(corpus, q, d)
    BY <1>3, SoundDocsAre
  <2> QED BY <1>1, <2>1 DEF AnswerIsSound, Twins, Answered
<1>5. NearestAreRecalled'
  <2> SUFFICES ASSUME FlatIn(corpus) \/ q.tags # {},
                      NEW d \in Wanted(corpus, q, FALSE)
               PROVE  d \in Range(dense') \/ Squeezed(corpus, q, FALSE, d)
    <3>1. (phase' = "chunks") = FALSE
      BY <1>1
    <3> QED BY <1>1, <3>1 DEF NearestAreRecalled, Recalled, Flat, FlatIn
  <2>1. IsFiniteSet(q.tags)
    <3>1. IsFiniteSet({owner})
      BY ONLY FS_Singleton
    <3> QED BY ONLY <3>1, <1>2
  <2> QED BY <1>1, <2>1, DenseRecalls
<1>6. NearerRanksHigher'
  BY <1>1 DEF NearerRanksHigher
<1> QED BY <1>1, <1>4, <1>5, <1>6 DEF RetrievalInvariant

LEMMA AskStaticKeeps ==
  ASSUME RetrievalInvariant, NEW owner, NEW floor, AskStatic(owner, floor)
  PROVE  RetrievalInvariant'
<1> DEFINE q == BootQuestion(owner)
<1>1. /\ corpus \in Corpora /\ corpus' = corpus /\ ask' = q /\ phase' = "static"
      /\ answer' = StaticPack(corpus, q, floor)
  BY DEF RetrievalInvariant, AskStatic
<1>2. SoundDocs(answer', corpus, q)
  BY <1>1, StaticPackIs DEF SoundDocs
<1> HIDE DEF q
<1>3. AnswerIsSound'
  <2>1. /\ \A i, j \in DOMAIN answer' : answer'[i] = answer'[j] => i = j
        /\ \A d \in Range(answer') : PassesFilters(corpus, q, d)
    BY <1>2, SoundDocsAre
  <2> QED BY <1>1, <2>1 DEF AnswerIsSound, Twins, Answered
<1>4. NearestAreRecalled' /\ NearerRanksHigher'
  BY <1>1 DEF NearestAreRecalled, NearerRanksHigher
<1> QED BY <1>1, <1>3, <1>4 DEF RetrievalInvariant

LEMMA RetrievalKeeps == RetrievalSpec => []RetrievalInvariant
<1>1. RetrievalInit => RetrievalInvariant
  BY DEF RetrievalInit, RetrievalInvariant, AnswerIsSound, NearestAreRecalled, NearerRanksHigher,
         Answered, Booted
<1>2. RetrievalInvariant /\ [RetrievalNext]_retrievalVars => RetrievalInvariant'
  <2> SUFFICES ASSUME RetrievalInvariant, [RetrievalNext]_retrievalVars PROVE RetrievalInvariant'
    OBVIOUS
  <2>1. ASSUME NEW q \in Questions, AskDocs(q) \/ AskChunks(q) PROVE RetrievalInvariant'
    BY <2>1, AskDocsKeeps, AskChunksKeeps
  <2>2. ASSUME NEW owner, NEW floor, AskBoot(owner, floor) \/ AskStatic(owner, floor)
        PROVE  RetrievalInvariant'
    BY <2>2, AskBootKeeps, AskStaticKeeps
  <2>3. ASSUME NEW order \in Orders, Rerank(order) PROVE RetrievalInvariant'
    BY <2>3, RerankKeeps
  <2>4. ASSUME NEW budget \in 1..MaxBudget, Fit(budget) PROVE RetrievalInvariant'
    <3>1. phase' = "fitted"
      BY <2>4 DEF Fit
    <3> QED BY <3>1 DEF RetrievalInvariant, AnswerIsSound, NearestAreRecalled, NearerRanksHigher,
                        Answered, Booted
  <2>5. CASE UNCHANGED retrievalVars
    BY <2>5 DEF retrievalVars, RetrievalInvariant, AnswerIsSound, NearestAreRecalled,
                NearerRanksHigher, Answered, Booted, Twins, Recalled, Flat, OrderKept, Agreed
  <2> QED BY <2>1, <2>2, <2>3, <2>4, <2>5 DEF RetrievalNext
<1> QED BY <1>1, <1>2, PTL DEF RetrievalSpec

\* Whatever the corpus, the question and what the reranking model returned, an
\* answer lists docs the question may see, none twice, and is short of the
\* limit only when all that was found is in it.
THEOREM AnswersAreSound == RetrievalSpec => []AnswerIsSound
<1>1. RetrievalInvariant => AnswerIsSound
  BY DEF RetrievalInvariant
<1> QED BY <1>1, RetrievalKeeps, PTL

\* A doc that may be seen, with fewer than a limit of such docs nearer in its
\* partition, is found by the vector side of every search: whatever windows
\* there are of at least the limit, no filter squeezes it out.
THEOREM FiltersNeverSqueeze == RetrievalSpec => []NearestAreRecalled
<1>1. RetrievalInvariant => NearestAreRecalled
  BY DEF RetrievalInvariant
<1> QED BY <1>1, RetrievalKeeps, PTL

\* Merging partitions, owners and the two signals keeps the order on which
\* they agree, for every window, recall cap and corpus.
THEOREM MergingKeepsOrder == RetrievalSpec => []NearerRanksHigher
<1>1. RetrievalInvariant => NearerRanksHigher
  BY DEF RetrievalInvariant
<1> QED BY <1>1, RetrievalKeeps, PTL

-----------------------------------------------------------------------------
\* Sums of the first n.
LEMMA TotalIs ==
  ASSUME NEW m \in Nat, NEW f \in [1..m -> Int]
  PROVE  /\ Total(f, 0) = 0
         /\ \A n \in 1..m : Total(f, n) = Total(f, n - 1) + f[n]
<1> DEFINE Body(w) == [i \in Nat |-> IF i \in DOMAIN f THEN w[i - 1] + f[i] ELSE 0]
           W == CHOOSE w : w = Body(w)
           S == Nat \X Int
           more(p) == IF p[1] + 1 \in 1..m THEN p[2] + f[p[1] + 1] ELSE 0
           g == [p \in S |-> <<p[1] + 1, more(p)>>]
           first == <<0, 0>>
<1>1. \A n : Total(f, n) = W[n]
  BY DEF Total
<1>2. StepOn(S, g) /\ first \in S
  <2>1. ASSUME NEW p \in S PROVE <<p[1] + 1, more(p)>> \in S
    <3>1. p[1] + 1 \in Nat /\ p[2] \in Int
      OBVIOUS
    <3>2. p[1] + 1 \in 1..m => f[p[1] + 1] \in Int
      OBVIOUS
    <3> QED BY <3>1, <3>2
  <2> HIDE DEF more
  <2> QED BY <2>1 DEF StepOn
<1>3. \E h : Repeats(S, g, first, h)
  <2> HIDE DEF S, g, first
  <2> QED BY <1>2, Iterates
<1>4. PICK h : h \in [Nat -> S] /\ h[0] = first /\ \A n \in Nat : h[n + 1] = g[h[n]]
  BY <1>3 DEF Repeats
<1>5. \A n \in Nat : h[n + 1] = <<h[n][1] + 1, more(h[n])>>
  BY <1>4
<1>6. \A n \in Nat : h[n][1] = n
  <2> HIDE DEF more
  <2> DEFINE T == {n \in Nat : h[n][1] = n}
  <2>1. 0 \in T
    BY <1>4
  <2>2. ASSUME NEW n \in Nat, n \in T PROVE n + 1 \in T
    <3>1. h[n][1] = n
      BY <2>2
    <3>2. h[n + 1] = <<h[n][1] + 1, more(h[n])>>
      BY <1>5
    <3>3. h[n + 1][1] = h[n][1] + 1
      BY <3>2
    <3> QED BY <3>1, <3>3
  <2>3. \A n \in Nat : n \in T
    <3> HIDE DEF T
    <3> QED BY <2>1, <2>2, EveryNat
  <2> QED BY <2>3
<1> DEFINE U == [n \in Nat |-> h[n][2]]
<1>7. U[0] = 0 /\ \A n \in Nat : U[n + 1] = IF n + 1 \in 1..m THEN U[n] + f[n + 1] ELSE 0
  <2>1. U[0] = 0
    BY <1>4
  <2>2. ASSUME NEW n \in Nat PROVE U[n + 1] = IF n + 1 \in 1..m THEN U[n] + f[n + 1] ELSE 0
    <3>1. h[n + 1][2] = more(h[n]) /\ h[n][1] = n
      <4>1. h[n + 1] = <<h[n][1] + 1, more(h[n])>>
        BY <1>5
      <4> HIDE DEF more
      <4> QED BY <1>6, <4>1
    <3> QED BY <3>1
  <2> QED BY <2>1, <2>2
<1>8. DOMAIN f = 1..m
  OBVIOUS
<1>9. U = Body(U)
  <2>1. ASSUME NEW i \in Nat PROVE U[i] = IF i \in DOMAIN f THEN U[i - 1] + f[i] ELSE 0
    <3>1. CASE i = 0
      BY <1>7, <1>8, <3>1
    <3>2. CASE i # 0
      <4>1. i - 1 \in Nat /\ (i - 1) + 1 = i
        BY <3>2
      <4> HIDE DEF U
      <4> QED BY <1>7, <1>8, <4>1
    <3> QED BY <3>1, <3>2
  <2>2. U = [i \in Nat |-> U[i]]
    OBVIOUS
  <2> HIDE DEF U
  <2> QED BY <2>1, <2>2
<1> HIDE DEF U
<1>10. W = Body(W)
  <2> HIDE DEF Body
  <2> QED BY <1>9
<1> HIDE DEF W
<1>11. \A i \in Nat : W[i] = IF i \in DOMAIN f THEN W[i - 1] + f[i] ELSE 0
  <2>1. \A i \in Nat : Body(W)[i] = IF i \in DOMAIN f THEN W[i - 1] + f[i] ELSE 0
    OBVIOUS
  <2> HIDE DEF Body
  <2> QED BY <1>10, <2>1
<1>12. W[0] = 0
  BY <1>8, <1>11
<1>13. \A n \in 1..m : W[n] = W[n - 1] + f[n]
  BY <1>8, <1>11
<1> QED BY <1>1, <1>12, <1>13

LEMMA TotalInt ==
  ASSUME NEW m \in Nat, NEW f \in [1..m -> Int]
  PROVE  \A n \in 0..m : Total(f, n) \in Int
<1> DEFINE T == {n \in Nat : n <= m => Total(f, n) \in Int}
<1>1. 0 \in T
  BY TotalIs
<1>2. ASSUME NEW n \in Nat, n \in T PROVE n + 1 \in T
  <2> SUFFICES ASSUME n + 1 <= m PROVE Total(f, n + 1) \in Int
    OBVIOUS
  <2>1. Total(f, n) \in Int
    BY <1>2
  <2>2. n + 1 \in 1..m /\ (n + 1) - 1 = n
    OBVIOUS
  <2>3. Total(f, n + 1) = Total(f, n) + f[n + 1]
    BY <2>2, TotalIs
  <2> QED BY <2>1, <2>2, <2>3
<1>3. \A n \in Nat : n \in T
  <2> HIDE DEF T
  <2> QED BY <1>1, <1>2, EveryNat
<1> QED BY <1>3

\* It depends on the first n only.
LEMMA TotalSame ==
  ASSUME NEW m \in Nat, NEW f \in [1..m -> Int], NEW k \in Nat, NEW e \in [1..k -> Int],
         k <= m, \A i \in 1..k : e[i] = f[i]
  PROVE  Total(e, k) = Total(f, k)
<1> DEFINE T == {n \in Nat : n <= k => Total(e, n) = Total(f, n)}
<1>1. 0 \in T
  BY TotalIs
<1>2. ASSUME NEW n \in Nat, n \in T PROVE n + 1 \in T
  <2> SUFFICES ASSUME n + 1 <= k PROVE Total(e, n + 1) = Total(f, n + 1)
    OBVIOUS
  <2>1. Total(e, n) = Total(f, n)
    BY <1>2
  <2>2. n + 1 \in 1..k /\ n + 1 \in 1..m /\ (n + 1) - 1 = n
    OBVIOUS
  <2>3. Total(e, n + 1) = Total(e, n) + e[n + 1] /\ Total(f, n + 1) = Total(f, n) + f[n + 1]
    BY <2>2, TotalIs
  <2> QED BY <2>1, <2>2, <2>3
<1>3. \A n \in Nat : n \in T
  <2> HIDE DEF T
  <2> QED BY <1>1, <1>2, EveryNat
<1> QED BY <1>3

\* Costs are no less than zero: it never falls.
LEMMA TotalGrows ==
  ASSUME NEW m \in Nat, NEW f \in [1..m -> Nat], NEW i \in 0..m
  PROVE  \A j \in i..m : Total(f, i) <= Total(f, j)
<1> DEFINE T == {n \in Nat : i + n <= m => Total(f, i) <= Total(f, i + n)}
<1>1. f \in [1..m -> Int]
  OBVIOUS
<1>2. 0 \in T
  <2>1. Total(f, i) \in Int
    BY <1>1, TotalInt
  <2> QED BY <2>1
<1>3. ASSUME NEW n \in Nat, n \in T PROVE n + 1 \in T
  <2> SUFFICES ASSUME i + (n + 1) <= m PROVE Total(f, i) <= Total(f, i + (n + 1))
    OBVIOUS
  <2> DEFINE k == i + (n + 1)
  <2>1. k \in 1..m /\ k - 1 = i + n /\ i + n \in 0..m
    OBVIOUS
  <2>2. Total(f, i) <= Total(f, k - 1)
    BY <1>3, <2>1
  <2> HIDE DEF k
  <2>3. Total(f, k) = Total(f, k - 1) + f[k]
    BY <1>1, <2>1, TotalIs
  <2>4. f[k] \in Nat
    BY <2>1
  <2>5. Total(f, i) \in Int /\ Total(f, k - 1) \in Int /\ Total(f, k) \in Int
    BY <1>1, <2>1, TotalInt
  <2>6. Total(f, i) <= Total(f, k)
    BY <2>2, <2>3, <2>4, <2>5
  <2> QED BY <2>6 DEF k
<1>4. \A n \in Nat : n \in T
  <2> HIDE DEF T
  <2> QED BY <1>2, <1>3, EveryNat
<1>5. ASSUME NEW j \in i..m PROVE Total(f, i) <= Total(f, j)
  <2>1. j - i \in Nat /\ i + (j - i) = j /\ j <= m
    OBVIOUS
  <2> QED BY <1>4, <2>1
<1> QED BY <1>5

\* One of them changed.
LEMMA TotalChanged ==
  ASSUME NEW m \in Nat, NEW f \in [1..m -> Int], NEW j \in 1..m, NEW x \in Int
  PROVE  Total([f EXCEPT ![j] = x], m) = Total(f, m) + (x - f[j])
<1> DEFINE e == [f EXCEPT ![j] = x]
           y == x - f[j]
           T == {n \in Nat : n <= m => Total(e, n) = Total(f, n) + (IF j <= n THEN y ELSE 0)}
<1>1. e \in [1..m -> Int] /\ e[j] = f[j] + y /\ y \in Int /\ \A i \in 1..m : i # j => e[i] = f[i]
  OBVIOUS
<1> HIDE DEF e, y
<1>2. 0 \in T
  <2>1. Total(e, 0) = 0 /\ Total(f, 0) = 0
    BY <1>1, TotalIs
  <2> QED BY <2>1
<1>3. ASSUME NEW n \in Nat, n \in T PROVE n + 1 \in T
  <2> SUFFICES ASSUME n + 1 <= m
               PROVE  Total(e, n + 1) = Total(f, n + 1) + (IF j <= n + 1 THEN y ELSE 0)
    OBVIOUS
  <2>1. Total(e, n) = Total(f, n) + (IF j <= n THEN y ELSE 0)
    BY <1>3
  <2>2. n + 1 \in 1..m /\ (n + 1) - 1 = n /\ n \in 0..m
    OBVIOUS
  <2>3. Total(e, n + 1) = Total(e, n) + e[n + 1] /\ Total(f, n + 1) = Total(f, n) + f[n + 1]
    BY <1>1, <2>2, TotalIs
  <2>4. Total(e, n) \in Int /\ Total(f, n) \in Int /\ f[n + 1] \in Int
    BY <1>1, <2>2, TotalInt
  <2>5. CASE j = n + 1
    BY <1>1, <2>1, <2>3, <2>4, <2>5
  <2>6. CASE j # n + 1
    <3>1. e[n + 1] = f[n + 1]
      BY <1>1, <2>2, <2>6
    <3>2. j <= n + 1 <=> j <= n
      BY <2>6
    <3> QED BY <1>1, <2>1, <2>3, <2>4, <3>1, <3>2
  <2> QED BY <2>5, <2>6
<1>4. \A n \in Nat : n \in T
  <2> HIDE DEF T
  <2> QED BY <1>2, <1>3, EveryNat
<1>5. Total(e, m) = Total(f, m) + (IF j <= m THEN y ELSE 0)
  BY <1>4
<1> QED BY <1>5 DEF e, y

-----------------------------------------------------------------------------
\* The bisection: lo stubs fit, more than hi do not.
CostLists(m) == [1..m -> [1..3 -> Nat]]

LEMMA PrefixCostIs ==
  ASSUME NEW m \in Nat, NEW cost \in CostLists(m)
  PROVE  /\ PrefixCost(cost, 0) = 0
         /\ \A n \in 0..m : PrefixCost(cost, n) \in Int
         /\ \A i \in 0..m : \A j \in i..m : PrefixCost(cost, i) <= PrefixCost(cost, j)
<1> DEFINE f == [i \in DOMAIN cost |-> cost[i][1]]
<1>1. f \in [1..m -> Nat]
  <2>1. DOMAIN cost = 1..m /\ \A i \in 1..m : cost[i] \in [1..3 -> Nat]
    BY DEF CostLists
  <2>2. \A i \in 1..m : cost[i][1] \in Nat
    BY <2>1
  <2> QED BY <2>1, <2>2
<1>2. \A n : PrefixCost(cost, n) = Total(f, n)
  BY DEF PrefixCost
<1> HIDE DEF f
<1>3. f \in [1..m -> Int]
  BY <1>1
<1>4. \A i \in 0..m : \A j \in i..m : Total(f, i) <= Total(f, j)
  BY <1>1, TotalGrows
<1> QED BY <1>2, <1>3, <1>4, TotalIs, TotalInt

Bracket(cost, budget, m, at) ==
  /\ at \in [lo : 0..m, hi : 0..m] /\ at.lo <= at.hi
  /\ PrefixCost(cost, at.lo) <= budget
  /\ \A j \in (at.hi + 1)..m : PrefixCost(cost, j) > budget

LEMMA HalvedKeeps ==
  ASSUME NEW m \in Nat, NEW cost \in CostLists(m), NEW budget \in Int,
         NEW at, Bracket(cost, budget, m, at)
  PROVE  LET to == Halved(cost, budget, at) IN
         /\ Bracket(cost, budget, m, to)
         /\ at.lo < at.hi => to.hi - to.lo < at.hi - at.lo
         /\ ~(at.lo < at.hi) => to = at
<1> DEFINE mid == (at.lo + at.hi + 1) \div 2
           to == Halved(cost, budget, at)
<1>1. at \in [lo : 0..m, hi : 0..m] /\ at.lo \in 0..m /\ at.hi \in 0..m /\ at.lo <= at.hi
  BY DEF Bracket
<1>2. CASE ~(at.lo < at.hi)
  <2>1. to = at
    BY <1>1, <1>2 DEF Halved
  <2> QED BY <1>2, <2>1
<1>3. CASE at.lo < at.hi
  <2>1. mid \in 0..m /\ at.lo < mid /\ mid <= at.hi /\ mid - 1 \in 0..m
    BY <1>1, <1>3
  <2>2. PrefixCost(cost, mid) \in Int
    BY <2>1, PrefixCostIs
  <2>3. CASE PrefixCost(cost, mid) <= budget
    <3>1. to = [at EXCEPT !.lo = mid]
      BY <1>1, <1>3, <2>3 DEF Halved
    <3> HIDE DEF mid, to
    <3>2. to \in [lo : 0..m, hi : 0..m] /\ to.lo = mid /\ to.hi = at.hi
      BY <1>1, <2>1, <3>1
    <3>3. Bracket(cost, budget, m, to)
      BY <2>1, <2>3, <3>2 DEF Bracket
    <3>4. to.hi - to.lo < at.hi - at.lo
      BY <1>1, <2>1, <3>2
    <3> QED BY <1>3, <3>3, <3>4 DEF to
  <2>4. CASE ~(PrefixCost(cost, mid) <= budget)
    <3>1. to = [at EXCEPT !.hi = mid - 1]
      BY <1>1, <1>3, <2>4 DEF Halved
    <3> HIDE DEF mid, to
    <3>2. to \in [lo : 0..m, hi : 0..m] /\ to.lo = at.lo /\ to.hi = mid - 1
      BY <1>1, <2>1, <3>1
    <3>3. ASSUME NEW j \in (to.hi + 1)..m PROVE PrefixCost(cost, j) > budget
      <4>1. j \in mid..m /\ j \in 0..m
        BY <2>1, <3>2
      <4>2. PrefixCost(cost, mid) <= PrefixCost(cost, j) /\ PrefixCost(cost, j) \in Int
        BY <2>1, <4>1, PrefixCostIs
      <4> QED BY <2>2, <2>4, <4>2
    <3>4. to.lo <= to.hi
      BY <1>1, <2>1, <3>2
    <3>5. Bracket(cost, budget, m, to)
      BY <3>2, <3>3, <3>4 DEF Bracket
    <3>6. to.hi - to.lo < at.hi - at.lo
      BY <1>1, <2>1, <3>2
    <3> QED BY <1>3, <3>5, <3>6 DEF to
  <2> QED BY <2>3, <2>4
<1> QED BY <1>2, <1>3

\* It ends with the longest prefix that fits.
LEMMA BisectIs ==
  ASSUME NEW m \in Nat, NEW cost \in CostLists(m), NEW budget \in Nat
  PROVE  /\ Bisect(cost, budget) \in 0..m /\ PrefixCost(cost, Bisect(cost, budget)) <= budget
         /\ \A j \in (Bisect(cost, budget) + 1)..m : PrefixCost(cost, j) > budget
<1> DEFINE first == [lo |-> 0, hi |-> Len(cost)]
           Body(w) == [k \in Nat |-> IF k = 0 THEN first
                                     ELSE Halved(cost, budget, w[k - 1])]
           W == CHOOSE w : w = Body(w)
           S == {at \in [lo : 0..m, hi : 0..m] : Bracket(cost, budget, m, at)}
           g == [at \in S |-> Halved(cost, budget, at)]
<1>1. Len(cost) = m
  <2>1. cost \in [1..m -> [1..3 -> Nat]]
    BY DEF CostLists
  <2>2. cost \in Seq([1..3 -> Nat])
    BY <2>1, SeqDef
  <2>3. DOMAIN cost = 1..m /\ DOMAIN cost = 1..Len(cost) /\ Len(cost) \in Nat
    BY <2>1, <2>2, LenProperties
  <2> QED BY <2>3
<1>2. Bisect(cost, budget) = W[m].lo
  BY <1>1 DEF Bisect
<1>3. first \in S
  <2>1. PrefixCost(cost, 0) <= budget
    BY PrefixCostIs
  <2>2. first \in [lo : 0..m, hi : 0..m] /\ first.lo = 0 /\ first.hi = m
    BY <1>1
  <2>3. (m + 1)..m = {}
    OBVIOUS
  <2> HIDE DEF first
  <2>4. Bracket(cost, budget, m, first)
    BY <2>1, <2>2, <2>3 DEF Bracket
  <2> QED BY <2>2, <2>4
<1>4. ASSUME NEW at \in S PROVE Halved(cost, budget, at) \in S
  <2>1. Bracket(cost, budget, m, Halved(cost, budget, at))
    BY HalvedKeeps
  <2> QED BY <2>1 DEF Bracket
<1>5. PICK f \in [Nat -> S] : f[0] = first /\ \A n \in Nat : f[n + 1] = g[f[n]]
  <2>1. StepOn(S, g)
    BY <1>4 DEF StepOn
  <2>2. \E f : Repeats(S, g, first, f)
    <3> HIDE DEF S, g, first
    <3> QED BY <1>3, <2>1, Iterates
  <2> QED BY <2>2 DEF Repeats
<1>6. \A n \in Nat : f[n + 1] = Halved(cost, budget, f[n])
  BY <1>5
<1>7. f = Body(f)
  <2>1. ASSUME NEW k \in Nat PROVE f[k] = IF k = 0 THEN first ELSE Halved(cost, budget, f[k - 1])
    <3>1. CASE k = 0
      BY <1>5, <3>1
    <3>2. CASE k # 0
      <4>1. k - 1 \in Nat /\ (k - 1) + 1 = k
        BY <3>2
      <4> QED BY <1>6, <3>2, <4>1
    <3> QED BY <3>1, <3>2
  <2>2. f = [k \in Nat |-> f[k]]
    BY <1>5
  <2> HIDE DEF first
  <2> QED BY <2>1, <2>2
<1>8. W = Body(W)
  <2> HIDE DEF Body
  <2> QED BY <1>7
<1> HIDE DEF W, g
<1>9. W[0] = first /\ \A n \in Nat : W[n + 1] = Halved(cost, budget, W[n])
  <2>1. \A k \in Nat : W[k] = Body(W)[k]
    BY <1>8
  <2>2. W[0] = first
    BY <2>1
  <2>3. ASSUME NEW n \in Nat PROVE W[n + 1] = Halved(cost, budget, W[n])
    <3>1. n + 1 \in Nat /\ n + 1 # 0 /\ (n + 1) - 1 = n
      OBVIOUS
    <3> QED BY <2>1, <3>1
  <2> QED BY <2>2, <2>3
<1> DEFINE T == {n \in Nat : /\ Bracket(cost, budget, m, W[n])
                             /\ n <= m => W[n].hi - W[n].lo <= m - n}
<1>10. 0 \in T
  <2>1. Bracket(cost, budget, m, W[0])
    <3> HIDE DEF first
    <3> QED BY <1>3, <1>9
  <2>2. W[0].hi = m /\ W[0].lo = 0
    BY <1>1, <1>9
  <2>3. W[0].hi - W[0].lo <= m - 0
    BY <2>2
  <2> QED BY <2>1, <2>3
<1>11. ASSUME NEW n \in Nat, n \in T PROVE n + 1 \in T
  <2> DEFINE at == W[n]
             to == W[n + 1]
  <2>1. Bracket(cost, budget, m, at) /\ (n <= m => at.hi - at.lo <= m - n)
    BY <1>11
  <2>2. to = Halved(cost, budget, at)
    BY <1>9
  <2> HIDE DEF at, to
  <2>3. /\ Bracket(cost, budget, m, to)
        /\ at.lo < at.hi => to.hi - to.lo < at.hi - at.lo
        /\ ~(at.lo < at.hi) => to = at
    BY <2>1, <2>2, HalvedKeeps
  <2>4. /\ at.lo \in Int /\ at.hi \in Int /\ at.lo <= at.hi
        /\ to.lo \in Int /\ to.hi \in Int /\ to.lo <= to.hi
    BY <2>1, <2>3 DEF Bracket
  <2>5. n + 1 <= m => to.hi - to.lo <= m - (n + 1)
    <3> SUFFICES ASSUME n + 1 <= m PROVE to.hi - to.lo <= m - (n + 1)
      OBVIOUS
    <3>1. at.hi - at.lo <= m - n
      BY <2>1
    <3>2. CASE at.lo < at.hi
      <4>1. to.hi - to.lo < at.hi - at.lo
        BY <2>3, <3>2
      <4> QED BY <2>4, <3>1, <4>1
    <3>3. CASE ~(at.lo < at.hi)
      <4>1. to = at
        BY <2>3, <3>3
      <4> QED BY <2>4, <3>3, <4>1
    <3> QED BY <3>2, <3>3
  <2> QED BY <2>3, <2>5 DEF to
<1>12. \A n \in Nat : n \in T
  <2> HIDE DEF T
  <2> QED BY <1>10, <1>11, EveryNat
<1>13. Bracket(cost, budget, m, W[m]) /\ W[m].hi - W[m].lo <= 0
  <2>1. m \in T
    BY <1>12
  <2>2. Bracket(cost, budget, m, W[m]) /\ W[m].hi - W[m].lo <= m - m
    BY ONLY m \in Nat, <2>1, SMTT(20)
  <2> QED BY <2>2
<1>14. W[m].lo = W[m].hi /\ W[m].lo \in 0..m
  <2> DEFINE x == W[m].lo
             y == W[m].hi
  <2>1. x \in 0..m /\ y \in 0..m /\ x <= y
    BY <1>13 DEF Bracket
  <2>2. y - x <= 0
    BY <1>13
  <2> HIDE DEF x, y
  <2>3. x = y
    BY <2>1, <2>2
  <2> QED BY <2>1, <2>3 DEF x, y
<1> QED BY <1>2, <1>13, <1>14 DEF Bracket

-----------------------------------------------------------------------------
\* The upgrades: what is used is what the tiers cost, and within the budget.
Prices(cost, n, tier) == [i \in 1..n |-> cost[i][tier[i]]]

Spent(cost, budget, n, fit) ==
  /\ fit \in [tier : [1..n -> 1..3], used : Int]
  /\ fit.used = Total(Prices(cost, n, fit.tier), n) /\ fit.used <= budget

LEMMA PricesAre ==
  ASSUME NEW m \in Nat, NEW cost \in CostLists(m), NEW n \in 0..m, NEW tier \in [1..n -> 1..3]
  PROVE  Prices(cost, n, tier) \in [1..n -> Int]
<1>1. \A i \in 1..n : i \in 1..m /\ tier[i] \in 1..3
  OBVIOUS
<1>2. \A i \in 1..m : \A t \in 1..3 : cost[i][t] \in Int
  BY DEF CostLists
<1> QED BY <1>1, <1>2 DEF Prices

LEMMA UpgradeKeeps ==
  ASSUME NEW m \in Nat, NEW cost \in CostLists(m), NEW budget \in Nat, NEW n \in 0..m,
         NEW fit, Spent(cost, budget, n, fit), NEW t \in {2, 3}, NEW j \in 1..n
  PROVE  Spent(cost, budget, n, Upgrade(cost, budget, fit, <<t, j>>))
<1> DEFINE was == cost[j][fit.tier[j]]
           extra == cost[j][t] - was
           to == Upgrade(cost, budget, fit, <<t, j>>)
           e == Prices(cost, n, fit.tier)
<1>1. fit.tier \in [1..n -> 1..3] /\ fit.used \in Int /\ fit.used = Total(e, n) /\ fit.used <= budget
  BY DEF Spent
<1>2. to = IF extra <= budget - fit.used
           THEN [tier |-> [fit.tier EXCEPT ![j] = t], used |-> fit.used + extra] ELSE fit
  BY DEF Upgrade
<1>3. e \in [1..n -> Int] /\ e[j] = was
  BY <1>1, PricesAre DEF Prices
<1>4. cost[j][t] \in Int
  <2>1. j \in 1..m /\ t \in 1..3
    OBVIOUS
  <2>2. cost[j] \in [1..3 -> Nat]
    BY <2>1 DEF CostLists
  <2> QED BY <2>1, <2>2
<1> DEFINE x == cost[j][t]
           tier == [fit.tier EXCEPT ![j] = t]
<1>5. tier \in [1..n -> 1..3]
  BY <1>1
<1>6. Prices(cost, n, tier) = [e EXCEPT ![j] = x]
  <2>1. ASSUME NEW i \in 1..n PROVE Prices(cost, n, tier)[i] = [e EXCEPT ![j] = x][i]
    <3>1. Prices(cost, n, tier)[i] = cost[i][tier[i]] /\ e[i] = cost[i][fit.tier[i]]
      BY DEF Prices
    <3>2. CASE i = j
      BY <1>1, <1>3, <3>1, <3>2
    <3>3. CASE i # j
      BY <1>1, <1>3, <3>1, <3>3
    <3> QED BY <3>2, <3>3
  <2>2. Prices(cost, n, tier) \in [1..n -> Int]
    <3> HIDE DEF tier
    <3> QED BY <1>5, PricesAre
  <2>3. [e EXCEPT ![j] = x] \in [1..n -> Int]
    BY <1>3, <1>4
  <2> HIDE DEF e, x, tier
  <2> QED BY <2>1, <2>2, <2>3
<1> HIDE DEF e, x, was, tier, to
<1>7. Total([e EXCEPT ![j] = x], n) = Total(e, n) + (x - e[j])
  <2>1. x \in Int /\ n \in Nat
    BY <1>4 DEF x
  <2> HIDE DEF extra
  <2> QED BY <1>3, <2>1, TotalChanged
<1>8. CASE extra <= budget - fit.used
  <2>1. to = [tier |-> tier, used |-> fit.used + extra]
    BY <1>2, <1>8 DEF tier
  <2>2. was \in Int
    BY <1>3
  <2>3. extra = x - was /\ x \in Int
    BY <1>4 DEF x
  <2>4. fit.used + extra = Total(Prices(cost, n, tier), n)
    BY <1>1, <1>3, <1>6, <1>7, <2>3
  <2>5. fit.used + extra \in Int /\ fit.used + extra <= budget
    BY <1>1, <1>8, <2>2, <2>3
  <2> DEFINE used == fit.used + extra
  <2>6. to = [tier |-> tier, used |-> used] /\ used \in Int /\ used <= budget
        /\ used = Total(Prices(cost, n, tier), n)
    BY <2>1, <2>4, <2>5
  <2> HIDE DEF extra, used
  <2>7. to \in [tier : [1..n -> 1..3], used : Int] /\ to.tier = tier /\ to.used = used
    BY <1>5, <2>6
  <2>8. Spent(cost, budget, n, to)
    BY <2>6, <2>7 DEF Spent
  <2> QED BY <2>8 DEF to
<1>9. CASE ~(extra <= budget - fit.used)
  <2>1. to = fit
    BY <1>2, <1>9
  <2> QED BY <2>1 DEF to
<1> QED BY <1>8, <1>9

LEMMA FitBudgetIs ==
  ASSUME NEW m \in Nat, NEW cost \in CostLists(m), NEW budget \in Nat
  PROVE  Spent(cost, budget, Bisect(cost, budget), FitBudget(cost, budget))
<1> DEFINE n == Bisect(cost, budget)
           stubs == [tier |-> [i \in 1..n |-> 1], used |-> PrefixCost(cost, n)]
           step(k) == IF k <= n THEN <<2, k>> ELSE <<3, k - n>>
           Body(w) == [k \in 0..2 * n |->
                         IF k = 0 THEN stubs
                         ELSE Upgrade(cost, budget, w[k - 1], IF k <= n THEN <<2, k>> ELSE <<3, k - n>>)]
           W == CHOOSE w : w = Body(w)
           S == {fit \in [tier : [1..n -> 1..3], used : Int] : Spent(cost, budget, n, fit)}
           P == Nat \X S
           next(p) == IF p[1] + 1 \in 1..2 * n
                      THEN Upgrade(cost, budget, p[2], step(p[1] + 1)) ELSE p[2]
           g == [p \in P |-> <<p[1] + 1, next(p)>>]
           first == <<0, stubs>>
<1>1. n \in 0..m /\ n \in Nat /\ PrefixCost(cost, n) <= budget
  BY BisectIs
<1>2. FitBudget(cost, budget) = W[2 * n]
  BY DEF FitBudget
<1> HIDE DEF n
<1>3. stubs \in S
  <2> DEFINE ones == [i \in 1..n |-> 1]
             all == [i \in DOMAIN cost |-> cost[i][1]]
             few == Prices(cost, n, ones)
  <2>1. ones \in [1..n -> 1..3]
    OBVIOUS
  <2>2. few \in [1..n -> Int]
    <3> HIDE DEF ones
    <3> QED BY <1>1, <2>1, PricesAre
  <2>3. all \in [1..m -> Int] /\ \A i \in 1..n : few[i] = all[i]
    <3>1. DOMAIN cost = 1..m /\ \A i \in 1..m : cost[i] \in [1..3 -> Nat]
      BY DEF CostLists
    <3>2. \A i \in 1..m : cost[i][1] \in Int
      BY <3>1
    <3>3. \A i \in 1..n : i \in 1..m
      BY <1>1
    <3> QED BY <3>1, <3>2, <3>3 DEF Prices
  <2>4. PrefixCost(cost, n) = Total(all, n)
    BY DEF PrefixCost
  <2>5. Total(few, n) = Total(all, n)
    <3> HIDE DEF few, all
    <3> QED BY <1>1, <2>2, <2>3, TotalSame
  <2>6. PrefixCost(cost, n) \in Int
    BY <1>1, PrefixCostIs
  <2>7. stubs \in [tier : [1..n -> 1..3], used : Int] /\ stubs.tier = ones /\ stubs.used = PrefixCost(cost, n)
    BY <2>1, <2>6
  <2> HIDE DEF ones, stubs
  <2>8. Spent(cost, budget, n, stubs)
    BY <1>1, <2>4, <2>5, <2>7 DEF Spent
  <2> QED BY <2>7, <2>8
<1>4. ASSUME NEW fit \in S, NEW k \in 1..2 * n PROVE Upgrade(cost, budget, fit, step(k)) \in S
  <2>1. Spent(cost, budget, n, fit)
    OBVIOUS
  <2>2. CASE k <= n
    <3>1. step(k) = <<2, k>> /\ k \in 1..n
      BY <1>1, <2>2
    <3>2. Spent(cost, budget, n, Upgrade(cost, budget, fit, <<2, k>>))
      BY <1>1, <2>1, <3>1, UpgradeKeeps
    <3> HIDE DEF step
    <3> QED BY <3>1, <3>2 DEF Spent
  <2>3. CASE ~(k <= n)
    <3> DEFINE j == k - n
    <3>1. step(k) = <<3, j>> /\ j \in 1..n
      BY <1>1, <2>3
    <3> HIDE DEF step, j
    <3>2. Spent(cost, budget, n, Upgrade(cost, budget, fit, <<3, j>>))
      BY <1>1, <2>1, <3>1, UpgradeKeeps
    <3> QED BY <3>1, <3>2 DEF Spent
  <2> QED BY <2>2, <2>3
<1> HIDE DEF S, stubs
<1>5. StepOn(P, g) /\ first \in P
  <2>1. ASSUME NEW p \in P PROVE next(p) \in S /\ p[1] + 1 \in Nat
    <3>1. p[1] \in Nat /\ p[2] \in S
      OBVIOUS
    <3> HIDE DEF step
    <3> QED BY <1>4, <3>1
  <2> HIDE DEF next
  <2>2. \A p \in P : <<p[1] + 1, next(p)>> \in P
    BY <2>1
  <2> QED BY <1>3, <2>2 DEF StepOn
<1>6. PICK h : h \in [Nat -> P] /\ h[0] = first /\ \A k \in Nat : h[k + 1] = g[h[k]]
  <2>1. \E h : Repeats(P, g, first, h)
    <3> HIDE DEF P, g, first
    <3> QED BY <1>5, Iterates
  <2> QED BY <2>1 DEF Repeats
<1>7. \A k \in Nat : h[k] \in P /\ h[k + 1] = <<h[k][1] + 1, next(h[k])>>
  BY <1>6
<1> HIDE DEF P, next, g
<1>8. \A k \in Nat : h[k][1] = k
  <2> DEFINE T == {k \in Nat : h[k][1] = k}
  <2>1. 0 \in T
    BY <1>6
  <2>2. ASSUME NEW k \in Nat, k \in T PROVE k + 1 \in T
    <3>1. h[k + 1][1] = h[k][1] + 1
      BY <1>7
    <3> QED BY <2>2, <3>1
  <2>3. \A k \in Nat : k \in T
    <3> HIDE DEF T
    <3> QED BY <2>1, <2>2, EveryNat
  <2> QED BY <2>3
<1> DEFINE U == [k \in 0..2 * n |-> h[k][2]]
<1>9. U[0] = stubs /\ \A k \in 1..2 * n : U[k] = Upgrade(cost, budget, U[k - 1], step(k))
  <2>1. U[0] = stubs
    BY <1>1, <1>6
  <2>2. ASSUME NEW k \in 1..2 * n PROVE U[k] = Upgrade(cost, budget, U[k - 1], step(k))
    <3> HIDE DEF step
    <3>1. k - 1 \in Nat /\ (k - 1) + 1 = k /\ k - 1 \in 0..2 * n /\ k \in 0..2 * n
      BY <1>1
    <3>2. h[k][2] = next(h[k - 1])
      <4> DEFINE i == k - 1
      <4>1. i \in Nat /\ i + 1 = k
        BY <3>1
      <4> HIDE DEF i
      <4>2. h[i + 1] = <<h[i][1] + 1, next(h[i])>>
        BY <1>7, <4>1
      <4>3. h[i + 1][2] = next(h[i])
        BY <4>2
      <4> QED BY <4>1, <4>3 DEF i
    <3>3. h[k - 1][1] + 1 = k
      BY <1>8, <3>1
    <3>4. next(h[k - 1]) = Upgrade(cost, budget, h[k - 1][2], step(k))
      BY <3>3 DEF next
    <3> QED BY <3>1, <3>2, <3>4
  <2> QED BY <2>1, <2>2
<1>10. U = Body(U)
  <2>1. ASSUME NEW k \in 0..2 * n
        PROVE  U[k] = IF k = 0 THEN stubs ELSE Upgrade(cost, budget, U[k - 1], step(k))
    <3> HIDE DEF U, step
    <3>1. k # 0 => k \in 1..2 * n
      BY <1>1
    <3> QED BY <1>9, <3>1
  <2>2. U = [k \in 0..2 * n |-> U[k]]
    OBVIOUS
  <2> HIDE DEF U
  <2> QED BY <2>1, <2>2
<1> HIDE DEF U
<1>11. W = Body(W)
  <2> HIDE DEF Body
  <2> QED BY <1>10
<1> HIDE DEF W
<1>12. \A k \in 0..2 * n : W[k] = IF k = 0 THEN stubs ELSE Upgrade(cost, budget, W[k - 1], step(k))
  <2>1. \A k \in 0..2 * n : Body(W)[k] = IF k = 0 THEN stubs ELSE Upgrade(cost, budget, W[k - 1], step(k))
    OBVIOUS
  <2> HIDE DEF Body, step
  <2> QED BY <1>11, <2>1
<1> HIDE DEF step, Body
<1> DEFINE T == {k \in Nat : k <= 2 * n => W[k] \in S}
<1>13. 0 \in T
  <2>1. 0 \in 0..2 * n
    BY <1>1
  <2> QED BY <1>3, <1>12, <2>1
<1>14. ASSUME NEW k \in Nat, k \in T PROVE k + 1 \in T
  <2> SUFFICES ASSUME k + 1 <= 2 * n PROVE W[k + 1] \in S
    OBVIOUS
  <2>1. k + 1 \in 1..2 * n /\ k + 1 \in 0..2 * n /\ k + 1 # 0 /\ (k + 1) - 1 = k /\ k <= 2 * n
    BY <1>1
  <2>2. W[k] \in S
    BY <1>14, <2>1
  <2>3. W[k + 1] = Upgrade(cost, budget, W[k], step(k + 1))
    BY <1>12, <2>1
  <2> QED BY <1>4, <2>1, <2>2, <2>3
<1>15. \A k \in Nat : k \in T
  <2> HIDE DEF T
  <2> QED BY <1>13, <1>14, EveryNat
<1>16. 2 * n \in Nat /\ 2 * n <= 2 * n
  BY <1>1
<1>17. W[2 * n] \in S
  BY <1>15, <1>16
<1> QED BY <1>2, <1>17 DEF S, n

-----------------------------------------------------------------------------
BudgetInvariant ==
  /\ phase = "costs" => corpus \in UNION {[1..n -> Costs] : n \in 0..N}
  /\ BudgetFits

LEMMA FitKeeps ==
  ASSUME BudgetInvariant, NEW budget \in 1..MaxBudget, Fit(budget)
  PROVE  BudgetInvariant'
<1>1. phase = "costs" /\ phase' = "fitted" /\ ask' = budget /\ corpus' = corpus
      /\ answer' = FitBudget(corpus, budget)
  BY DEF Fit
<1>2. budget \in Nat /\ N \in Nat
  BY RetrievalAssumption
<1>3. PICK m \in 0..N : corpus \in [1..m -> Costs]
  BY <1>1 DEF BudgetInvariant
<1>4. m \in Nat /\ corpus \in CostLists(m)
  BY <1>2, <1>3, RetrievalAssumption DEF CostLists
<1> DEFINE n == Bisect(corpus, budget)
<1>5. /\ n \in 0..m /\ \A j \in (n + 1)..m : PrefixCost(corpus, j) > budget
      /\ Spent(corpus, budget, n, answer')
  BY <1>1, <1>2, <1>4, BisectIs, FitBudgetIs
<1> HIDE DEF n
<1>6. Len(corpus) = m
  <2>1. corpus \in Seq(Costs)
    BY <1>3, <1>4, SeqDef
  <2>2. DOMAIN corpus = 1..m /\ DOMAIN corpus = 1..Len(corpus) /\ Len(corpus) \in Nat
    BY <1>3, <2>1, LenProperties
  <2> QED BY <1>4, <2>2
<1>7. n \in Nat /\ answer'.tier \in [1..n -> 1..3]
  BY <1>4, <1>5 DEF Spent
<1>8. Len(answer'.tier) = n
  <2> DEFINE tier == answer'.tier
  <2>1. tier \in [1..n -> 1..3] /\ n \in Nat
    BY <1>7
  <2> HIDE DEF tier
  <2>2. tier \in Seq(1..3)
    BY <2>1, SeqDef
  <2>3. DOMAIN tier = 1..n /\ DOMAIN tier = 1..Len(tier) /\ Len(tier) \in Nat
    BY <2>1, <2>2, LenProperties
  <2>4. Len(tier) = n
    BY <2>1, <2>3
  <2> QED BY <2>4 DEF tier
<1>9. /\ answer'.used <= budget
      /\ answer'.used = Total([i \in 1..n |-> corpus[i][answer'.tier[i]]], n)
  BY <1>5 DEF Spent, Prices
<1>10. BudgetFits'
  BY <1>1, <1>5, <1>6, <1>8, <1>9 DEF BudgetFits
<1> QED BY <1>1, <1>10 DEF BudgetInvariant

\* For every list of costs and every budget: the budget is kept, what is
\* reported as used is what the results cost, and the results are the longest
\* prefix of the ranking that fits as stubs.
THEOREM BudgetsAreKept == RetrievalSpec => []BudgetFits
<1>1. RetrievalInit => BudgetInvariant
  BY DEF RetrievalInit, BudgetInvariant, BudgetFits
<1>2. BudgetInvariant /\ [RetrievalNext]_retrievalVars => BudgetInvariant'
  <2> SUFFICES ASSUME BudgetInvariant, [RetrievalNext]_retrievalVars PROVE BudgetInvariant'
    OBVIOUS
  <2>1. ASSUME NEW q \in Questions, AskDocs(q) \/ AskChunks(q) PROVE BudgetInvariant'
    <3>1. phase' \in {"asked", "docs", "chunks"}
      BY <2>1 DEF AskDocs, AskChunks
    <3> QED BY <3>1 DEF BudgetInvariant, BudgetFits
  <2>2. ASSUME NEW owner, NEW floor, AskBoot(owner, floor) \/ AskStatic(owner, floor)
        PROVE  BudgetInvariant'
    <3>1. phase' \in {"boot", "static"}
      BY <2>2 DEF AskBoot, AskStatic
    <3> QED BY <3>1 DEF BudgetInvariant, BudgetFits
  <2>3. ASSUME NEW order \in Orders, Rerank(order) PROVE BudgetInvariant'
    <3>1. phase' = "docs"
      BY <2>3 DEF Rerank
    <3> QED BY <3>1 DEF BudgetInvariant, BudgetFits
  <2>4. ASSUME NEW budget \in 1..MaxBudget, Fit(budget) PROVE BudgetInvariant'
    BY <2>4, FitKeeps
  <2>5. CASE UNCHANGED retrievalVars
    BY <2>5 DEF retrievalVars, BudgetInvariant, BudgetFits
  <2> QED BY <2>1, <2>2, <2>3, <2>4, <2>5 DEF RetrievalNext
<1>3. BudgetInvariant => BudgetFits
  BY DEF BudgetInvariant
<1> QED BY <1>1, <1>2, <1>3, PTL DEF RetrievalSpec
=============================================================================
