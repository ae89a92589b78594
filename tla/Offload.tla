------------------------------ MODULE Offload ------------------------------
(***************************************************************************)
(* The bounded pools every blocking call of the server runs on             *)
(* (offload.py), with the routes and tools that submit to them and the     *)
(* watchdog that restarts a wedged process.                                *)
(*                                                                         *)
(* A deadline ends only the wait: the event loop answers a timeout and the *)
(* worker goes on, an orphan that keeps its slot until it returns.  A call *)
(* may be stuck for good, with or without the connection that all recalls  *)
(* share.  The event loop runs one step at a time; `loop' says whether it  *)
(* still runs.  Time advances by Tick; ages stop counting where no         *)
(* comparison can tell them apart.                                         *)
(***************************************************************************)
EXTENDS Naturals, FiniteSets, Sequences, FiniteSetsExt, SequencesExt

CONSTANTS
    Calls,            \* slots for requests in progress
    RecallWorkers,    \* OFFLOAD_MAX_WORKERS
    HeavyWorkers,     \* HEAVY_WORKERS
    BootWait,         \* _BOOT_OFFLOAD_TIMEOUT_SEC
    ToolWait,         \* TOOL_TIMEOUT_SEC
    SaturationSec,    \* WATCHDOG_SATURATION_SEC
    StaticRecall,     \* whether the degraded recall of /api/boot is enabled
    Kinds,            \* of the requests: some of "boot", "read", "write", "capture"
    Hangs             \* what may become of a running call: see Start

ASSUME OffloadAssumption ==
    /\ IsFiniteSet(Calls)
    /\ RecallWorkers \in Nat \ {0} /\ HeavyWorkers \in Nat \ {0}
    /\ BootWait \in Nat /\ ToolWait \in Nat /\ SaturationSec \in Nat \ {0}
    /\ StaticRecall \in BOOLEAN
    /\ Kinds \subseteq {"boot", "read", "write", "capture"}
    /\ Hangs \subseteq {"no", "elsewhere", "connection"}

VARIABLES
    call,     \* each request: its stage, kind, age since it registered, whether a
              \* caller waits, whether it is in _inflight, where it hangs
    queues,   \* the calls each executor has not started, oldest first
    loop,     \* the event loop: "runs" or "blocked"
    up,       \* FALSE between the watchdog's exit and the restart
    held      \* history: for how long orphans have held every recall worker

offloadVars == <<call, queues, loop, up, held>>

\* MCP tools, reads and writes alike, and /api/boot run on the recall pool
Pool(kind) == IF kind = "capture" THEN "heavy" ELSE "recall"
Workers(p) == IF p = "heavy" THEN HeavyWorkers ELSE RecallWorkers
Wait(kind) == IF kind = "boot" THEN BootWait ELSE ToolWait
MaxAge == Wait("read") + Wait("boot") + SaturationSec

Free == [stage |-> "free", kind |-> "read", age |-> 0, waiting |-> FALSE,
         inflight |-> FALSE, hang |-> "no"]

Running(p) == {c \in Calls : call[c].stage = "running" /\ Pool(call[c].kind) = p}
Inflight(p) == {c \in Calls : call[c].inflight /\ Pool(call[c].kind) = p}
Late(c) == call[c].age > Wait(call[c].kind)
Orphans == {c \in Inflight("recall") : Late(c)}

Saturated == Cardinality(Inflight("recall")) >= RecallWorkers

\* mutant: the longest-stuck orphan decides, not the shortest
SaturatedForLongest ==
    IF Cardinality(Orphans) < RecallWorkers THEN 0
    ELSE Max({call[c].age - Wait(call[c].kind) : c \in Orphans})

\* how long every recall worker has been held by a call past its deadline
SaturatedFor ==
    IF Cardinality(Orphans) < RecallWorkers THEN 0
    ELSE Min({call[c].age - Wait(call[c].kind) : c \in Orphans})

OffloadInit ==
    /\ call = [c \in Calls |-> Free]
    /\ queues = [p \in {"recall", "heavy"} |-> <<>>]
    /\ loop = "runs" /\ up = TRUE /\ held = 0

LoopRuns == up /\ loop = "runs"

\* The static recall runs on the event loop itself and reads the shared connection.
InlineRecall ==
    loop' = IF StaticRecall /\ \E c \in Calls : call[c].hang = "connection"
            THEN "blocked" ELSE "runs"

\* /api/boot finds the pool full: degraded or empty answer at once
ShedBoot == LoopRuns /\ Saturated /\ InlineRecall /\ UNCHANGED <<call, queues, up, held>>

\* /api/boot finds room; the request then awaits is_disconnected()
AdmitBoot(c) ==
    /\ LoopRuns /\ call[c].stage = "free" /\ ~Saturated
    /\ call' = [call EXCEPT ![c] = [Free EXCEPT !.stage = "admitted", !.kind = "boot"]]
    /\ UNCHANGED <<queues, loop, up, held>>

\* off_loop or off_loop_heavy up to the await: register and submit
Submit(c, kind) ==
    /\ LoopRuns
    /\ call[c].stage = (IF kind = "boot" THEN "admitted" ELSE "free")
    /\ call' = [call EXCEPT ![c] = [Free EXCEPT !.stage = "queued", !.kind = kind,
                                                !.waiting = TRUE, !.inflight = TRUE]]
    /\ queues' = [queues EXCEPT ![Pool(kind)] = Append(@, c)]
    /\ UNCHANGED <<loop, up, held>>

\* An idle worker takes the oldest call, which returns some day, hangs in the
\* connection (one thread at a time can) or hangs elsewhere.
Start(p) ==
    /\ up /\ queues[p] # <<>> /\ Cardinality(Running(p)) < Workers(p)
    /\ \E hang \in Hangs :
          /\ hang = "connection" => \A c \in Calls : call[c].hang # "connection"
          /\ call' = [call EXCEPT ![Head(queues[p])].stage = "running",
                                  ![Head(queues[p])].hang = hang]
    /\ queues' = [queues EXCEPT ![p] = Tail(@)]
    /\ UNCHANGED <<loop, up, held>>

\* the callback of the raw future unregisters, the caller gets the result
Finish(c) ==
    /\ up /\ call[c].stage = "running" /\ call[c].hang = "no"
    /\ call' = [call EXCEPT ![c] = Free]
    /\ held' = IF Pool(call[c].kind) = "recall" THEN 0 ELSE held
    /\ UNCHANGED <<queues, loop, up>>

\* mutant: the timed-out await unregisters the call, running or not
AbandonedForgets(c) ==
    IF call[c].stage = "queued" THEN Free
    ELSE [call[c] EXCEPT !.waiting = FALSE, !.inflight = FALSE]

\* cancelling the raw future frees a call that has not started and no other
Abandoned(c) ==
    IF call[c].stage = "queued" THEN Free ELSE [call[c] EXCEPT !.waiting = FALSE]

\* The executor drops a cancelled call that has not started.
Unqueue(c, p) ==
    IF call[c].stage = "queued"
    THEN \E i \in DOMAIN queues[p] :
            queues[p][i] = c /\ queues' = [queues EXCEPT ![p] = RemoveAt(@, i)]
    ELSE UNCHANGED queues

\* wait_for gives up: 504, tool_timeout, or the degraded pack of /api/boot
Expire(c) ==
    /\ LoopRuns /\ call[c].waiting /\ call[c].age >= Wait(call[c].kind)
    /\ call' = [call EXCEPT ![c] = Abandoned(c)]
    /\ Unqueue(c, Pool(call[c].kind))
    /\ IF call[c].kind = "boot" THEN InlineRecall ELSE UNCHANGED loop
    /\ UNCHANGED <<up, held>>

\* A running loop answers a deadline before more time passes.
Tick ==
    /\ up
    /\ LoopRuns => \A c \in Calls : call[c].waiting => call[c].age < Wait(call[c].kind)
    /\ call' = [c \in Calls |->
                  IF call[c].stage \in {"queued", "running"} /\ call[c].age < MaxAge
                  THEN [call[c] EXCEPT !.age = @ + 1] ELSE call[c]]
    /\ held' = IF Cardinality({c \in Running("recall") :
                                 call'[c].age > Wait(call[c].kind)}) < RecallWorkers
               THEN 0 ELSE Min({held + 1, SaturationSec})
    /\ UNCHANGED <<queues, loop, up>>

\* the watchdog polls: os._exit(1)
SelfHeal ==
    /\ LoopRuns /\ SaturatedFor >= SaturationSec
    /\ up' = FALSE
    /\ UNCHANGED <<call, queues, loop, held>>

\* launchd starts a new process with empty pools
Restart == ~up /\ call' = [c \in Calls |-> Free]
           /\ queues' = [p \in DOMAIN queues |-> <<>>]
           /\ loop' = "runs" /\ up' = TRUE /\ held' = 0

OffloadNext ==
    \/ Tick \/ SelfHeal \/ Restart
    \/ "boot" \in Kinds /\ (ShedBoot \/ \E c \in Calls : AdmitBoot(c))
    \/ \E c \in Calls : Finish(c) \/ Expire(c)
                        \/ \E kind \in Kinds : Submit(c, kind)
    \/ \E p \in {"recall", "heavy"} : Start(p)

OffloadSpec == OffloadInit /\ [][OffloadNext]_offloadVars

(***************************************************************************)
(* Properties.                                                             *)
(***************************************************************************)

\* The watchdog kills the process only when every recall worker has been held
\* by a call past its own deadline for the whole saturation time: one long-lost
\* worker beside newly late ones is no wedge (saturated_for takes the minimum).
RestartIsDeserved == ~up => held >= SaturationSec

Wedged(p) == Cardinality({c \in Running(p) : call[c].hang # "no"}) = Workers(p)

\* A recall pool whose workers all hang for good is noticed and the process
\* restarted, although every caller was answered with a timeout long before; with
\* the static recall off, as it is by default (config.py:148): for the other case
\* see LoopNeverBlocks.
RecallWedgeHeals == Wedged("recall") ~> ~up

\* The same of the heavy pool.  saturated_for() reads _inflight only: a heavy
\* pool that hangs answers 504 for ever (server.py:369 says every caller runs on
\* the pool the watchdog watches).
HeavyWedgeHeals == Wedged("heavy") ~> ~up

\* A boot is submitted only to an idle worker: "do NOT queue a recall"
\* (server.py:1130).  Between pool_saturated() and the submission the request
\* awaits is_disconnected(), so boots that all saw one idle worker queue.
BootNeverQueues ==
    \A i \in DOMAIN queues["recall"] :
        call[queues["recall"][i]].kind = "boot"
            => Cardinality(Running("recall")) + i <= RecallWorkers

\* "a slow write ... can never occupy a worker that /api/boot and search depend
\* on" (offload.py:136-138).  The MCP write tools run on the recall pool.
WritesSpareRecall == \A c \in Running("recall") : call[c].kind # "write"

\* No blocking call runs on the event loop (offload.py:3).  The static recall
\* of /api/boot does, on a connection a hung worker may hold: the loop then
\* stops, and the watchdog with it.
LoopNeverBlocks == loop = "runs"
=============================================================================
