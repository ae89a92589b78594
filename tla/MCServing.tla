----------------------------- MODULE MCServing -----------------------------
(***************************************************************************)
(* The services that run beside the requests, one `part' per behaviour:    *)
(* they share no state, so their state spaces add up and do not multiply.  *)
(***************************************************************************)
EXTENDS Offload, WalCheckpoint, QueryLog, Watch

VARIABLE part

allVars == <<part, offloadVars, walVars, queryLogVars, watchVars>>

Init ==
    /\ part \in {"offload", "wal", "querylog", "watch"}
    /\ OffloadInit /\ WalInit /\ QueryLogInit /\ WatchInit

OffloadPart == part = "offload" /\ OffloadNext
               /\ UNCHANGED <<part, walVars, queryLogVars, watchVars>>
WalPart == part = "wal" /\ WalNext
           /\ UNCHANGED <<part, offloadVars, queryLogVars, watchVars>>
QueryLogPart == part = "querylog" /\ QueryLogNext
                /\ UNCHANGED <<part, offloadVars, walVars, watchVars>>
WatchPart == part = "watch" /\ WatchNext
             /\ UNCHANGED <<part, offloadVars, walVars, queryLogVars>>

Next == OffloadPart \/ WalPart \/ QueryLogPart \/ WatchPart

\* Time passes, a running event loop runs its callbacks and the watchdog's poll,
\* and launchd restarts what has exited.
OffloadFairness ==
    /\ WF_offloadVars(part = "offload" /\ Tick)
    /\ WF_offloadVars(part = "offload" /\ SelfHeal)
    /\ WF_offloadVars(part = "offload" /\ Restart)
    /\ \A c \in Calls : WF_offloadVars(part = "offload" /\ Expire(c))

\* The timer ticks, and a tick ends: it gets what it waits for or times out.
WalFairness ==
    /\ WF_walVars(part = "wal" /\ TickPassive)
    /\ WF_walVars(part = "wal" /\ TickTruncate)
    /\ WF_walVars(part = "wal" /\ (TickLocks \/ TickShrinks \/ TickGivesUp))

\* The writer thread and the callers that log by themselves go on; so does a
\* reindex that finds the lock free for good.  Nobody has to write on the served
\* connection.
QueryLogFairness ==
    /\ WF_queryLogVars(part = "querylog" /\ WriterSteps)
    /\ WF_queryLogVars(part = "querylog" /\ EndDirect)
    /\ WF_queryLogVars(part = "querylog" /\ ReindexBegins)

Spec == /\ Init /\ [][Next]_allVars
        /\ OffloadFairness /\ WalFairness /\ QueryLogFairness
=============================================================================
