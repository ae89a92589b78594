--------------------------- MODULE ReindexIntents ---------------------------
(***************************************************************************)
(* What the reindex op-log promises the callers of enqueue(): a request    *)
(* that was accepted is owed until a run that started AFTER its acceptance *)
(* takes it up, and a run that never reaches its end gives back what it    *)
(* had taken ("no request's intent is ever dropped", index_jobs.py:14-18). *)
(* How requests are coalesced into rows is the business of IndexJobs.      *)
(***************************************************************************)

CONSTANT Intents    \* everything a caller can ask for

VARIABLES
  owed,     \* accepted, and no run has started for it since
  running   \* what the run in progress is working on

vars == <<owed, running>>

Init == owed = {} /\ running = {}

\* Requests become durable.
Accept ==
  /\ owed' \in SUBSET Intents
  /\ owed \subseteq owed'
  /\ UNCHANGED running

\* A run starts on owed intents; those asked for again meanwhile stay owed.
Take ==
  /\ running' \in SUBSET owed
  /\ owed' \in SUBSET owed
  /\ owed \ running' \subseteq owed'

\* The run in progress ends.
Finish == running' = {} /\ UNCHANGED owed

\* The run in progress is lost before its end.
Abandon == running' = {} /\ owed' = owed \cup running

Next == Accept \/ Take \/ Finish \/ Abandon

Spec == Init /\ [][Next]_vars
=============================================================================
