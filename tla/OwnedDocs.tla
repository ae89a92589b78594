----------------------------- MODULE OwnedDocs -----------------------------
(***************************************************************************)
(* What the store promises of an owned document, whatever runs beside it:  *)
(* a write or a delete happens at once, and the body it takes away stays   *)
(* recoverable, as a version of the doc or as its tombstone.               *)
(***************************************************************************)
CONSTANTS Exts, Bodies, NoBody

VARIABLES
  body,      \* per ext_id, the stored body or NoBody
  versions,  \* per ext_id, the bodies it had
  tombs      \* <<ext_id, body>> of the deleted docs

vars == <<body, versions, tombs>>

Init ==
  /\ body = [e \in Exts |-> NoBody]
  /\ versions = [e \in Exts |-> {}]
  /\ tombs = {}

Write(e, b) ==
  /\ body' = [body EXCEPT ![e] = b]
  /\ versions' = [versions EXCEPT ![e] = @ \cup ({body[e]} \ {NoBody, b})]
  /\ UNCHANGED tombs

Delete(e) ==
  /\ body[e] # NoBody
  /\ tombs' = tombs \cup {<<e, body[e]>>}
  /\ body' = [body EXCEPT ![e] = NoBody]
  /\ versions' = [versions EXCEPT ![e] = {}]

Next == \E e \in Exts : Delete(e) \/ \E b \in Bodies : Write(e, b)

Spec == Init /\ [][Next]_vars
=============================================================================
