------------------------- MODULE SyncSourceProofs -------------------------
(***************************************************************************)
(* Proofs that a connector's jobs keep the docs of their source: a sync    *)
(* run skips no record, a collection takes nothing that is indexed.        *)
(***************************************************************************)
EXTENDS SyncSource, FiniteSetTheorems, TLAPS

Jobs ==
  [pc : {"idle", "retry", "walk", "poll", "list", "apply"},
   newest : Mtimes, todo : SUBSET Paths, fresh : SUBSET (Paths \X Mtimes),
   batch : SUBSET Paths, full : SUBSET Paths, failed : SUBSET Paths,
   known : SUBSET Paths, hidden : SUBSET Paths, due : SUBSET Paths,
   replaced : SUBSET Paths, heir : SUBSET (Paths \X Paths), listing : SUBSET Paths]

\* The file system's clock moves by edits, and each phase uses its own part of
\* the job.
PhaseInv ==
  /\ clock <= edits + 1
  /\ job.full # {} => job.pc \in {"retry", "poll"}
  /\ job.fresh # {} => job.pc \in {"walk", "poll"}
  /\ job.batch # {} => job.pc \in {"retry", "walk", "poll"}
  /\ job.replaced \subseteq job.known
  /\ job.known # {} => job.pc \in {"list", "apply"}

BehindCursor(p) == Exists(p) /\ files[p].mtime <= journal.cursor

\* What the last good run left: a file its cursor has passed is indexed as it
\* is, or is to be replayed.
JournalInv ==
  disturbed = {} =>
    \A p \in Paths : BehindCursor(p) => InSync(p) \/ p \in journal.retry

\* What is to be replayed is read again before the tree is walked.
ReplayInv ==
  disturbed = {} /\ job.pc \in {"retry", "walk"} =>
    \A p \in journal.retry :
      BehindCursor(p) =>
        InSync(p) \/ p \in job.failed \cup job.batch \/ (job.pc = "retry" /\ p \in job.todo)

\* The cursor the run will leave has not passed a file written since.
AboveReach(p) == \A m \in CursorReach : files[p].mtime > m

\* What the walk has passed is indexed, or on its way, or was written later.
WalkInv ==
  disturbed = {} /\ job.pc \in {"walk", "poll"} =>
    \A p \in Paths :
      Exists(p) =>
        \/ InSync(p)
        \/ p \in job.failed \cup job.batch
        \/ \E m \in Mtimes : <<p, m>> \in job.fresh
        \/ job.pc = "walk" /\ p \in job.todo
        \/ job.pc = "poll" /\ p \in edited /\ AboveReach(p)

BatchInv == \A p \in job.batch \ edited : Exists(p)

Listed(p) == job.pc = "apply" \/ (job.pc = "list" /\ p \notin job.todo)

\* A file that was not there when it was listed has been written since.
ListInv ==
  \A p \in Paths :
    Listed(p) /\ p \notin job.listing /\ Exists(p) /\ disturbed = {} =>
      files[p].mtime > journal.cursor

\* A row the collection knows and no other process replaced is a stored doc
\* until the collection has dealt with it, and was missing if it is not listed.
KnownInv ==
  \A p \in job.known \ job.replaced :
    /\ job.pc = "list" \/ p \in job.todo => Stored(p)
    /\ job.pc = "list" /\ ~Exists(p) => p \in missing
    /\ Listed(p) /\ p \notin job.listing => p \in missing

\* A file nobody edits is listed exactly if it exists, and its doc dealt with
\* accordingly.
SettledInv ==
  /\ job.pc = "apply" => job.todo \subseteq job.known
  /\ job.pc = "list" => job.todo \cap job.listing = {}
  /\ \A p \in Paths \ edited :
       /\ Listed(p) => (p \in job.listing <=> Exists(p))
       /\ p \in job.replaced => ~Exists(p) /\ ~Stored(p)
       /\ job.pc = "apply" /\ p \in job.known \ job.todo /\ Stored(p) =>
            (docs[p].life = "active" <=> Exists(p))

\* What a collection read of a doc, it still has to act on.
Live(k) == job.pc = "list" \/ k \in job.todo

\* While no other row has a doc's id, what was read of it holds.
ReadInv ==
  \A p \in job.known \ job.replaced :
    Live(p) => /\ p \in job.hidden <=> docs[p].life = "pending_delete"
               /\ p \in job.due => docs[p].due

\* A doc that has the id of another is there when the collection comes to that
\* id, for which there is no second; its row is new, which its file is too unless
\* it is one to be replayed.
HeirInv ==
  /\ \A e \in job.heir : e[1] \in job.replaced /\ (Live(e[1]) => Stored(e[2]))
  /\ \A e, f \in job.heir : e[2] = f[2] /\ Live(e[1]) /\ Live(f[1]) => e[1] = f[1]
  /\ \A p \in Heirs :
       /\ p \in job.known => p \in edited
       /\ p \in job.known /\ Live(p) => p \in job.replaced
       /\ disturbed = {} /\ BehindCursor(p) => p \in journal.retry
  /\ \A p \in job.known \ edited : Exists(p) => Stored(p)

IndInv ==
  /\ TypeOK /\ PhaseInv /\ JournalInv /\ ReplayInv /\ WalkInv /\ BatchInv
  /\ ListInv /\ KnownInv /\ SettledInv /\ ReadInv /\ HeirInv

-----------------------------------------------------------------------------
(***************************************************************************)
(* The types of the parts.                                                 *)
(***************************************************************************)
LEMMA Typed ==
  ASSUME IndInv
  PROVE  /\ Mtimes \subseteq Nat /\ Vers \subseteq Nat /\ job \in Jobs
         /\ files \in [Paths -> [ver : Vers, mtime : Mtimes]]
         /\ \A p \in Paths : files[p].ver \in Vers /\ files[p].mtime \in Mtimes
         /\ docs \in [Paths -> Doc \cup {NoDoc}]
         /\ journal.cursor \in Mtimes /\ journal.retry \subseteq Paths
         /\ CursorReach \subseteq Mtimes
<1>1. /\ Mtimes \subseteq Nat /\ Vers \subseteq Nat /\ job \in Jobs
      /\ files \in [Paths -> [ver : Vers, mtime : Mtimes]]
      /\ docs \in [Paths -> Doc \cup {NoDoc}]
      /\ journal.cursor \in Mtimes /\ journal.retry \subseteq Paths
  BY ConstantsAssumption DEF IndInv, TypeOK, Jobs, Mtimes, Vers
<1>2. \A p \in Paths : files[p].ver \in Vers /\ files[p].mtime \in Mtimes
  BY <1>1
<1>3. CursorReach \subseteq Mtimes
  BY <1>1 DEF CursorReach, Jobs
<1> QED BY <1>1, <1>2, <1>3

\* What becomes of a doc that is indexed: it is as its file, and hidden as it was.
LEMMA IndexedIs ==
  ASSUME IndInv, NEW p \in Paths
  PROVE  /\ Indexed(p) \in Doc \cup {NoDoc}
         /\ Indexed(p).ver = files[p].ver
         /\ Stored(p) /\ Exists(p) =>
              Indexed(p).life = docs[p].life /\ Indexed(p).due = docs[p].due
         /\ ~Stored(p) /\ Exists(p) => Indexed(p).life = "active"
<1>1. docs[p] \in Doc \cup {NoDoc} /\ files[p].ver \in Vers
  BY Typed
<1>2. CASE ~Exists(p)
  BY <1>1, <1>2 DEF Indexed, Exists, NoDoc
<1>3. CASE Exists(p) /\ Stored(p)
  <2>1. docs[p] \in Doc /\ files[p].ver \in Vers \ {0}
    BY <1>1, <1>3 DEF Exists, Stored, NoDoc
  <2>2. Indexed(p) = [docs[p] EXCEPT !.ver = files[p].ver]
    BY <1>3 DEF Indexed
  <2> QED BY <1>3, <2>1, <2>2 DEF Doc
<1>4. CASE Exists(p) /\ ~Stored(p)
  BY <1>1, <1>4 DEF Indexed, Exists, Doc
<1> QED BY <1>2, <1>3, <1>4

\* A sync run knows no ids.
LEMMA NoneKnown ==
  ASSUME IndInv, job.pc \notin {"list", "apply"}
  PROVE  job.known = {} /\ job.replaced = {} /\ job.heir = {}
<1>1. job.known = {} /\ job.replaced = {}
  BY DEF IndInv, PhaseInv
<1> QED BY <1>1 DEF IndInv, HeirInv

LEMMA NothingRead ==
  ASSUME job'.known = {}, job'.heir = {}
  PROVE  ReadInv' /\ HeirInv'
BY DEF ReadInv, HeirInv, Heirs

\* What a step leaves that neither indexes, deletes nor edits.
LEMMA HeirsKept ==
  ASSUME IndInv, UNCHANGED <<files, journal, edited, disturbed>>,
         job'.known = job.known, job'.replaced = job.replaced, job'.heir = job.heir,
         \A p \in Paths : Stored(p)' = Stored(p) /\ (Live(p)' => Live(p))
  PROVE  HeirInv'
<1>1. /\ Heirs' = Heirs /\ Heirs \subseteq Paths
      /\ \A p \in Paths : BehindCursor(p)' = BehindCursor(p) /\ Exists(p)' = Exists(p)
  BY DEF Heirs, BehindCursor, Exists
<1>2. job.known \subseteq Paths /\ \A e \in job.heir : e[1] \in Paths /\ e[2] \in Paths
  BY Typed DEF Jobs
<1>3. /\ \A e \in job.heir : e[1] \in job.replaced /\ (Live(e[1])' => Stored(e[2])')
      /\ \A e, f \in job.heir : e[2] = f[2] /\ Live(e[1])' /\ Live(f[1])' => e[1] = f[1]
  BY <1>2 DEF IndInv, HeirInv
<1>4. \A p \in Heirs : /\ p \in job.known => p \in edited
                       /\ p \in job.known /\ Live(p)' => p \in job.replaced
                       /\ disturbed = {} /\ BehindCursor(p)' => p \in journal.retry
  BY <1>1 DEF IndInv, HeirInv
<1>5. \A p \in job.known \ edited : Exists(p)' => Stored(p)'
  BY <1>1, <1>2 DEF IndInv, HeirInv
<1> QED BY <1>1, <1>3, <1>4, <1>5 DEF HeirInv

-----------------------------------------------------------------------------
(***************************************************************************)
(* The environment.                                                        *)
(***************************************************************************)
LEMMA EditStep ==
  ASSUME IndInv, Edit
  PROVE  IndInv'
<1>1. PICK p \in Paths, v \in {0, edits + 2} :
        /\ files' = [files EXCEPT ![p] = [ver |-> v, mtime |-> clock']]
        /\ edited' = IF job.pc = "idle" THEN {} ELSE edited \cup {p}
        /\ missing' = IF job.pc \in {"list", "apply"} /\ v = 0 /\ Stored(p)
                      THEN missing \cup {p} ELSE missing
        /\ disturbed' = disturbed \cup
             (IF v # 0 /\ (job.pc = "walk" \/ \E m \in CursorReach : clock' <= m)
              THEN {"cursor"} ELSE {})
  BY DEF Edit
<1>2. /\ edits < MaxEdits /\ edits' = edits + 1 /\ clock' \in {clock, clock + 1}
      /\ UNCHANGED <<docs, journal, job, faults>>
  BY DEF Edit
<1>3. /\ edits \in 0..MaxEdits /\ clock \in Mtimes /\ clock <= edits + 1
      /\ files \in [Paths -> [ver : Vers, mtime : Mtimes]]
  BY DEF IndInv, TypeOK, PhaseInv
<1>4. clock' \in Mtimes /\ edits' \in 0..MaxEdits /\ clock' <= edits' + 1 /\ v \in Vers
  BY <1>2, <1>3, ConstantsAssumption DEF Mtimes, Vers
<1>5. /\ files' \in [Paths -> [ver : Vers, mtime : Mtimes]]
      /\ files'[p].ver = v /\ files'[p].mtime = clock'
      /\ \A q \in Paths \ {p} : files'[q] = files[q]
  BY <1>1, <1>3, <1>4
<1>6. TypeOK'
  BY <1>1, <1>2, <1>4, <1>5 DEF IndInv, TypeOK
<1>7. PhaseInv' /\ CursorReach' = CursorReach
  BY <1>2, <1>4 DEF IndInv, PhaseInv, CursorReach
<1>8. disturbed' = {} => disturbed = {}
  BY <1>1
<1>9. disturbed' = {} /\ v # 0 =>
        /\ job.pc # "walk" /\ \A m \in CursorReach : clock' > m
        /\ clock' > journal.cursor
  <2> SUFFICES ASSUME disturbed' = {}, v # 0
               PROVE  /\ job.pc # "walk" /\ \A m \in CursorReach : clock' > m
                      /\ clock' > journal.cursor
    OBVIOUS
  <2>1. ~(job.pc = "walk" \/ \E m \in CursorReach : clock' <= m)
    BY <1>1
  <2>2. \A m \in CursorReach : m \in Nat
    BY Typed
  <2>3. clock' \in Nat
    BY <1>4, Typed
  <2>4. journal.cursor \in CursorReach
    BY DEF CursorReach
  <2> QED BY <2>1, <2>2, <2>3, <2>4
<1>10. ASSUME NEW q \in Paths, q # p
       PROVE  /\ Exists(q)' = Exists(q)
              /\ InSync(q)' = InSync(q)
              /\ BehindCursor(q)' = BehindCursor(q)
              /\ AboveReach(q)' = AboveReach(q)
              /\ files'[q] = files[q]
  BY <1>2, <1>5, <1>7, <1>10 DEF Exists, InSync, BehindCursor, AboveReach
<1>11. /\ Exists(p)' => v # 0
       /\ BehindCursor(p)' => v # 0 /\ clock' <= journal.cursor
       /\ v # 0 /\ disturbed' = {} => AboveReach(p)'
       /\ disturbed' = {} => ~BehindCursor(p)'
  <2>1. Exists(p)' => v # 0
    BY <1>5 DEF Exists
  <2>2. BehindCursor(p)' => v # 0 /\ clock' <= journal.cursor
    BY <1>2, <1>5 DEF BehindCursor, Exists
  <2>3. v # 0 /\ disturbed' = {} => AboveReach(p)'
    BY <1>5, <1>7, <1>9 DEF AboveReach
  <2>4. clock' \in Nat /\ journal.cursor \in Nat
    BY <1>4, Typed
  <2> QED BY <1>9, <2>1, <2>2, <2>3, <2>4
<1>12. JournalInv' /\ ReplayInv'
  BY <1>2, <1>8, <1>10, <1>11, Typed DEF IndInv, JournalInv, ReplayInv
<1>13. WalkInv'
  <2> SUFFICES ASSUME disturbed' = {}, job.pc \in {"walk", "poll"},
                      NEW q \in Paths, Exists(q)'
               PROVE  \/ InSync(q)'
                      \/ q \in job.failed \cup job.batch
                      \/ \E m \in Mtimes : <<q, m>> \in job.fresh
                      \/ job.pc = "walk" /\ q \in job.todo
                      \/ job.pc = "poll" /\ q \in edited' /\ AboveReach(q)'
    BY <1>2 DEF WalkInv
  <2>1. CASE q = p
    BY <1>1, <1>9, <1>11, <2>1
  <2>2. CASE q # p
    BY <1>1, <1>8, <1>10, <2>2 DEF IndInv, WalkInv
  <2> QED BY <2>1, <2>2
<1>14. BatchInv'
  BY <1>1, <1>2, <1>10, Typed DEF IndInv, PhaseInv, BatchInv, Jobs
<1>15. ListInv'
  BY <1>2, <1>5, <1>8, <1>9, <1>10, <1>11 DEF IndInv, ListInv, Listed
<1>16. KnownInv'
  <2>1. missing \subseteq missing' /\ \A q \in Paths : Stored(q)' = Stored(q)
    BY <1>1, <1>2 DEF Stored
  <2>2. job.known \subseteq Paths
    BY Typed DEF Jobs
  <2>3. ASSUME NEW q \in job.known \ job.replaced, job.pc = "list", ~Exists(q)'
        PROVE  q \in missing'
    <3>1. CASE q = p
      BY <1>1, <1>5, <2>3, <3>1 DEF IndInv, KnownInv, Exists
    <3>2. CASE q # p
      BY <1>10, <2>1, <2>2, <2>3, <3>2 DEF IndInv, KnownInv
    <3> QED BY <3>1, <3>2
  <2> QED BY <1>2, <2>1, <2>2, <2>3 DEF IndInv, KnownInv, Listed
<1>17. SettledInv'
  <2>1. \A q \in Paths : Stored(q)' = Stored(q)
    BY <1>2 DEF Stored
  <2>2. CASE job.pc = "idle"
    BY <1>2, <2>2 DEF IndInv, PhaseInv, SettledInv, Listed
  <2>3. CASE job.pc # "idle"
    <3>1. Paths \ edited' \subseteq (Paths \ edited) \ {p}
      BY <1>1, <2>3
    <3> QED BY <1>2, <1>10, <2>1, <3>1 DEF IndInv, SettledInv, Listed
  <2> QED BY <2>2, <2>3
<1>18. ReadInv' /\ HeirInv'
  <2>1. CASE job.pc = "idle"
    BY <1>2, <2>1, NoneKnown, NothingRead
  <2>2. CASE job.pc # "idle"
    <3>1. /\ edited' = edited \cup {p} /\ Heirs' = Heirs /\ Heirs \subseteq Paths
          /\ \A q \in Paths : Stored(q)' = Stored(q) /\ Live(q)' = Live(q)
      BY <1>1, <1>2, <2>2 DEF Stored, Live, Heirs
    <3>2. job.known \subseteq Paths /\ job.heir \subseteq Paths \X Paths
      BY Typed DEF Jobs
    <3>3. ReadInv'
      BY <1>2, <3>1, <3>2 DEF IndInv, ReadInv
    <3>4. \A q \in Heirs : disturbed' = {} /\ BehindCursor(q)' => q \in journal.retry
      BY <1>8, <1>10, <1>11, <3>1 DEF IndInv, HeirInv
    <3>5. \A q \in job.known \ edited' : Exists(q)' => Stored(q)'
      BY <1>10, <3>1, <3>2 DEF IndInv, HeirInv
    <3>6. \A e \in job.heir : /\ e[1] \in Paths /\ e[2] \in Paths
                             /\ Live(e[1])' = Live(e[1]) /\ Stored(e[2])' = Stored(e[2])
      BY <3>1, <3>2
    <3>7. /\ \A e \in job.heir : e[1] \in job.replaced /\ (Live(e[1])' => Stored(e[2])')
          /\ \A e, f \in job.heir : e[2] = f[2] /\ Live(e[1])' /\ Live(f[1])' => e[1] = f[1]
      BY <3>6 DEF IndInv, HeirInv
    <3>8. \A q \in Heirs : /\ q \in job.known => q \in edited'
                           /\ q \in job.known /\ Live(q)' => q \in job.replaced
      BY <3>1 DEF IndInv, HeirInv
    <3> QED BY <1>2, <3>1, <3>3, <3>4, <3>5, <3>7, <3>8 DEF HeirInv
  <2> QED BY <2>1, <2>2
<1> QED BY <1>6, <1>7, <1>12, <1>13, <1>14, <1>15, <1>16, <1>17, <1>18 DEF IndInv

LEMMA OtherIndexesStep ==
  ASSUME IndInv, OtherIndexes
  PROVE  IndInv'
<1>1. PICK p \in Paths :
        docs' = [docs EXCEPT ![p] = Indexed(p)] /\ job' \in IdsKnown(p)
  BY DEF OtherIndexes
<1>2. UNCHANGED <<files, edits, clock, journal, faults, edited, missing, disturbed>>
  BY DEF OtherIndexes
<1>3. /\ docs' \in [Paths -> Doc \cup {NoDoc}] /\ docs'[p] = Indexed(p)
      /\ \A q \in Paths \ {p} : docs'[q] = docs[q]
  BY <1>1, Typed, IndexedIs
<1>4. /\ job' \in Jobs /\ job'.pc = job.pc /\ job'.newest = job.newest
      /\ job'.todo = job.todo /\ job'.fresh = job.fresh /\ job'.batch = job.batch
      /\ job'.full = job.full /\ job'.failed = job.failed /\ job'.known = job.known
      /\ job'.listing = job.listing /\ job'.hidden = job.hidden /\ job'.due = job.due
      /\ job'.replaced = IF Exists(p) THEN job.replaced
                         ELSE job.replaced \cup (job.known \cap {p})
      /\ ~Exists(p) => job'.heir = {e \in job.heir : e[2] # p}
      /\ Exists(p) =>
           \/ job'.heir = job.heir
           \/ ~Stored(p) /\ \E k \in job.replaced : job'.heir = job.heir \cup {<<k, p>>}
  <2>1. CASE ~Exists(p)
    <3>1. job' = [job EXCEPT !.replaced = job.replaced \cup (job.known \cap {p}),
                             !.heir = {e \in job.heir : e[2] # p}]
      BY <1>1, <2>1 DEF IdsKnown
    <3> QED BY <2>1, <3>1, Typed DEF Jobs
  <2>2. CASE Exists(p) /\ job' = job
    BY <2>2, Typed
  <2>3. CASE Exists(p) /\ job' # job
    <3>1. ~Stored(p) /\ \E k \in FreeIds : job' = [job EXCEPT !.heir = job.heir \cup {<<k, p>>}]
      BY <1>1, <2>3 DEF IdsKnown
    <3>2. PICK k \in job.replaced : job' = [job EXCEPT !.heir = job.heir \cup {<<k, p>>}]
      BY <3>1 DEF FreeIds
    <3>3. k \in Paths /\ job.heir \cup {<<k, p>>} \subseteq Paths \X Paths
      BY Typed DEF Jobs
    <3>4. /\ job' \in Jobs /\ job'.pc = job.pc /\ job'.newest = job.newest
          /\ job'.todo = job.todo /\ job'.fresh = job.fresh /\ job'.batch = job.batch
          /\ job'.full = job.full /\ job'.failed = job.failed /\ job'.known = job.known
          /\ job'.listing = job.listing /\ job'.hidden = job.hidden /\ job'.due = job.due
          /\ job'.replaced = job.replaced /\ job'.heir = job.heir \cup {<<k, p>>}
      BY <3>2, <3>3, Typed DEF Jobs
    <3> QED BY <2>3, <3>1, <3>4
  <2> QED BY <2>1, <2>2, <2>3
<1>5. TypeOK'
  BY <1>2, <1>3, <1>4 DEF IndInv, TypeOK, Jobs
<1>6. PhaseInv'
  BY <1>2, <1>4 DEF IndInv, PhaseInv
<1>7. /\ \A q \in Paths : Exists(q)' = Exists(q) /\ BehindCursor(q)' = BehindCursor(q)
      /\ \A q \in Paths : AboveReach(q)' = AboveReach(q)
  BY <1>2, <1>4 DEF Exists, BehindCursor, AboveReach, CursorReach
<1>8. /\ InSync(p)' /\ (Stored(p)' <=> Exists(p))
      /\ \A q \in Paths \ {p} : InSync(q)' = InSync(q) /\ Stored(q)' = Stored(q)
  BY <1>2, <1>3, IndexedIs DEF InSync, Stored, Exists
<1>9. \A q \in Paths : InSync(q) => InSync(q)'
  BY <1>8
<1>10. JournalInv' /\ ReplayInv' /\ WalkInv'
  BY <1>2, <1>4, <1>7, <1>9, Typed DEF IndInv, JournalInv, ReplayInv, WalkInv
<1>11. BatchInv' /\ ListInv'
  BY <1>2, <1>4, <1>7, Typed DEF IndInv, BatchInv, ListInv, Listed, Jobs
<1>12. KnownInv'
  <2> SUFFICES ASSUME NEW q \in job.known \ job'.replaced
               PROVE  /\ job.pc = "list" \/ q \in job.todo => Stored(q)'
                      /\ job.pc = "list" /\ ~Exists(q) => q \in missing
                      /\ Listed(q) /\ q \notin job.listing => q \in missing
    BY <1>2, <1>4, <1>7, Typed DEF KnownInv, Listed, Jobs
  <2>1. q \in job.known \ job.replaced /\ q \in Paths /\ (q = p => Exists(p))
    BY <1>4, Typed DEF Jobs
  <2> QED BY <1>8, <2>1 DEF IndInv, KnownInv
<1>13. SettledInv'
  <2> SUFFICES ASSUME NEW q \in Paths \ edited
               PROVE  /\ q \in job'.replaced => ~Exists(q) /\ ~Stored(q)'
                      /\ job.pc = "apply" /\ q \in job.known \ job.todo /\ Stored(q)' =>
                           (docs'[q].life = "active" <=> Exists(q))
    BY <1>2, <1>4, <1>7 DEF IndInv, SettledInv, Listed
  <2>1. CASE q = p
    <3>1. Stored(p)' => Exists(p)
      BY <1>8
    <3>2. q \in job'.replaced => ~Exists(q)
      BY <1>4, <2>1 DEF IndInv, SettledInv
    <3> QED BY <1>3, <2>1, <3>1, <3>2, IndexedIs DEF IndInv, SettledInv
  <2>2. CASE q # p
    BY <1>3, <1>4, <1>8, <2>2 DEF IndInv, SettledInv
  <2> QED BY <2>1, <2>2
<1>14. \A k \in Paths : Live(k)' = Live(k)
  BY <1>4 DEF Live
<1>15. job.known \subseteq Paths /\ job.replaced \subseteq job'.replaced /\ job.replaced \subseteq Paths
  BY <1>4, Typed DEF Jobs
<1>16. ReadInv'
  <2> SUFFICES ASSUME NEW q \in job.known \ job'.replaced, Live(q)
               PROVE  /\ q \in job.hidden <=> docs'[q].life = "pending_delete"
                      /\ q \in job.due => docs'[q].due
    BY <1>4, <1>14, <1>15 DEF ReadInv
  <2>1. q \in Paths /\ q \notin job.replaced /\ (q = p => Exists(p))
    BY <1>4, <1>15
  <2>2. Stored(q)
    BY <2>1 DEF IndInv, KnownInv, Live
  <2>3. docs'[q].life = docs[q].life /\ docs'[q].due = docs[q].due
    BY <1>3, <2>1, <2>2, IndexedIs
  <2> QED BY <2>1, <2>3 DEF IndInv, ReadInv
<1>17. HeirInv'
  <2>1. ASSUME NEW e \in job'.heir
        PROVE  /\ e \in Paths \X Paths /\ e[1] \in job'.replaced
               /\ Live(e[1]) => Stored(e[2])'
               /\ \/ e \in job.heir
                  \/ e[2] = p /\ Exists(p) /\ ~Stored(p)
    <3>1. e \in Paths \X Paths
      BY <1>4 DEF Jobs
    <3>2. CASE e \in job.heir
      <4>1. e[2] = p => Exists(p)
        BY <1>4, <2>1
      <4> QED BY <1>8, <1>15, <3>1, <3>2, <4>1 DEF IndInv, HeirInv
    <3>3. CASE e \notin job.heir
      <4>1. /\ Exists(p) /\ ~Stored(p)
            /\ \E k \in job.replaced : job'.heir = job.heir \cup {<<k, p>>}
        BY <1>4, <3>3
      <4>2. \E k \in job.replaced : e = <<k, p>>
        BY <3>3, <4>1
      <4> QED BY <1>8, <1>15, <3>1, <4>1, <4>2
    <3> QED BY <3>2, <3>3
  <2>2. ASSUME NEW e \in job'.heir, NEW f \in job'.heir,
               e[2] = f[2], Live(e[1]), Live(f[1])
        PROVE  e[1] = f[1]
    <3>1. CASE e \in job.heir /\ f \in job.heir
      BY <2>2, <3>1 DEF IndInv, HeirInv
    <3>2. CASE e \notin job.heir \/ f \notin job.heir
      <4>1. ~Stored(p) /\ e[2] = p
        BY <2>1, <2>2, <3>2
      <4>2. e \notin job.heir /\ f \notin job.heir
        BY <2>2, <4>1 DEF IndInv, HeirInv
      <4>3. PICK k \in job.replaced : job'.heir = job.heir \cup {<<k, p>>}
        BY <1>4, <4>2
      <4> QED BY <4>2, <4>3
    <3> QED BY <3>1, <3>2
  <2>3. ASSUME NEW q \in Heirs'
        PROVE  /\ q \in job.known => q \in edited
               /\ q \in job.known /\ Live(q) => q \in job'.replaced
               /\ disturbed = {} /\ BehindCursor(q) => q \in journal.retry
    <3>1. PICK e \in job'.heir : e[2] = q /\ q \in Paths
      BY DEF Heirs
    <3>2. CASE e \in job.heir
      <4>1. q \in Heirs
        BY <3>1, <3>2 DEF Heirs
      <4> QED BY <1>15, <4>1 DEF IndInv, HeirInv
    <3>3. CASE e \notin job.heir
      <4>1. q = p /\ Exists(q) /\ ~Stored(q)
        BY <2>1, <3>1, <3>3
      <4>2. ~InSync(q)
        BY <4>1 DEF InSync, Stored, Exists
      <4>3. q \in job.known => q \in edited
        BY <4>1 DEF IndInv, HeirInv
      <4>4. q \in job.known /\ Live(q) => q \in job.replaced
        BY <4>1 DEF IndInv, KnownInv, Live
      <4>5. disturbed = {} /\ BehindCursor(q) => q \in journal.retry
        BY <3>1, <4>2 DEF IndInv, JournalInv
      <4> QED BY <1>15, <4>3, <4>4, <4>5
    <3> QED BY <3>2, <3>3
  <2>4. \A q \in job.known \ edited : Exists(q) => Stored(q)'
    BY <1>8, <1>15 DEF IndInv, HeirInv
  <2>5. \A e \in job'.heir : e[1] \in Paths /\ Live(e[1])' = Live(e[1])
    BY <1>14, <2>1
  <2>6. \A q \in Heirs' : /\ q \in Paths /\ Live(q)' = Live(q)
                          /\ BehindCursor(q)' = BehindCursor(q)
    BY <1>7, <1>14 DEF Heirs
  <2>7. \A q \in Paths : Exists(q)' = Exists(q)
    BY <1>7
  <2>8. /\ \A e \in job'.heir : e[1] \in job'.replaced /\ (Live(e[1])' => Stored(e[2])')
        /\ \A e, f \in job'.heir : e[2] = f[2] /\ Live(e[1])' /\ Live(f[1])' => e[1] = f[1]
    BY <2>1, <2>2, <2>5
  <2>9. \A q \in Heirs' :
           /\ q \in job'.known => q \in edited'
           /\ q \in job'.known /\ Live(q)' => q \in job'.replaced
           /\ disturbed' = {} /\ BehindCursor(q)' => q \in journal'.retry
    BY <1>2, <1>4, <2>3, <2>6
  <2>10. \A q \in job'.known \ edited' : Exists(q)' => Stored(q)'
    BY <1>2, <1>4, <1>15, <2>4, <2>7
  <2> QED BY <2>8, <2>9, <2>10 DEF HeirInv
<1> QED BY <1>5, <1>6, <1>10, <1>11, <1>12, <1>13, <1>16, <1>17 DEF IndInv

LEMMA GraceEndsStep ==
  ASSUME IndInv, GraceEnds
  PROVE  IndInv'
<1>1. PICK p \in Paths :
        docs[p].life = "pending_delete" /\ docs' = [docs EXCEPT ![p].due = TRUE]
  BY DEF GraceEnds
<1>2. UNCHANGED <<files, edits, clock, journal, job, faults, edited, missing, disturbed>>
  BY DEF GraceEnds
<1>3. docs[p] \in Doc
  BY <1>1, Typed DEF NoDoc
<1>4. [docs[p] EXCEPT !.due = TRUE] \in Doc
  BY <1>3 DEF Doc
<1>5. docs' = [docs EXCEPT ![p] = [docs[p] EXCEPT !.due = TRUE]]
  BY <1>1, Typed
<1>6. /\ docs' \in [Paths -> Doc \cup {NoDoc}]
      /\ \A q \in Paths : docs'[q].ver = docs[q].ver /\ docs'[q].life = docs[q].life
  <2>1. docs' \in [Paths -> Doc \cup {NoDoc}] /\ docs'[p] = [docs[p] EXCEPT !.due = TRUE]
        /\ \A q \in Paths \ {p} : docs'[q] = docs[q]
    BY <1>4, <1>5, Typed
  <2>2. docs'[p].ver = docs[p].ver /\ docs'[p].life = docs[p].life
    BY <1>3, <2>1 DEF Doc
  <2> QED BY <2>1, <2>2
<1>7. TypeOK'
  BY <1>2, <1>6 DEF IndInv, TypeOK
<1>8. \A q \in Paths : InSync(q)' = InSync(q) /\ Stored(q)' = Stored(q)
  BY <1>2, <1>6 DEF InSync, Stored
<1>9. \A q \in Paths : /\ Exists(q)' = Exists(q) /\ BehindCursor(q)' = BehindCursor(q)
                       /\ AboveReach(q)' = AboveReach(q)
  BY <1>2 DEF Exists, BehindCursor, AboveReach, CursorReach
<1>10. PhaseInv' /\ JournalInv' /\ ReplayInv' /\ WalkInv' /\ BatchInv' /\ ListInv'
  <2>1. job.batch \subseteq Paths /\ journal.retry \subseteq Paths
    BY Typed DEF Jobs
  <2>2. PhaseInv' /\ BatchInv' /\ ListInv'
    BY <1>2, <1>9, <2>1 DEF IndInv, PhaseInv, BatchInv, ListInv, Listed
  <2>3. JournalInv' /\ ReplayInv'
    BY <1>2, <1>8, <1>9, <2>1 DEF IndInv, JournalInv, ReplayInv
  <2>4. WalkInv'
    BY <1>2, <1>8, <1>9 DEF IndInv, WalkInv
  <2> QED BY <2>2, <2>3, <2>4
<1>11. KnownInv' /\ SettledInv'
  BY <1>2, <1>6, <1>8, <1>9, Typed DEF IndInv, KnownInv, SettledInv, Listed, Jobs
<1>12. ReadInv'
  <2>1. job.known \subseteq Paths
    BY Typed DEF Jobs
  <2>2. /\ docs'[p] = [docs[p] EXCEPT !.due = TRUE] /\ docs'[p].due
        /\ \A q \in Paths \ {p} : docs'[q] = docs[q]
    BY <1>3, <1>5, Typed DEF Doc
  <2>3. \A q \in Paths : docs[q].due => docs'[q].due
    BY <2>2
  <2> QED BY <1>2, <1>6, <2>1, <2>3 DEF IndInv, ReadInv, Live
<1>13. HeirInv'
  <2>1. UNCHANGED <<files, journal, edited, disturbed, job>>
    BY <1>2
  <2>2. \A q \in Paths : Stored(q)' = Stored(q) /\ (Live(q)' => Live(q))
    BY <1>8, <2>1 DEF Live
  <2>3. /\ job'.known = job.known /\ job'.replaced = job.replaced /\ job'.heir = job.heir
    BY <2>1
  <2> QED BY <2>1, <2>2, <2>3, HeirsKept
<1> QED BY <1>7, <1>10, <1>11, <1>12, <1>13 DEF IndInv

-----------------------------------------------------------------------------
(***************************************************************************)
(* A job begins, and ends.                                                 *)
(***************************************************************************)
LEMMA SyncBeginStep ==
  ASSUME IndInv, SyncBegin
  PROVE  IndInv'
<1>1. /\ job.pc = "idle"
      /\ job' = [Idle EXCEPT !.pc = "retry", !.newest = journal.cursor, !.todo = journal.retry]
      /\ UNCHANGED <<files, edits, clock, docs, journal, faults, edited, disturbed>>
  BY DEF SyncBegin, BeginJob
<1>2. /\ job' \in Jobs /\ job'.pc = "retry" /\ job'.newest = journal.cursor
      /\ job'.todo = journal.retry /\ job'.fresh = {} /\ job'.batch = {} /\ job'.full = {}
      /\ job'.failed = {} /\ job'.known = {} /\ job'.replaced = {} /\ job'.listing = {}
      /\ job'.heir = {}
  BY <1>1, Typed DEF Idle, Jobs
<1>3. missing' = {}
  BY DEF SyncBegin, BeginJob, Idle
<1>4. TypeOK'
  BY <1>1, <1>2, <1>3 DEF IndInv, TypeOK, Jobs
<1>5. PhaseInv' /\ BatchInv' /\ ListInv' /\ KnownInv' /\ SettledInv' /\ WalkInv'
  BY <1>1, <1>2 DEF IndInv, PhaseInv, BatchInv, ListInv, KnownInv, SettledInv, WalkInv, Listed
<1>6. JournalInv' /\ ReplayInv'
  BY <1>1, <1>2 DEF IndInv, JournalInv, ReplayInv, BehindCursor, InSync, Exists
<1> QED BY <1>2, <1>4, <1>5, <1>6, NothingRead DEF IndInv

LEMMA GcBeginStep ==
  ASSUME IndInv, GcBegin
  PROVE  IndInv'
<1>1. /\ job.pc = "idle"
      /\ job' = [Idle EXCEPT !.pc = "list", !.todo = Paths,
                             !.known = {p \in Paths : Stored(p)},
                             !.hidden = {p \in Paths : docs[p].life = "pending_delete"},
                             !.due = {p \in Paths : docs[p].due}]
      /\ UNCHANGED <<files, edits, clock, docs, journal, faults, edited, disturbed>>
  BY DEF GcBegin, BeginJob
<1>2. /\ job' \in Jobs /\ job'.pc = "list" /\ job'.todo = Paths
      /\ job'.fresh = {} /\ job'.batch = {} /\ job'.full = {} /\ job'.failed = {}
      /\ job'.known = {p \in Paths : Stored(p)} /\ job'.replaced = {} /\ job'.listing = {}
      /\ job'.hidden = {p \in Paths : docs[p].life = "pending_delete"}
      /\ job'.due = {p \in Paths : docs[p].due} /\ job'.heir = {}
  <2>1. PICK K, H, D \in SUBSET Paths :
          /\ K = {p \in Paths : Stored(p)}
          /\ H = {p \in Paths : docs[p].life = "pending_delete"}
          /\ D = {p \in Paths : docs[p].due}
    OBVIOUS
  <2>2. /\ 0 \in Mtimes
        /\ job' = [Idle EXCEPT !.pc = "list", !.todo = Paths, !.known = K,
                               !.hidden = H, !.due = D]
    BY <1>1, <2>1, ConstantsAssumption DEF Mtimes
  <2>3. /\ job' \in Jobs /\ job'.pc = "list" /\ job'.todo = Paths
        /\ job'.fresh = {} /\ job'.batch = {} /\ job'.full = {} /\ job'.failed = {}
        /\ job'.known = K /\ job'.replaced = {} /\ job'.listing = {}
        /\ job'.hidden = H /\ job'.due = D /\ job'.heir = {}
    BY <2>2 DEF Idle, Jobs
  <2> QED BY <2>1, <2>3
<1>3. missing' = {p \in Paths : Stored(p) /\ ~Exists(p)}
  BY DEF GcBegin, BeginJob, Idle
<1>4. TypeOK'
  BY <1>1, <1>2, <1>3 DEF IndInv, TypeOK, Jobs
<1>5. PhaseInv' /\ BatchInv' /\ ListInv' /\ SettledInv' /\ WalkInv' /\ ReplayInv'
  BY <1>1, <1>2
     DEF IndInv, PhaseInv, BatchInv, ListInv, SettledInv, WalkInv, ReplayInv, Listed
<1>6. JournalInv'
  BY <1>1 DEF IndInv, JournalInv, BehindCursor, InSync, Exists
<1>7. KnownInv'
  BY <1>1, <1>2, <1>3 DEF KnownInv, Listed, Stored, Exists
<1>8. ReadInv'
  BY <1>1, <1>2 DEF ReadInv
<1>9. HeirInv'
  BY <1>1, <1>2 DEF HeirInv, Heirs, Stored
<1> QED BY <1>4, <1>5, <1>6, <1>7, <1>8, <1>9 DEF IndInv

\* A job ends, and what is journaled is true.
LEMMA EndStep ==
  ASSUME IndInv, EndJob, UNCHANGED <<files, edits, clock>>, faults' \in 0..MaxFaults,
         docs' \in [Paths -> Doc \cup {NoDoc}],
         journal' \in [cursor : Mtimes, retry : SUBSET Paths],
         disturbed' = disturbed, JournalInv'
  PROVE  IndInv'
<1>1. /\ job' \in Jobs /\ job'.pc = "idle" /\ job'.fresh = {} /\ job'.batch = {}
      /\ job'.full = {} /\ job'.known = {} /\ job'.replaced = {} /\ job'.heir = {}
      /\ edited' = {} /\ missing' = {}
  BY ConstantsAssumption DEF EndJob, Idle, Jobs, Mtimes
<1>2. TypeOK'
  BY <1>1 DEF IndInv, TypeOK, Jobs
<1>3. PhaseInv'
  BY <1>1 DEF IndInv, PhaseInv
<1>4. ReplayInv' /\ WalkInv' /\ BatchInv' /\ ListInv' /\ KnownInv' /\ SettledInv'
  BY <1>1 DEF ReplayInv, WalkInv, BatchInv, ListInv, KnownInv, SettledInv, Listed
<1> QED BY <1>1, <1>2, <1>3, <1>4, NothingRead DEF IndInv

-----------------------------------------------------------------------------
(***************************************************************************)
(* A sync run.                                                             *)
(***************************************************************************)
\* What was read of a record: it is in the batch, or among what failed.
TakenInto(p, j) ==
  /\ job' \in Jobs
  /\ job'.pc = j.pc /\ job'.newest = j.newest /\ job'.todo = j.todo /\ job'.fresh = j.fresh
  /\ job'.known = j.known /\ job'.replaced = j.replaced /\ job'.listing = j.listing
  /\ job'.heir = j.heir
  /\ j.batch \subseteq job'.batch /\ j.failed \subseteq job'.failed
  /\ p \in job'.batch \cup job'.failed
  /\ job'.batch \subseteq j.batch \cup {p} /\ (p \in job'.batch \ j.batch => Exists(p))
  /\ faults' \in 0..MaxFaults

LEMMA TakenIs ==
  ASSUME IndInv, NEW p \in Paths, NEW j \in Jobs, Taken(p, j)
  PROVE  TakenInto(p, j)
<1>1. faults \in 0..MaxFaults
  BY DEF IndInv, TypeOK
<1>2. CASE /\ Exists(p)
           /\ job' = [j EXCEPT !.batch = j.batch \cup {p},
                               !.full = IF Cardinality(j.batch \cup {p}) >= SyncBatch
                                        THEN {p} ELSE {}]
           /\ UNCHANGED faults
  <2>1. PICK F \in SUBSET Paths : job' = [j EXCEPT !.batch = j.batch \cup {p}, !.full = F]
    BY <1>2
  <2>2. /\ job' \in Jobs
        /\ job'.pc = j.pc /\ job'.newest = j.newest /\ job'.todo = j.todo
        /\ job'.fresh = j.fresh /\ job'.known = j.known /\ job'.replaced = j.replaced
        /\ job'.listing = j.listing /\ job'.batch = j.batch \cup {p}
        /\ job'.failed = j.failed /\ job'.heir = j.heir
    BY <2>1 DEF Jobs
  <2> QED BY <1>1, <1>2, <2>2 DEF TakenInto
<1>3. CASE /\ Exists(p) => faults < MaxFaults
           /\ faults' = IF Exists(p) THEN faults + 1 ELSE faults
           /\ job' = [j EXCEPT !.failed = j.failed \cup {p}]
  <2>1. faults' \in 0..MaxFaults
    BY <1>1, <1>3, ConstantsAssumption
  <2> QED BY <1>3, <2>1 DEF TakenInto, Jobs
<1> QED BY <1>2, <1>3 DEF Taken

LEMMA ReplayStep ==
  ASSUME IndInv, NEW p \in Paths, Replay(p)
  PROVE  IndInv'
<1> DEFINE j == [job EXCEPT !.todo = job.todo \ {p}]
<1>1. /\ job.pc = "retry" /\ p \in job.todo /\ job.full = {} /\ Taken(p, j)
      /\ UNCHANGED <<files, edits, clock, docs, journal, edited, missing, disturbed>>
  BY DEF Replay
<1>2. /\ j \in Jobs /\ j.pc = "retry" /\ j.newest = job.newest /\ j.todo = job.todo \ {p}
      /\ j.fresh = job.fresh /\ j.batch = job.batch /\ j.failed = job.failed
      /\ j.known = job.known /\ j.replaced = job.replaced /\ j.listing = job.listing
      /\ j.heir = job.heir
  BY <1>1, Typed DEF Jobs
<1> HIDE DEF j
<1>3. /\ job' \in Jobs /\ job'.pc = "retry" /\ job'.todo = job.todo \ {p}
      /\ job'.fresh = job.fresh /\ job'.known = job.known /\ job'.replaced = job.replaced
      /\ job'.heir = job.heir
      /\ job.batch \subseteq job'.batch /\ job.failed \subseteq job'.failed
      /\ p \in job'.batch \cup job'.failed
      /\ job'.batch \subseteq job.batch \cup {p} /\ (p \in job'.batch \ job.batch => Exists(p))
      /\ faults' \in 0..MaxFaults
  BY <1>1, <1>2, TakenIs DEF TakenInto
<1>4. TypeOK'
  BY <1>1, <1>3 DEF IndInv, TypeOK, Jobs
<1>5. PhaseInv'
  BY <1>1, <1>3 DEF IndInv, PhaseInv
<1>6. \A q \in Paths : /\ InSync(q)' = InSync(q) /\ Exists(q)' = Exists(q)
                       /\ BehindCursor(q)' = BehindCursor(q)
  BY <1>1 DEF InSync, Exists, BehindCursor
<1>7. JournalInv' /\ ReplayInv'
  BY <1>1, <1>3, <1>6, Typed DEF IndInv, JournalInv, ReplayInv
<1>8. BatchInv'
  BY <1>1, <1>3, <1>6, Typed DEF IndInv, BatchInv, Jobs
<1>9. WalkInv' /\ ListInv' /\ KnownInv'
  BY <1>1, <1>3 DEF IndInv, PhaseInv, WalkInv, ListInv, KnownInv, Listed
<1>10. SettledInv'
  BY <1>1, <1>3 DEF IndInv, PhaseInv, SettledInv, Listed
<1> QED BY <1>1, <1>3, <1>4, <1>5, <1>7, <1>8, <1>9, <1>10, NoneKnown, NothingRead DEF IndInv

LEMMA WalkBeginStep ==
  ASSUME IndInv, WalkBegin
  PROVE  IndInv'
<1>1. /\ job.pc = "retry" /\ job.todo = {} /\ job.full = {}
      /\ job' = [job EXCEPT !.pc = "walk", !.todo = Paths]
      /\ UNCHANGED <<files, edits, clock, docs, journal, faults, edited, missing, disturbed>>
  BY DEF WalkBegin
<1>2. /\ job' \in Jobs /\ job'.pc = "walk" /\ job'.todo = Paths /\ job'.fresh = job.fresh
      /\ job'.batch = job.batch /\ job'.full = {} /\ job'.failed = job.failed
      /\ job'.known = job.known /\ job'.replaced = job.replaced /\ job'.heir = job.heir
  BY <1>1, Typed DEF Jobs
<1>3. TypeOK'
  BY <1>1, <1>2 DEF IndInv, TypeOK, Jobs
<1>4. PhaseInv'
  BY <1>1, <1>2 DEF IndInv, PhaseInv
<1>5. \A q \in Paths : /\ InSync(q)' = InSync(q) /\ Exists(q)' = Exists(q)
                       /\ BehindCursor(q)' = BehindCursor(q)
  BY <1>1 DEF InSync, Exists, BehindCursor
<1>6. JournalInv' /\ ReplayInv' /\ BatchInv'
  BY <1>1, <1>2, <1>5, Typed DEF IndInv, JournalInv, ReplayInv, BatchInv, Jobs
<1>7. WalkInv'
  BY <1>2 DEF WalkInv
<1>8. ListInv' /\ KnownInv' /\ SettledInv'
  BY <1>1, <1>2 DEF IndInv, PhaseInv, ListInv, KnownInv, SettledInv, Listed
<1> QED BY <1>1, <1>2, <1>3, <1>4, <1>6, <1>7, <1>8, NoneKnown, NothingRead DEF IndInv

LEMMA WalkStep ==
  ASSUME IndInv, NEW p \in Paths, Walk(p)
  PROVE  IndInv'
<1>1. /\ job.pc = "walk" /\ p \in job.todo
      /\ job' = [job EXCEPT !.todo = job.todo \ {p}, !.fresh = job.fresh \cup Fresh(p),
                            !.pc = IF job.todo = {p} THEN "poll" ELSE "walk"]
      /\ UNCHANGED <<files, edits, clock, docs, journal, faults, edited, missing, disturbed>>
  BY DEF Walk
<1>2. Fresh(p) \subseteq Paths \X Mtimes
  BY Typed DEF Fresh
<1>3. /\ job' \in Jobs /\ job'.pc \in {"walk", "poll"} /\ job'.todo = job.todo \ {p}
      /\ (job'.pc = "poll" => job.todo = {p})
      /\ job'.fresh = job.fresh \cup Fresh(p) /\ job'.newest = job.newest
      /\ job'.batch = job.batch /\ job'.full = job.full /\ job'.failed = job.failed
      /\ job'.known = job.known /\ job'.replaced = job.replaced /\ job'.heir = job.heir
  BY <1>1, <1>2, Typed DEF Jobs
<1>4. TypeOK'
  BY <1>1, <1>3 DEF IndInv, TypeOK, Jobs
<1>5. PhaseInv'
  BY <1>1, <1>3 DEF IndInv, PhaseInv
<1>6. \A q \in Paths : /\ InSync(q)' = InSync(q) /\ Exists(q)' = Exists(q)
                       /\ BehindCursor(q)' = BehindCursor(q)
  BY <1>1 DEF InSync, Exists, BehindCursor
<1>7. JournalInv' /\ ReplayInv' /\ BatchInv'
  BY <1>1, <1>3, <1>6, Typed DEF IndInv, JournalInv, ReplayInv, BatchInv, Jobs
<1>8. WalkInv'
  <2> SUFFICES ASSUME disturbed = {}, NEW q \in Paths, Exists(q)
               PROVE  \/ InSync(q)
                      \/ q \in job.failed \cup job.batch
                      \/ \E m \in Mtimes : <<q, m>> \in job'.fresh
                      \/ job'.pc = "walk" /\ q \in job'.todo
    BY <1>1, <1>3, <1>6 DEF WalkInv
  <2>1. CASE q = p /\ files[p].mtime > journal.cursor
    BY <1>3, <2>1, Typed DEF Fresh
  <2>2. CASE q = p /\ ~(files[p].mtime > journal.cursor)
    <3>1. BehindCursor(p)
      BY <2>2, Typed DEF BehindCursor
    <3>2. InSync(p) \/ p \in journal.retry
      BY <3>1 DEF IndInv, JournalInv
    <3> QED BY <1>1, <2>2, <3>1, <3>2 DEF IndInv, ReplayInv
  <2>3. CASE q # p
    <3>1. job'.pc = "poll" => q \notin job.todo
      BY <1>3, <2>3
    <3> QED BY <1>1, <1>3, <2>3, <3>1 DEF IndInv, WalkInv
  <2> QED BY <2>1, <2>2, <2>3
<1>9. ListInv' /\ KnownInv' /\ SettledInv'
  BY <1>1, <1>3 DEF IndInv, PhaseInv, ListInv, KnownInv, SettledInv, Listed
<1> QED BY <1>1, <1>3, <1>4, <1>5, <1>7, <1>8, <1>9, NoneKnown, NothingRead DEF IndInv

LEMMA PollStep ==
  ASSUME IndInv, NEW f \in job.fresh, Poll(f)
  PROVE  IndInv'
<1> DEFINE j == [job EXCEPT !.fresh = job.fresh \ {f}, !.newest = f[2]]
<1>1. /\ job.pc = "poll" /\ job.full = {} /\ Taken(f[1], j)
      /\ UNCHANGED <<files, edits, clock, docs, journal, edited, missing, disturbed>>
  BY DEF Poll
<1>2. /\ f[1] \in Paths /\ f[2] \in Mtimes /\ f = <<f[1], f[2]>>
      /\ job.fresh \subseteq Paths \X Mtimes
  BY Typed DEF Jobs
<1>3. /\ j \in Jobs /\ j.pc = "poll" /\ j.newest = f[2] /\ j.todo = job.todo
      /\ j.fresh = job.fresh \ {f} /\ j.batch = job.batch /\ j.failed = job.failed
      /\ j.known = job.known /\ j.replaced = job.replaced /\ j.listing = job.listing
      /\ j.heir = job.heir
  BY <1>1, <1>2, Typed DEF Jobs
<1> HIDE DEF j
<1>4. /\ job' \in Jobs /\ job'.pc = "poll" /\ job'.newest = f[2]
      /\ job'.fresh = job.fresh \ {f} /\ job'.known = job.known /\ job'.replaced = job.replaced
      /\ job'.heir = job.heir
      /\ job.batch \subseteq job'.batch /\ job.failed \subseteq job'.failed
      /\ f[1] \in job'.batch \cup job'.failed
      /\ job'.batch \subseteq job.batch \cup {f[1]}
      /\ (f[1] \in job'.batch \ job.batch => Exists(f[1]))
      /\ faults' \in 0..MaxFaults
  BY <1>1, <1>2, <1>3, TakenIs DEF TakenInto
<1>5. TypeOK'
  BY <1>1, <1>4 DEF IndInv, TypeOK, Jobs
<1>6. PhaseInv'
  BY <1>1, <1>4 DEF IndInv, PhaseInv
<1>7. \A q \in Paths : /\ InSync(q)' = InSync(q) /\ Exists(q)' = Exists(q)
                       /\ BehindCursor(q)' = BehindCursor(q)
  BY <1>1 DEF InSync, Exists, BehindCursor
<1>8. CursorReach' \subseteq CursorReach
  BY <1>1, <1>4 DEF CursorReach
<1>9. \A q \in Paths : AboveReach(q) => AboveReach(q)'
  BY <1>1, <1>8 DEF AboveReach
<1>10. JournalInv' /\ ReplayInv' /\ BatchInv'
  BY <1>1, <1>2, <1>4, <1>7, Typed DEF IndInv, JournalInv, ReplayInv, BatchInv, Jobs
<1>11. WalkInv'
  <2> SUFFICES ASSUME disturbed = {}, NEW q \in Paths, Exists(q)
               PROVE  \/ InSync(q)
                      \/ q \in job'.failed \cup job'.batch
                      \/ \E m \in Mtimes : <<q, m>> \in job'.fresh
                      \/ q \in edited /\ AboveReach(q)'
    BY <1>1, <1>4, <1>7 DEF WalkInv
  <2>1. CASE \E m \in Mtimes : <<q, m>> \in job.fresh
    <3>1. PICK m \in Mtimes : <<q, m>> \in job.fresh
      BY <2>1
    <3>2. CASE <<q, m>> = f
      BY <1>4, <3>2
    <3>3. CASE <<q, m>> # f
      BY <1>4, <3>1, <3>3
    <3> QED BY <3>2, <3>3
  <2>2. CASE ~\E m \in Mtimes : <<q, m>> \in job.fresh
    BY <1>1, <1>4, <1>9, <2>2 DEF IndInv, WalkInv
  <2> QED BY <2>1, <2>2
<1>12. ListInv' /\ KnownInv'
  BY <1>1, <1>4 DEF IndInv, PhaseInv, ListInv, KnownInv, Listed
<1>13. SettledInv'
  BY <1>1, <1>4 DEF IndInv, PhaseInv, SettledInv, Listed
<1> QED BY <1>1, <1>4, <1>5, <1>6, <1>10, <1>11, <1>12, <1>13, NoneKnown, NothingRead
        DEF IndInv

LEMMA AppliedIs ==
  ASSUME IndInv, NEW S, S \subseteq Paths
  PROVE  /\ Applied(S) \in [Paths -> Doc \cup {NoDoc}]
         /\ \A p \in S : Applied(S)[p].ver = files[p].ver
         /\ \A p \in Paths \ S : Applied(S)[p] = docs[p]
<1>1. \A p \in Paths : docs[p] \in Doc \cup {NoDoc} /\ Indexed(p) \in Doc \cup {NoDoc}
  BY Typed, IndexedIs
<1>2. \A p \in Paths : Indexed(p).ver = files[p].ver
  BY IndexedIs
<1> QED BY <1>1, <1>2 DEF Applied

LEMMA FlushStep ==
  ASSUME IndInv, Flush
  PROVE  IndInv'
<1>1. PICK S \in SUBSET {p \in job.batch : Exists(p)} :
        /\ faults + Cardinality(S) <= MaxFaults
        /\ faults' = faults + Cardinality(S)
        /\ docs' = Applied(job.batch \ S)
        /\ disturbed' = disturbed \cup (IF S # {} THEN {"sink"} ELSE {})
  BY DEF Flush
<1>2. /\ FlushDue /\ job' = [job EXCEPT !.batch = {}, !.full = {}]
      /\ UNCHANGED <<files, edits, clock, journal, edited, missing>>
  BY DEF Flush
<1>3. job.batch \subseteq Paths /\ job.pc \in {"retry", "poll"}
  BY <1>2, Typed DEF FlushDue, Jobs, IndInv, PhaseInv
<1>4. /\ docs' \in [Paths -> Doc \cup {NoDoc}]
      /\ \A p \in job.batch \ S : docs'[p].ver = files[p].ver
      /\ \A p \in Paths \ (job.batch \ S) : docs'[p] = docs[p]
  BY <1>1, <1>3, AppliedIs
<1>5. /\ job' \in Jobs /\ job'.pc = job.pc /\ job'.newest = job.newest
      /\ job'.todo = job.todo /\ job'.fresh = job.fresh /\ job'.batch = {}
      /\ job'.full = {} /\ job'.failed = job.failed /\ job'.known = job.known
      /\ job'.replaced = job.replaced /\ job'.heir = job.heir
  BY <1>2, Typed DEF Jobs
<1>6. faults' \in 0..MaxFaults
  <2>1. IsFiniteSet(S)
    BY <1>3, ConstantsAssumption, FS_Subset
  <2>2. Cardinality(S) \in Nat
    BY <2>1, FS_CardinalityType
  <2> QED BY <1>1, <2>2, ConstantsAssumption DEF IndInv, TypeOK
<1>7. TypeOK'
  BY <1>1, <1>2, <1>4, <1>5, <1>6 DEF IndInv, TypeOK, Jobs
<1>8. PhaseInv'
  BY <1>2, <1>5 DEF IndInv, PhaseInv
<1>9. /\ disturbed' = {} => disturbed = {} /\ S = {}
      /\ \A p \in Paths : InSync(p) => InSync(p)'
      /\ \A p \in job.batch \ S : InSync(p)'
  BY <1>1, <1>2, <1>4 DEF InSync
<1>10. \A p \in Paths : /\ Exists(p)' = Exists(p) /\ BehindCursor(p)' = BehindCursor(p)
                        /\ AboveReach(p)' = AboveReach(p)
  BY <1>2, <1>5 DEF Exists, BehindCursor, AboveReach, CursorReach
<1>11. JournalInv' /\ ReplayInv'
  BY <1>2, <1>5, <1>9, <1>10, Typed DEF IndInv, JournalInv, ReplayInv
<1>12. WalkInv'
  BY <1>2, <1>5, <1>9, <1>10 DEF IndInv, WalkInv
<1>13. BatchInv' /\ ListInv' /\ KnownInv'
  BY <1>3, <1>5 DEF IndInv, PhaseInv, BatchInv, ListInv, KnownInv, Listed
<1>14. SettledInv'
  BY <1>3, <1>5 DEF IndInv, PhaseInv, SettledInv, Listed
<1> QED BY <1>3, <1>5, <1>7, <1>8, <1>11, <1>12, <1>13, <1>14, NoneKnown, NothingRead
        DEF IndInv

\* A sink that raises may have stored its rows: a doc is the nearer to its file
\* for it.
LEMMA SinkRaisesIs ==
  ASSUME IndInv, SinkRaises, UNCHANGED files
  PROVE  /\ docs' \in [Paths -> Doc \cup {NoDoc}] /\ faults' \in 0..MaxFaults
         /\ \A p \in Paths : InSync(p) => InSync(p)'
<1>1. job.batch \subseteq Paths
  BY Typed DEF Jobs
<1>2. /\ Applied(job.batch) \in [Paths -> Doc \cup {NoDoc}]
      /\ \A p \in job.batch : Applied(job.batch)[p].ver = files[p].ver
      /\ \A p \in Paths \ job.batch : Applied(job.batch)[p] = docs[p]
  BY <1>1, AppliedIs
<1>3. docs' \in {docs, Applied(job.batch)} /\ faults < MaxFaults /\ faults' = faults + 1
  BY DEF SinkRaises
<1>4. faults' \in 0..MaxFaults
  BY <1>3, ConstantsAssumption DEF IndInv, TypeOK
<1> QED BY <1>2, <1>3, <1>4, Typed DEF InSync

LEMMA SyncFailsStep ==
  ASSUME IndInv, SyncFails
  PROVE  IndInv'
<1>1. SinkRaises /\ EndJob /\ UNCHANGED <<files, edits, clock, journal, disturbed>>
  BY DEF SyncFails
<1>2. journal \in [cursor : Mtimes, retry : SUBSET Paths]
  BY DEF IndInv, TypeOK
<1>3. JournalInv'
  BY <1>1, SinkRaisesIs DEF IndInv, JournalInv, BehindCursor, Exists
<1> QED BY <1>1, <1>2, <1>3, SinkRaisesIs, EndStep

LEMMA ReplayFailsStep ==
  ASSUME IndInv, ReplayFails
  PROVE  IndInv'
<1>1. /\ job.pc = "retry" /\ SinkRaises
      /\ job' = [job EXCEPT !.full = {}, !.failed = job.failed \cup job.full]
      /\ UNCHANGED <<files, edits, clock, journal, edited, missing, disturbed>>
  BY DEF ReplayFails
<1>2. /\ job' \in Jobs /\ job'.pc = "retry" /\ job'.todo = job.todo
      /\ job'.fresh = job.fresh /\ job'.batch = job.batch /\ job'.full = {}
      /\ job'.failed = job.failed \cup job.full
      /\ job'.known = job.known /\ job'.replaced = job.replaced /\ job'.heir = job.heir
  BY <1>1, Typed DEF Jobs
<1>3. TypeOK'
  BY <1>1, <1>2, SinkRaisesIs DEF IndInv, TypeOK, Jobs
<1>4. PhaseInv'
  BY <1>1, <1>2 DEF IndInv, PhaseInv
<1>5. \A q \in Paths : /\ InSync(q) => InSync(q)'
                       /\ Exists(q)' = Exists(q) /\ BehindCursor(q)' = BehindCursor(q)
  BY <1>1, SinkRaisesIs DEF Exists, BehindCursor
<1>6. JournalInv' /\ ReplayInv'
  BY <1>1, <1>2, <1>5, Typed DEF IndInv, JournalInv, ReplayInv
<1>7. BatchInv'
  BY <1>1, <1>2, <1>5, Typed DEF IndInv, BatchInv, Jobs
<1>8. WalkInv' /\ ListInv' /\ KnownInv' /\ SettledInv'
  BY <1>1, <1>2 DEF IndInv, PhaseInv, WalkInv, ListInv, KnownInv, SettledInv, Listed
<1> QED BY <1>1, <1>2, <1>3, <1>4, <1>6, <1>7, <1>8, NoneKnown, NothingRead DEF IndInv

\* What the run journals is true: what its cursor has passed and it did not
\* store is among what failed.
LEMMA SyncDoneStep ==
  ASSUME IndInv, SyncDone
  PROVE  IndInv'
<1>1. /\ job.pc = "poll" /\ job.fresh = {} /\ job.batch = {}
      /\ journal' = [cursor |-> job.newest, retry |-> job.failed] /\ EndJob
      /\ UNCHANGED <<files, edits, clock, docs, faults, disturbed>>
  BY DEF SyncDone, Journaled
<1>2. /\ journal' \in [cursor : Mtimes, retry : SUBSET Paths]
      /\ journal'.cursor = job.newest /\ journal'.retry = job.failed
  BY <1>1, Typed DEF Jobs
<1>3. JournalInv'
  <2> SUFFICES ASSUME disturbed = {}, NEW p \in Paths,
                      Exists(p), files[p].mtime <= job.newest
               PROVE  InSync(p) \/ p \in job.failed
    BY <1>1, <1>2 DEF JournalInv, BehindCursor, InSync, Exists
  <2>1. ~AboveReach(p)
    <3>1. job.newest \in CursorReach /\ job.newest \in Nat /\ files[p].mtime \in Nat
      BY Typed DEF CursorReach
    <3> QED BY <3>1 DEF AboveReach
  <2> QED BY <1>1, <2>1 DEF IndInv, WalkInv
<1>4. /\ docs' \in [Paths -> Doc \cup {NoDoc}] /\ faults' \in 0..MaxFaults
  BY <1>1 DEF IndInv, TypeOK
<1> QED BY <1>1, <1>2, <1>3, <1>4, EndStep

-----------------------------------------------------------------------------
(***************************************************************************)
(* A collection.                                                           *)
(***************************************************************************)
LEMMA EndOnlyStep ==
  ASSUME IndInv, GcAbort \/ GcDone \/ Crash
  PROVE  IndInv'
<1>1. /\ EndJob /\ UNCHANGED <<files, edits, clock, docs, journal, disturbed>>
      /\ faults' = faults \/ (faults < MaxFaults /\ faults' = faults + 1)
  BY DEF GcAbort, GcDone, Crash
<1>2. /\ docs' \in [Paths -> Doc \cup {NoDoc}] /\ faults' \in 0..MaxFaults
      /\ journal' \in [cursor : Mtimes, retry : SUBSET Paths]
  BY <1>1, ConstantsAssumption DEF IndInv, TypeOK
<1>3. JournalInv'
  BY <1>1 DEF IndInv, JournalInv, BehindCursor, Exists, InSync
<1> QED BY <1>1, <1>2, <1>3, EndStep

LEMMA ListStep ==
  ASSUME IndInv, NEW p \in Paths, List(p)
  PROVE  IndInv'
<1>1. /\ job.pc = "list" /\ p \in job.todo
      /\ job' = [job EXCEPT !.todo = job.todo \ {p},
                            !.listing = IF Exists(p) THEN job.listing \cup {p} ELSE job.listing]
      /\ UNCHANGED <<files, edits, clock, docs, journal, faults, edited, missing, disturbed>>
  BY DEF List
<1>2. /\ job' \in Jobs /\ job'.pc = "list" /\ job'.todo = job.todo \ {p}
      /\ job'.fresh = job.fresh /\ job'.batch = job.batch /\ job'.full = job.full
      /\ job'.failed = job.failed /\ job'.known = job.known /\ job'.replaced = job.replaced
      /\ job'.listing = IF Exists(p) THEN job.listing \cup {p} ELSE job.listing
      /\ job'.hidden = job.hidden /\ job'.due = job.due /\ job'.heir = job.heir
  BY <1>1, Typed DEF Jobs
<1>3. TypeOK'
  BY <1>1, <1>2 DEF IndInv, TypeOK, Jobs
<1>4. PhaseInv'
  BY <1>1, <1>2 DEF IndInv, PhaseInv
<1>5. \A q \in Paths : /\ InSync(q)' = InSync(q) /\ Exists(q)' = Exists(q)
                       /\ BehindCursor(q)' = BehindCursor(q) /\ Stored(q)' = Stored(q)
  BY <1>1 DEF InSync, Exists, BehindCursor, Stored
<1>6. JournalInv' /\ ReplayInv' /\ WalkInv' /\ BatchInv'
  BY <1>1, <1>2, <1>5, Typed
     DEF IndInv, PhaseInv, JournalInv, ReplayInv, WalkInv, BatchInv, Jobs
<1>7. /\ \A q \in Paths : Listed(q)' <=> (Listed(q) \/ q = p)
      /\ ~Listed(p)
  BY <1>1, <1>2 DEF Listed
<1>8. ListInv'
  BY <1>1, <1>2, <1>5, <1>7 DEF IndInv, ListInv
<1>9. KnownInv'
  BY <1>1, <1>2, <1>5, <1>7, Typed DEF IndInv, KnownInv, Jobs
<1>10. SettledInv'
  <2> SUFFICES ASSUME NEW q \in Paths \ edited
               PROVE  /\ Listed(q)' => (q \in job'.listing <=> Exists(q))
                      /\ q \in job.replaced => ~Exists(q) /\ ~Stored(q)
    BY <1>1, <1>2, <1>5 DEF IndInv, SettledInv
  <2>1. CASE q = p
    <3>1. p \notin job.listing
      BY <1>1 DEF IndInv, SettledInv
    <3> QED BY <1>2, <2>1, <3>1 DEF IndInv, SettledInv
  <2>2. CASE q # p
    BY <1>2, <1>7, <2>2 DEF IndInv, SettledInv
  <2> QED BY <2>1, <2>2
<1>11. ReadInv'
  BY <1>1, <1>2 DEF IndInv, ReadInv, Live
<1>12. HeirInv'
  BY <1>1, <1>2, <1>5, HeirsKept DEF Live
<1> QED BY <1>3, <1>4, <1>6, <1>8, <1>9, <1>10, <1>11, <1>12 DEF IndInv

LEMMA GcDecideStep ==
  ASSUME IndInv, GcDecide
  PROVE  IndInv'
<1>1. /\ job.pc = "list" /\ job.todo = {}
      /\ job' = [job EXCEPT !.pc = "apply", !.todo = job.known,
                            !.due = job.due \cup {p \in job.hidden : docs[p].due}]
      /\ UNCHANGED <<files, edits, clock, docs, journal, faults, edited, missing, disturbed>>
  BY DEF GcDecide, KnownBefore
<1>2. /\ job' \in Jobs /\ job'.pc = "apply" /\ job'.todo = job.known
      /\ job'.fresh = job.fresh /\ job'.batch = job.batch /\ job'.full = job.full
      /\ job'.failed = job.failed /\ job'.known = job.known /\ job'.replaced = job.replaced
      /\ job'.listing = job.listing /\ job'.hidden = job.hidden /\ job'.heir = job.heir
      /\ job'.due = job.due \cup {p \in job.hidden : docs[p].due}
  <2>1. PICK D \in SUBSET Paths : D = job.due \cup {p \in job.hidden : docs[p].due}
    BY Typed DEF Jobs
  <2>2. job' = [job EXCEPT !.pc = "apply", !.todo = job.known, !.due = D]
    BY <1>1, <2>1
  <2>3. /\ job' \in Jobs /\ job'.pc = "apply" /\ job'.todo = job.known
        /\ job'.fresh = job.fresh /\ job'.batch = job.batch /\ job'.full = job.full
        /\ job'.failed = job.failed /\ job'.known = job.known /\ job'.replaced = job.replaced
        /\ job'.listing = job.listing /\ job'.hidden = job.hidden /\ job'.heir = job.heir
        /\ job'.due = D
    BY <2>2, Typed DEF Jobs
  <2> QED BY <2>1, <2>3
<1>3. TypeOK'
  BY <1>1, <1>2 DEF IndInv, TypeOK, Jobs
<1>4. PhaseInv'
  BY <1>1, <1>2 DEF IndInv, PhaseInv
<1>5. \A q \in Paths : /\ InSync(q)' = InSync(q) /\ Exists(q)' = Exists(q)
                       /\ BehindCursor(q)' = BehindCursor(q) /\ Stored(q)' = Stored(q)
                       /\ Listed(q)' /\ Listed(q)
  BY <1>1, <1>2 DEF InSync, Exists, BehindCursor, Stored, Listed
<1>6. JournalInv' /\ ReplayInv' /\ WalkInv' /\ BatchInv'
  BY <1>1, <1>2, <1>5, Typed
     DEF IndInv, PhaseInv, JournalInv, ReplayInv, WalkInv, BatchInv, Jobs
<1>7. ListInv' /\ KnownInv'
  BY <1>1, <1>2, <1>5, Typed DEF IndInv, ListInv, KnownInv, Jobs
<1>8. SettledInv'
  BY <1>1, <1>2, <1>5 DEF IndInv, SettledInv
<1>9. ReadInv'
  BY <1>1, <1>2 DEF IndInv, ReadInv, Live
<1>10. HeirInv'
  BY <1>1, <1>2, <1>5, HeirsKept DEF Live
<1> QED BY <1>3, <1>4, <1>6, <1>7, <1>8, <1>9, <1>10 DEF IndInv

\* What a collection makes of a stored doc, for what it read of p.
LEMMA CollectedIs ==
  ASSUME IndInv, NEW p \in Paths, NEW q \in Paths, Stored(q)
  PROVE  /\ Collected(p, q) \in Doc \cup {NoDoc}
         /\ Collected(p, q).ver \in {0, docs[q].ver}
         /\ p \in job.listing =>
              /\ Collected(p, q).ver = docs[q].ver
              /\ p \in job.hidden \/ docs[q].life # "pending_delete" =>
                   Collected(p, q).life = "active"
         /\ p \notin job.listing /\ (p \in job.hidden => docs[q].life = "pending_delete") =>
              Collected(p, q).life # "active"
         /\ Collected(p, q).ver = 0 => p \notin job.listing /\ p \in job.hidden /\ p \in job.due
<1>1. docs[q] \in Doc
  BY Typed DEF Stored, NoDoc
<1>2. CASE p \in job.listing /\ p \in job.hidden
  <2>1. Collected(p, q) = [docs[q] EXCEPT !.life = "active", !.due = FALSE]
    BY <1>2 DEF Collected, Shown
  <2> QED BY <1>1, <1>2, <2>1 DEF Doc
<1>3. CASE p \in job.listing /\ p \notin job.hidden
  BY <1>1, <1>3 DEF Collected, Doc
<1>4. CASE p \notin job.listing /\ p \notin job.hidden
  <2>1. Collected(p, q) = [docs[q] EXCEPT !.life = "pending_delete", !.due = FALSE]
    BY <1>4 DEF Collected, Marked
  <2> QED BY <1>1, <1>4, <2>1 DEF Doc
<1>5. CASE p \notin job.listing /\ p \in job.hidden /\ p \in job.due
  BY <1>5 DEF Collected, NoDoc
<1>6. CASE p \notin job.listing /\ p \in job.hidden /\ p \notin job.due
  BY <1>1, <1>6 DEF Collected, Doc
<1> QED BY <1>2, <1>3, <1>4, <1>5, <1>6

\* The docs a collection reaches by an id: the one it read, as it read it, or one
\* that has the id since.
LEMMA WithIdIs ==
  ASSUME IndInv, NEW p \in Paths, job.pc = "apply", p \in job.todo
  PROVE  /\ p \in job.known
         /\ \A q \in WithId(p) :
              /\ q \in Paths /\ Stored(q)
              /\ \/ q \in Heirs /\ <<p, q>> \in job.heir /\ p \in job.replaced
                 \/ /\ q = p /\ p \notin job.replaced /\ p \notin Heirs
                    /\ p \in job.hidden <=> docs[p].life = "pending_delete"
                    /\ p \in job.due => docs[p].due
<1>1. p \in job.known /\ Live(p)
  BY DEF IndInv, SettledInv, Live
<1>2. CASE p \in job.replaced
  <2>1. ASSUME NEW q \in WithId(p)
        PROVE  q \in Paths /\ Stored(q) /\ q \in Heirs /\ <<p, q>> \in job.heir
    <3>1. q \in Paths /\ <<p, q>> \in job.heir
      BY <1>2 DEF WithId
    <3>2. \E e \in job.heir : e[1] = p /\ e[2] = q
      BY <3>1
    <3> QED BY <1>1, <3>1, <3>2 DEF IndInv, HeirInv, Heirs
  <2> QED BY <1>1, <1>2, <2>1
<1>3. CASE p \notin job.replaced
  <2>1. Stored(p) /\ p \notin Heirs
    BY <1>1, <1>3 DEF IndInv, KnownInv, HeirInv
  <2>2. (p \in job.hidden <=> docs[p].life = "pending_delete") /\ (p \in job.due => docs[p].due)
    BY <1>1, <1>3 DEF IndInv, ReadInv
  <2> QED BY <1>1, <1>3, <2>1, <2>2 DEF WithId
<1> QED BY <1>2, <1>3

LEMMA GcItemStep ==
  ASSUME IndInv, NEW p \in Paths, GcItem(p)
  PROVE  IndInv'
<1>1. /\ job.pc = "apply" /\ p \in job.todo
      /\ job' = [job EXCEPT !.todo = job.todo \ {p}]
      /\ docs' = [q \in Paths |-> IF q \in WithId(p) THEN Collected(p, q) ELSE docs[q]]
      /\ UNCHANGED <<files, edits, clock, journal, faults, edited, missing, disturbed>>
  BY DEF GcItem
<1>2. /\ job' \in Jobs /\ job'.pc = "apply" /\ job'.todo = job.todo \ {p}
      /\ job'.fresh = job.fresh /\ job'.batch = job.batch /\ job'.full = job.full
      /\ job'.failed = job.failed /\ job'.known = job.known /\ job'.replaced = job.replaced
      /\ job'.listing = job.listing /\ job'.hidden = job.hidden /\ job'.due = job.due
      /\ job'.heir = job.heir
  BY <1>1, Typed DEF Jobs
<1>3. /\ p \in job.known
      /\ \A q \in WithId(p) :
           /\ q \in Paths /\ Stored(q)
           /\ \/ q \in Heirs /\ <<p, q>> \in job.heir /\ p \in job.replaced
              \/ /\ q = p /\ p \notin job.replaced /\ p \notin Heirs
                 /\ p \in job.hidden <=> docs[p].life = "pending_delete"
                 /\ p \in job.due => docs[p].due
  BY <1>1, WithIdIs
<1>4. /\ docs' \in [Paths -> Doc \cup {NoDoc}]
      /\ \A q \in WithId(p) : docs'[q] = Collected(p, q)
      /\ \A q \in Paths \ WithId(p) : docs'[q] = docs[q]
  <2>1. \A q \in WithId(p) : Collected(p, q) \in Doc \cup {NoDoc}
    BY <1>3, CollectedIs
  <2> QED BY <1>1, <1>3, <2>1, Typed
<1>5. TypeOK'
  BY <1>1, <1>2, <1>4 DEF IndInv, TypeOK, Jobs
<1>6. PhaseInv'
  BY <1>1, <1>2 DEF IndInv, PhaseInv
<1>7. \A q \in Paths : /\ Exists(q)' = Exists(q) /\ BehindCursor(q)' = BehindCursor(q)
                       /\ Listed(q)' /\ Listed(q)
  BY <1>1, <1>2 DEF Exists, BehindCursor, Listed
<1>8. \A q \in Paths \ WithId(p) : InSync(q)' = InSync(q) /\ Stored(q)' = Stored(q)
  BY <1>1, <1>4 DEF InSync, Stored
<1>9. ASSUME NEW q \in WithId(p), disturbed = {}, BehindCursor(q), InSync(q)
      PROVE  InSync(q)' \/ q \in journal.retry
  <2>1. CASE q \in Heirs
    BY <1>9, <2>1 DEF IndInv, HeirInv
  <2>2. CASE q = p
    <3>1. p \notin job.listing => files[p].mtime > journal.cursor
      BY <1>7, <1>9, <2>2 DEF IndInv, ListInv, BehindCursor
    <3>2. p \in job.listing
      BY <1>9, <2>2, <3>1, Typed DEF BehindCursor
    <3>3. Collected(p, q).ver = docs[q].ver
      BY <1>3, <3>2, CollectedIs
    <3> QED BY <1>1, <1>4, <1>9, <3>3 DEF InSync
  <2> QED BY <1>3, <2>1, <2>2
<1>10. JournalInv'
  BY <1>1, <1>7, <1>8, <1>9 DEF IndInv, JournalInv
<1>11. ReplayInv' /\ WalkInv' /\ BatchInv' /\ ListInv'
  BY <1>1, <1>2, <1>7 DEF IndInv, PhaseInv, ReplayInv, WalkInv, BatchInv, ListInv
<1>12. \A q \in Paths : Live(q)' => Live(q) /\ q # p
  BY <1>1, <1>2 DEF Live
<1>13. \A q \in job.known \ job.replaced : q \in job'.todo => q \in Paths \ WithId(p)
  <2> SUFFICES ASSUME NEW q \in job.known \ job.replaced, q \in job'.todo, q \in WithId(p)
               PROVE  FALSE
    BY Typed DEF Jobs
  <2>1. q # p /\ Live(q) /\ q \in Heirs
    BY <1>2, <1>3 DEF Live
  <2> QED BY <2>1 DEF IndInv, HeirInv
<1>14. KnownInv'
  <2>1. \A q \in job.known \ job.replaced : q \in job'.todo => Stored(q)'
    BY <1>2, <1>8, <1>13 DEF IndInv, KnownInv
  <2>2. \A q \in job.known \ job.replaced : Listed(q)' /\ q \notin job.listing => q \in missing
    BY <1>7, Typed DEF IndInv, KnownInv, Jobs
  <2> QED BY <1>1, <1>2, <2>1, <2>2 DEF KnownInv
<1>15. \A q \in Paths \ edited : q \in job.known /\ q \in WithId(p) => q = p /\ p \notin job.replaced
  BY <1>3 DEF IndInv, HeirInv
<1>16. job.replaced \subseteq job.known
  BY DEF IndInv, PhaseInv
<1>17. SettledInv'
  <2> SUFFICES ASSUME NEW q \in Paths \ edited
               PROVE  /\ q \in job.replaced => ~Exists(q) /\ ~Stored(q)'
                      /\ q \in job.known \ job'.todo /\ Stored(q)' =>
                           (docs'[q].life = "active" <=> Exists(q))
    BY <1>1, <1>2, <1>7 DEF IndInv, SettledInv
  <2>1. CASE q \notin WithId(p)
    <3>1. docs'[q] = docs[q] /\ Stored(q)' = Stored(q)
      BY <1>4, <1>8, <2>1
    <3>2. q = p => q \in job.replaced
      BY <2>1 DEF WithId
    <3> QED BY <1>1, <1>2, <3>1, <3>2 DEF IndInv, SettledInv
  <2>2. CASE q \in WithId(p) /\ q \in job.known
    <3>1. q = p /\ p \notin job.replaced
      BY <1>15, <2>2
    <3>2. p \in job.listing <=> Exists(p)
      BY <1>7, <3>1 DEF IndInv, SettledInv
    <3>3. /\ docs'[p] = Collected(p, p) /\ Stored(p)
          /\ p \in job.hidden <=> docs[p].life = "pending_delete"
      BY <1>3, <1>4, <2>2, <3>1
    <3> QED BY <3>1, <3>2, <3>3, CollectedIs
  <2>3. CASE q \in WithId(p) /\ q \notin job.known
    BY <1>16, <2>3
  <2> QED BY <2>1, <2>2, <2>3
<1>18. ReadInv'
  <2> SUFFICES ASSUME NEW q \in job.known \ job.replaced, Live(q)'
               PROVE  /\ q \in job.hidden <=> docs'[q].life = "pending_delete"
                      /\ q \in job.due => docs'[q].due
    BY <1>2 DEF ReadInv
  <2>1. q \in job'.todo
    BY <1>2 DEF Live
  <2>2. docs'[q] = docs[q] /\ Live(q)
    BY <1>2, <1>4, <1>13, <2>1 DEF Live
  <2> QED BY <2>2 DEF IndInv, ReadInv
<1>19. HeirInv'
  <2>1. Heirs' = Heirs /\ Heirs \subseteq Paths
    BY <1>2 DEF Heirs
  <2>2. ASSUME NEW e \in job.heir, Live(e[1])'
        PROVE  Stored(e[2])'
    <3>1. /\ e[1] \in Paths /\ e[2] \in Paths /\ e = <<e[1], e[2]>> /\ e[2] \in Heirs
      BY Typed DEF Jobs, Heirs
    <3>2. Live(e[1]) /\ e[1] # p /\ Stored(e[2])
      BY <1>12, <2>2, <3>1 DEF IndInv, HeirInv
    <3>3. e[2] \notin WithId(p)
      <4>1. ASSUME <<p, e[2]>> \in job.heir
            PROVE  FALSE
        <5>1. \E f \in job.heir : f[1] = p /\ f[2] = e[2]
          BY <4>1
        <5>2. Live(p)
          BY <1>1 DEF Live
        <5> QED BY <3>2, <5>1, <5>2 DEF IndInv, HeirInv
      <4> QED BY <1>3, <3>1, <4>1
    <3> QED BY <1>8, <3>1, <3>2, <3>3
  <2>3. \A e \in job.heir : e[1] \in Paths
    BY Typed DEF Jobs
  <2>4. /\ \A e \in job.heir : e[1] \in job.replaced /\ (Live(e[1])' => Stored(e[2])')
        /\ \A e, f \in job.heir : e[2] = f[2] /\ Live(e[1])' /\ Live(f[1])' => e[1] = f[1]
    BY <1>12, <2>2, <2>3 DEF IndInv, HeirInv
  <2>5. \A q \in Heirs : /\ q \in job.known => q \in edited
                         /\ q \in job.known /\ Live(q)' => q \in job.replaced
                         /\ disturbed = {} /\ BehindCursor(q)' => q \in journal.retry
    BY <1>7, <1>12, <2>1 DEF IndInv, HeirInv
  <2>6. ASSUME NEW q \in job.known \ edited, Exists(q)
        PROVE  Stored(q)'
    <3>1. q \in Paths /\ Stored(q)
      BY <2>6, Typed DEF IndInv, HeirInv, Jobs
    <3>2. CASE q \notin WithId(p)
      BY <1>8, <3>1, <3>2
    <3>3. CASE q \in WithId(p)
      <4>1. q = p /\ p \in job.listing
        BY <1>7, <1>15, <2>6, <3>1, <3>3 DEF IndInv, SettledInv
      <4>2. docs'[q] = Collected(p, q) /\ Collected(p, q).ver = docs[q].ver
        BY <1>4, <3>1, <3>3, <4>1, CollectedIs
      <4> QED BY <3>1, <4>2 DEF Stored
    <3> QED BY <3>2, <3>3
  <2>7. \A q \in job.known \ edited : Exists(q)' => Stored(q)'
    BY <1>7, <2>6, Typed DEF Jobs
  <2> QED BY <1>1, <1>2, <2>1, <2>4, <2>5, <2>7 DEF HeirInv
<1> QED BY <1>5, <1>6, <1>10, <1>11, <1>14, <1>17, <1>18, <1>19 DEF IndInv

-----------------------------------------------------------------------------
LEMMA Initially == Init => IndInv
<1> SUFFICES ASSUME Init PROVE IndInv
  OBVIOUS
<1>1. PICK S \in SUBSET Paths :
        files = [p \in Paths |-> [ver |-> IF p \in S THEN 1 ELSE 0, mtime |-> 1]]
  BY DEF Init
<1>2. /\ edits = 0 /\ clock = 1 /\ docs = [p \in Paths |-> NoDoc]
      /\ journal = [cursor |-> 0, retry |-> {}] /\ job = Idle /\ faults = 0
      /\ edited = {} /\ missing = {} /\ disturbed = {}
  BY DEF Init
<1>3. 0 \in Mtimes /\ 1 \in Mtimes /\ 0 \in Vers /\ 1 \in Vers
  BY ConstantsAssumption DEF Mtimes, Vers
<1>4. /\ files \in [Paths -> [ver : Vers, mtime : Mtimes]]
      /\ \A p \in Paths : files[p].mtime = 1
  BY <1>1, <1>3
<1>5. /\ job \in Jobs /\ job.pc = "idle" /\ job.full = {} /\ job.fresh = {} /\ job.batch = {}
      /\ job.replaced = {} /\ job.known = {} /\ job.heir = {}
  BY <1>2, <1>3 DEF Idle, Jobs
<1>6. TypeOK
  BY <1>2, <1>3, <1>4, <1>5, ConstantsAssumption DEF TypeOK, Jobs
<1>7. PhaseInv
  BY <1>2, <1>5 DEF PhaseInv
<1>8. JournalInv
  BY <1>2, <1>4 DEF JournalInv, BehindCursor
<1>9. ReplayInv /\ WalkInv /\ BatchInv /\ ListInv /\ KnownInv /\ SettledInv
  BY <1>5 DEF ReplayInv, WalkInv, BatchInv, ListInv, KnownInv, SettledInv, Listed
<1>10. ReadInv /\ HeirInv
  BY <1>5 DEF ReadInv, HeirInv, Heirs
<1> QED BY <1>6, <1>7, <1>8, <1>9, <1>10 DEF IndInv

LEMMA Stuttering ==
  ASSUME IndInv, UNCHANGED vars
  PROVE  IndInv'
<1>1. UNCHANGED <<files, edits, clock, docs, journal, job, faults, edited, missing, disturbed>>
  BY DEF vars
<1>2. TypeOK' /\ PhaseInv'
  BY <1>1 DEF IndInv, TypeOK, PhaseInv
<1>3. JournalInv' /\ ReplayInv' /\ WalkInv' /\ BatchInv'
  BY <1>1 DEF IndInv, JournalInv, ReplayInv, WalkInv, BatchInv, BehindCursor, Exists, InSync,
              AboveReach, CursorReach
<1>4. ListInv' /\ KnownInv' /\ SettledInv'
  BY <1>1 DEF IndInv, ListInv, KnownInv, SettledInv, Listed, Exists, Stored
<1>5. ReadInv' /\ HeirInv'
  BY <1>1 DEF IndInv, ReadInv, HeirInv, Heirs, Live, Exists, Stored, BehindCursor
<1> QED BY <1>2, <1>3, <1>4, <1>5 DEF IndInv

LEMMA Inductive ==
  ASSUME IndInv, [Next]_vars
  PROVE  IndInv'
<1>1. CASE Edit \/ OtherIndexes \/ GraceEnds
  BY <1>1, EditStep, OtherIndexesStep, GraceEndsStep
<1>2. CASE SyncBegin \/ SyncFails \/ ReplayFails
  BY <1>2, SyncBeginStep, SyncFailsStep, ReplayFailsStep
<1>3. CASE SyncStep
  <2>1. CASE \E p \in Paths : Replay(p) \/ Walk(p)
    BY <2>1, ReplayStep, WalkStep
  <2>2. CASE \E f \in job.fresh : Poll(f)
    BY <2>2, PollStep
  <2>3. CASE WalkBegin \/ Flush \/ SyncDone
    BY <2>3, WalkBeginStep, FlushStep, SyncDoneStep
  <2> QED BY <1>3, <2>1, <2>2, <2>3 DEF SyncStep
<1>4. CASE GcBegin \/ Crash
  BY <1>4, GcBeginStep, EndOnlyStep
<1>5. CASE GcStep
  <2>1. CASE \E p \in Paths : List(p) \/ GcItem(p)
    BY <2>1, ListStep, GcItemStep
  <2>2. CASE GcAbort \/ GcDecide \/ GcDone
    BY <2>2, EndOnlyStep, GcDecideStep
  <2> QED BY <1>5, <2>1, <2>2 DEF GcStep
<1>6. CASE UNCHANGED vars
  BY <1>6, Stuttering
<1> QED BY <1>1, <1>2, <1>3, <1>4, <1>5, <1>6 DEF Next

-----------------------------------------------------------------------------
(***************************************************************************)
(* What each step may never do.                                            *)
(***************************************************************************)
LEMMA CoversStep ==
  ASSUME IndInv, SyncDone, disturbed = {}, NEW p \in Paths \ edited, Exists(p)
  PROVE  InSync(p) \/ p \in journal'.retry
<1>1. job.pc = "poll" /\ job.fresh = {} /\ job.batch = {} /\ journal'.retry = job.failed
  BY DEF SyncDone, Journaled
<1> QED BY <1>1 DEF IndInv, WalkInv

\* A flush deletes only what vanished since it was read.
LEMMA FlushDeletes ==
  ASSUME IndInv, Flush, NEW p \in Paths, Deleted(p)
  PROVE  job.pc # "apply" /\ p \in edited
<1>1. PICK S \in SUBSET {q \in job.batch : Exists(q)} : docs' = Applied(job.batch \ S)
  BY DEF Flush
<1>2. job.batch \subseteq Paths /\ job.pc \in {"retry", "poll"}
  BY Typed DEF Flush, FlushDue, Jobs, IndInv, PhaseInv
<1>3. p \in job.batch /\ ~Exists(p)
  BY <1>1, <1>2, AppliedIs DEF Deleted, Exists, Stored
<1> QED BY <1>2, <1>3 DEF IndInv, BatchInv

\* What the step of a collection takes or hides was missing, and overdue if it
\* is deleted; or it has the id of another doc.
LEMMA GcItemTakes ==
  ASSUME IndInv, NEW q \in Paths, GcItem(q), NEW p \in Paths, p \notin Heirs
  PROVE  /\ Deleted(p) => docs[p].life = "pending_delete" /\ docs[p].due
         /\ Worse(p) => p \in missing
<1>1. /\ job.pc = "apply" /\ q \in job.todo
      /\ docs' = [r \in Paths |-> IF r \in WithId(q) THEN Collected(q, r) ELSE docs[r]]
  BY DEF GcItem
<1>2. CASE p \notin WithId(q)
  <2>1. docs'[p] = docs[p]
    BY <1>1, <1>2
  <2> QED BY <2>1 DEF Deleted, Worse, Stored
<1>3. CASE p \in WithId(q)
  <2>1. /\ p = q /\ q \in job.known \ job.replaced /\ Stored(p)
        /\ p \in job.hidden <=> docs[p].life = "pending_delete"
        /\ p \in job.due => docs[p].due
    BY <1>1, <1>3, WithIdIs
  <2>2. docs'[p] = Collected(p, p)
    BY <1>1, <1>3, <2>1
  <2>3. p \notin job.listing => p \in missing
    BY <1>1, <2>1 DEF IndInv, KnownInv, Listed
  <2> QED BY <2>1, <2>2, <2>3, CollectedIs DEF Deleted, Worse, Stored
<1> QED BY <1>2, <1>3

LEMMA OthersKeepDocs ==
  ASSUME SyncStep \/ GcStep, NEW p \in Paths, Worse(p)
  PROVE  Flush \/ \E q \in Paths : GcItem(q)
<1>1. ~UNCHANGED docs
  BY DEF Worse, Deleted, Stored
<1>2. CASE SyncStep
  BY <1>1, <1>2 DEF SyncStep, Replay, Walk, Poll, WalkBegin, SyncDone
<1>3. CASE GcStep
  BY <1>1, <1>3 DEF GcStep, List, GcAbort, GcDecide, GcDone
<1> QED BY <1>2, <1>3

LEMMA DeletesStep ==
  ASSUME IndInv, ByJob, NEW p \in Paths,
         IF job.pc = "apply" THEN p \notin Heirs ELSE p \notin edited
  PROVE  OverdueWhenDeleted(p)
<1> SUFFICES ASSUME Deleted(p)
             PROVE  docs[p].life = "pending_delete" /\ docs[p].due
  BY DEF OverdueWhenDeleted
<1>1. Flush \/ \E q \in Paths : GcItem(q)
  BY OthersKeepDocs DEF ByJob, Worse
<1>2. CASE \E q \in Paths : GcItem(q)
  <2>1. p \notin Heirs
    BY <1>2 DEF GcItem
  <2> QED BY <1>2, <2>1, GcItemTakes
<1> QED BY <1>1, <1>2, FlushDeletes

LEMMA SparesStep ==
  ASSUME IndInv, GcStep, NEW p \in Paths, Worse(p)
  PROVE  p \in missing \cup Heirs
<1>1. \E q \in Paths : GcItem(q)
  <2>1. ~UNCHANGED docs
    BY DEF Worse, Deleted, Stored
  <2> QED BY <2>1 DEF GcStep, List, GcAbort, GcDecide, GcDone
<1> QED BY <1>1, GcItemTakes

LEMMA SettlesStep ==
  ASSUME IndInv, GcDone, NEW p \in job.known \ edited, Stored(p)
  PROVE  docs[p].life = "active" <=> Exists(p)
<1>1. job.pc = "apply" /\ job.todo = {} /\ p \in Paths
  BY Typed DEF GcDone, Jobs
<1> QED BY <1>1 DEF IndInv, SettledInv

(***************************************************************************)
(* What each connector job leaves, under every interleaving with the edits *)
(* of files and with another process that indexes them, and whatever read, *)
(* batch or process fails: a sync run journaled as good has indexed every  *)
(* file that was not edited meanwhile or has it replayed; a doc is deleted *)
(* only at the end of its grace window; a collection takes only what was   *)
(* missing, or has the id of a row that is gone, and hides exactly what is *)
(* gone (sync.py).                                                         *)
(***************************************************************************)
THEOREM JobsKeepDocs == Spec => JobsKeepTheDocs
<1>1. Init => IndInv
  BY Initially
<1>2. IndInv /\ [Next]_vars => IndInv'
  BY Inductive
<1>3. IndInv => TypeOK
  BY DEF IndInv
<1>4. IndInv /\ [Next]_vars =>
        [SyncDone /\ disturbed = {} =>
           \A p \in Paths \ edited : Exists(p) => InSync(p) \/ p \in journal'.retry]_vars
  BY CoversStep
<1>5. IndInv /\ [Next]_vars =>
        [ByJob => \A p \in Paths :
                    (IF job.pc = "apply" THEN p \notin Heirs ELSE p \notin edited)
                      => OverdueWhenDeleted(p)]_vars
  BY DeletesStep
<1>6. IndInv /\ [Next]_vars =>
        [GcStep => \A p \in Paths : Worse(p) => p \in missing \cup Heirs]_vars
  BY SparesStep
<1>7. IndInv /\ [Next]_vars =>
        [GcDone => \A p \in job.known \ edited :
                     Stored(p) => (docs[p].life = "active" <=> Exists(p))]_vars
  BY SettlesStep
<1> QED BY <1>1, <1>2, <1>3, <1>4, <1>5, <1>6, <1>7, PTL
        DEF Spec, JobsKeepTheDocs, SyncCoversUndisturbed, DeletedAfterGraceSettled,
            GcSparesOthers, GcSettles
=============================================================================
