------------------------------- MODULE Links -------------------------------
(***************************************************************************)
(* The edges between docs: the links found in their text (links_parse.py), *)
(* the mentions inferred by a status pass (implicit_refs.py) and the typed *)
(* `supersedes' edges that trovex_read(as_of=...) walks (store.py).        *)
(*                                                                         *)
(* An edge keeps what was written and the doc it is bound to.  Writing a   *)
(* doc replaces its own edges and re-binds the dangling edges whose lookup *)
(* key is one of its names; nothing else re-binds an edge.  Parsing, and   *)
(* the similarity edges, are left out: a link is a record of what the      *)
(* steps of resolve_ref compare.                                           *)
(***************************************************************************)
EXTENDS Naturals, Sequences, FiniteSets, FiniteSetsExt, SequencesExt, Functions

CONSTANTS
    Pages,       \* docs that may exist; one never gets another's path or ext_id
    Source,      \* of each doc: the source it is in
    Base,        \* of each doc: its file name without .md, or its ext_id
    Titles,      \* lower-cased titles
    Contents,    \* what a doc may say: its links and the names it mentions
    MaxWrites,   \* bound on the writes and deletes
    LastTime     \* bound on the times in a version history

NoDoc == "none"

\* A link target: the docs its relative path can name, its dst_norm, its text.
ASSUME LinksAssumption ==
    /\ IsFiniteSet(Pages) /\ NoDoc \notin Pages
    /\ \A c \in Contents : \A t \in c.links : t.at \subseteq Pages
    /\ MaxWrites \in Nat /\ LastTime \in Nat

VARIABLES
    docs,        \* the docs that exist: title and content of each
    edges,       \* doc_refs
    writes,      \* how many writes and deletes there were
    spoiled,     \* history: names that were not one file's from its first link on
    history      \* supersedes edges and first_indexed times of a version history

linkVars == <<docs, edges, writes, spoiled, history>>

Present == DOMAIN docs

Edge(src, target, kind, dst) == [src |-> src, target |-> target, kind |-> kind, dst |-> dst]

NoDocs == docs = [d \in {} |-> 0] /\ edges = {} /\ writes = 0 /\ spoiled = {}

LinksInit ==
    /\ NoDocs
    /\ history = [older |-> [d \in {} |-> NoDoc], born |-> [d \in {} |-> 0]]

Only(S) == IF Cardinality(S) = 1 THEN CHOOSE d \in S : TRUE ELSE NoDoc

\* resolve_ref, the first step that finds one doc: the relative path, the file
\* name in the same source, the file name anywhere if the source has none, the
\* title, the ext_id
Resolve(all, src, t) ==
    LET here == {d \in t.at : d \in DOMAIN all /\ Source[d] = Source[src]}
        named == {d \in DOMAIN all : Base[d] = t.norm}
        same == {d \in named : Source[d] = Source[src]}
        titled == {d \in DOMAIN all : all[d].title = t.text}
        owned == {d \in DOMAIN all : Source[d] = "trovex" /\ Base[d] = t.text}
    IN  IF here # {} THEN CHOOSE d \in here : TRUE
        ELSE IF Cardinality(same) = 1 THEN Only(same)
        ELSE IF same = {} /\ Cardinality(named) = 1 THEN Only(named)
        ELSE IF Cardinality(titled) = 1 THEN Only(titled)
        ELSE Only(owned)

\* mutant: a new doc is looked for under its title only
KeysTitle(all, d) == {all[d].title}

\* the names under which a dangling edge may be waiting for the doc
Keys(all, d) == {Base[d], all[d].title}

\* sync_doc_refs: the doc's own edges, then the dangling ones that may mean it
Synced(all, d) ==
    LET own == {Edge(d, t, "links-to", Resolve(all, d, t)) : t \in all[d].content.links}
        kept == {e \in edges : e.src # d}
    IN  {IF e.dst = NoDoc /\ e.target.norm \in Keys(all, d)
         THEN [e EXCEPT !.dst = Resolve(all, e.src, e.target)] ELSE e : e \in kept \cup own}

\* names a link found a doc of another name under: by its path or its title
Strays(found) ==
    {e.target.norm : e \in {x \in found : x.dst # NoDoc /\ Base[x.dst] # x.target.norm}}

\* a file is indexed or a doc is put, new or over its former text; unchanged text
\* ends before the links (put_batch syncs none: an imported doc is no page until it
\* is put)
WriteDoc(d) ==
    /\ writes < MaxWrites
    /\ \E title \in Titles, content \in Contents :
          /\ d \in Present => docs[d] # [title |-> title, content |-> content]
          /\ docs' = [x \in Present \cup {d} |->
                        IF x = d THEN [title |-> title, content |-> content] ELSE docs[x]]
          /\ edges' = Synced(docs', d)
    /\ spoiled' = spoiled \cup Strays(edges')
                     \cup {Base[x] : x \in {y \in Present \ {d} : Base[y] = Base[d]}}
    /\ writes' = writes + 1 /\ UNCHANGED history

\* the deleted doc's edges go, those that point at it dangle
Orphaned(d) ==
    {IF e.dst = d THEN [e EXCEPT !.dst = NoDoc] ELSE e : e \in {x \in edges : x.src # d}}

\* delete_doc_cascade
DeleteDoc(d) ==
    /\ writes < MaxWrites /\ d \in Present
    /\ docs' = [x \in Present \ {d} |-> docs[x]]
    /\ edges' = Orphaned(d)
    /\ spoiled' = spoiled \cup {Base[d]} /\ writes' = writes + 1
    /\ UNCHANGED history

\* _name_index: names that are one doc's alone
Names ==
    LET has(d, n) == n = docs[d].title \/ (Source[d] # "trovex" /\ n = Base[d])
    IN  {nd \in (Titles \cup {Base[x] : x \in Pages}) \X Present :
            {x \in Present : has(x, nd[1])} = {nd[2]}}

Mention(n) == [at |-> {}, norm |-> n, text |-> n]

\* sync_implicit_refs for the docs a status pass touched: a name in the text of
\* one that has no explicit edge to that doc
Infer(d) ==
    /\ d \in Present
    /\ LET linked == {e.dst : e \in {x \in edges : x.src = d /\ x.kind = "links-to"}}
           new == {nd \in Names : nd[1] \in docs[d].content.names
                                  /\ nd[2] # d /\ nd[2] \notin linked}
           kept == {e \in edges : ~(e.src = d /\ e.kind = "mentions")}
           written == {e.target.text : e \in {x \in kept : x.src = d}}
       IN  edges' = kept \cup {Edge(d, Mention(nd[1]), "mentions", nd[2]) :
                                nd \in {x \in new : x[1] \notin written}}
    /\ spoiled' = spoiled \cup Strays(edges')
    /\ UNCHANGED <<docs, writes, history>>

LinksNext == \E d \in Pages : WriteDoc(d) \/ DeleteDoc(d) \/ Infer(d)

LinksSpec == LinksInit /\ [][LinksNext]_linkVars

(***************************************************************************)
(* Walking the supersedes edges, newer doc to older, to a time.            *)
(***************************************************************************)

\* mutant: a doc is in force only after the instant it was written
InForceLater(born, asOf) == born < asOf

\* a doc is current from its first_indexed on
InForce(born, asOf) == born <= asOf

\* resolve_as_of: older[d] is the doc that the row LIMIT 1 picks says d supersedes
AsOf(older, born, d, asOf) ==
    LET walk[n \in Nat] ==
            IF n = 0 THEN <<d>>
            ELSE LET path == walk[n - 1]
                     here == Last(path)
                 IN  IF InForce(born[here], asOf) \/ older[here] \in {NoDoc} \cup Range(path)
                     THEN path ELSE Append(path, older[here])
    IN  Last(walk[Cardinality(DOMAIN born)])

\* any versions and times instead of links: the input of resolve_as_of
HistoryInit ==
    /\ NoDocs
    /\ history \in [older : [Pages -> Pages \cup {NoDoc}], born : [Pages -> 1..LastTime]]

HistorySpec == HistoryInit /\ [][LinksNext]_linkVars

(***************************************************************************)
(* Properties.                                                             *)
(***************************************************************************)

\* Edges end at docs that are there (an id that is used again would make one an
\* edge to a stranger), and a link to a file's name is bound to it whichever of
\* the two was written first, whatever else was written between, unless the name
\* was another doc's too, a link found a doc of another name under it (its title,
\* say) or the file was deleted meanwhile (db.py:2262 "the edge is KEPT so it
\* binds the moment the target appears").
EdgesAreBound ==
    /\ \A e \in edges : e.src \in Present /\ e.dst \in Present \cup {NoDoc}
    /\ \A e \in edges, d \in Present :
           e.target.norm = Base[d] /\ Base[d] \notin spoiled => e.dst # NoDoc

\* A doc and what it replaced, one after the other: what is in every set that has
\* the doc and, with a doc, the one it replaced.
Line(older, d) ==
    {x \in Pages : \A S \in SUBSET Pages :
        d \in S /\ (\A y \in S : older[y] # NoDoc => older[y] \in S) => x \in S}

\* trovex_read(as_of=...) shows the version that was in force: of the versions a
\* doc replaced, one after the other, the latest that was not written after that
\* time, or the oldest there is.  Histories in which a doc is not younger than
\* what it replaced (a restored doc starts anew) are out.
AsOfShowsTheVersion ==
    LET older == history.older
        born == history.born
    IN  (\A d \in DOMAIN born : older[d] # NoDoc => born[older[d]] < born[d]) =>
            \A d \in DOMAIN born : \A t \in 0..LastTime + 1 :
                LET valid == {x \in Line(older, d) : born[x] <= t}
                    shown == AsOf(older, born, d, t)
                IN  IF valid = {} THEN shown \in Line(older, d) /\ older[shown] = NoDoc
                    ELSE shown \in valid /\ \A x \in valid : born[x] <= born[shown]

\* The same whatever happened before, of a name that is one doc's now: a rename,
\* "which is delete+insert" (db.py:1034), lets the edge bind again.  A full pass
\* inserts first and deletes last, and a deletion binds nothing.
RenamedTargetIsBound ==
    \A e \in edges, d \in Present :
        e.target.norm = Base[d] /\ (\A x \in Present : Base[x] = Base[d] => x = d)
            => e.dst # NoDoc

\* The same of every link that resolves now.  A link by a title with a "/" is
\* looked up under its last part, which is no key of the doc.
NothingResolvableDangles ==
    \A e \in edges : e.dst = NoDoc => Resolve(docs, e.src, e.target) = NoDoc

\* "a [[design]] in repo A must bind to A's design.md even when repo B also has
\* one" (links_parse.py:232): an edge is never bound to another doc than the one
\* its text means now.  Only dangling edges are re-bound, so it stays with B's
\* when A's comes second.
BoundToWhatItMeans ==
    \A e \in edges : e.kind = "links-to" /\ e.dst # NoDoc
        => Resolve(docs, e.src, e.target) \in {e.dst, NoDoc}

\* "Docs this one already connects to explicitly/by citation -- never also infer"
\* (implicit_refs.py:119).  A dangling link bound after the mention was inferred
\* makes a second edge.
InferredOnlyWhereUnlinked ==
    \A e, x \in edges : e.kind = "mentions" /\ x.kind = "links-to" /\ e.src = x.src
        => e.dst # x.dst \/ e.dst = NoDoc
=============================================================================
