---------------------------- MODULE MCRetrieval ----------------------------
(***************************************************************************)
(* Questions and answers, the links between docs, and version histories,   *)
(* one `part' per behaviour: they share no state, so their state spaces    *)
(* add up and do not multiply.                                             *)
(***************************************************************************)
EXTENDS Retrieval, Links

VARIABLE part

allVars == <<part, retrievalVars, linkVars>>

Asleep == /\ phase = "costs" /\ corpus = <<>> /\ ask = <<>> /\ dense = <<>>
          /\ found = <<>> /\ answer = <<>>

MCInit == \/ part = "search" /\ RetrievalInit /\ LinksInit
          \/ part = "links" /\ Asleep /\ LinksInit
          \/ part = "history" /\ Asleep /\ HistoryInit

SearchPart == part = "search" /\ RetrievalNext /\ UNCHANGED <<part, linkVars>>
LinksPart == part = "links" /\ LinksNext /\ UNCHANGED <<part, retrievalVars>>

MCNext == SearchPart \/ LinksPart

MCSpec == MCInit /\ [][MCNext]_allVars

Profile(source, lifecycle, status, owners, replaced) ==
    [source |-> source, lifecycle |-> lifecycle, status |-> status, owners |-> owners,
     replaced |-> replaced]

MCProfiles == {
    Profile("trovex", "active", "canonical", {"o"}, FALSE),
    Profile("trovex", "active", "canonical", {"o", "p"}, FALSE),
    Profile("trovex", "active", "duplicate", {"o"}, FALSE),
    Profile("trovex", "archived", "stale", {}, TRUE),
    Profile("code", "active", "canonical", {}, FALSE)}

MCKeywords == {<<>>, <<1>>, <<4, 2>>, <<3, 1, 4>>}

\* rowids as near as the docs, or the other way round
MCRowIds == {[d \in 1..N |-> d], [d \in 1..N |-> N - d]}

MCQuestions ==
    [scope : {"trovex", "*"}, tags : {{}, {"o"}, {"o", "p"}}, archived : BOOLEAN]

\* whole, short, repeated, out of range
MCOrders == {<<>>, <<2>>, <<3, 1, 2>>, <<2, 2, 1>>, <<0, 9, 3>>}

\* stub, card and passage; a card can cost less than the stub
MCCosts == {<<1, 2, 4>>, <<2, 1, 3>>, <<1, 1, 2>>, <<3, 3, 3>>}

\* A and B are sources of files, trovex the owned docs
MCSource == [a1 |-> "A", a2 |-> "A", b1 |-> "B", o1 |-> "trovex"]
MCBase == [a1 |-> "design", a2 |-> "index", b1 |-> "design", o1 |-> "o1"]

Link(at, norm, text) == [at |-> at, norm |-> norm, text |-> text]
Says(links, names) == [links |-> links, names |-> names]

\* nothing; [[design]] from beside a1 and b1, with o1's title mentioned;
\* [[ui/plan]], a title with a slash; [[o1]], and index mentioned
MCContents == {
    Says({}, {}),
    Says({Link({"a1", "b1"}, "design", "design")}, {"plan"}),
    Says({Link({}, "plan", "ui/plan")}, {"design"}),
    Says({Link({}, "o1", "o1")}, {"index"})}
=============================================================================
