----------------------------- MODULE Retrieval -----------------------------
(***************************************************************************)
(* What a search returns: Searcher.search (search.py), SqliteStore.        *)
(* search_chunks (store.py), the boot packs (boot.py), the rerankers       *)
(* (rerank.py, rerank_local.py) and the budget fitting (budget.py), as     *)
(* operators over a corpus, a question and what the models answered.  A    *)
(* behaviour picks a corpus, asks once and may rerank; the properties      *)
(* relate the answer to the corpus.                                        *)
(*                                                                         *)
(* A corpus is a list of rows with a vector each, numbered from the nearest to*)
(* the query to the farthest: the docs for trovex(), the chunks for        *)
(* trovex_search(), each with the metadata of its doc (a doc of several chunks*)
(* is several rows of one profile).  Left out: the age and importance factors*)
(* of a score, and the kind filter (a metadata column treated as status is).*)
(***************************************************************************)
EXTENDS Integers, FiniteSets, Sequences, SequencesExt, FiniteSetsExt, Functions

CONSTANTS
    N,          \* docs of a corpus
    Profiles,   \* metadata a doc can have
    Keywords,   \* what BM25 can return, best first
    RowIds,     \* how rowids may be given to docs
    Questions,  \* scope, tags and include_archived of a search
    Limit,      \* results asked for
    Wide,       \* candidates fetched for the reranker
    Window,     \* k of a KNN: max(limit * 5, 50), of chunks max(limit * 6, 50)
    MaxK,       \* k when tags are filtered after the KNN: VEC0_MAX_K
    Recall,     \* cap of the keyword side: BM25_RECALL_LIMIT
    Orders,     \* index lists a reranking model may return
    Floors,     \* least scores a boot pack may ask for
    Costs,      \* tokens of a candidate per tier
    MaxBudget   \* bound: token budgets tried

\* STATUS_WEIGHT, in hundredths
StatusWeight == [canonical |-> 100, plan |-> 85, stale |-> 50, duplicate |-> 60,
                 superseded |-> 30]

ASSUME RetrievalAssumption ==
    /\ N \in Nat \ {0} /\ Limit \in Nat \ {0} /\ {Wide, Window, MaxK, Recall} \subseteq Nat
    /\ MaxK >= Window /\ Window >= Wide /\ Wide >= Limit
    /\ \A r \in RowIds : r \in [1..N -> Nat] /\ IsInjective(r)
    /\ \A b \in Keywords : b \in Seq(1..N) /\ IsInjective(b)
    /\ Orders \subseteq Seq(Int)
    /\ \A p \in Profiles : p.status \in DOMAIN StatusWeight /\ IsFiniteSet(p.owners)
    /\ \A q \in Questions : IsFiniteSet(q.tags)
    /\ Costs \subseteq [1..3 -> Nat] /\ MaxBudget \in Nat

VARIABLES
    corpus,     \* [doc: profile of each doc, bm: keyword hits, row: rowids, flagged: sources with an HNSW index]
    phase,      \* "corpus", "asked", "docs", "chunks", "boot", "static" or "fitted"
    ask,        \* the question
    dense,      \* docs the vector side found, in its order
    found,      \* docs the search returned, best first
    answer      \* what the caller gets

retrievalVars == <<corpus, phase, ask, dense, found, answer>>

Docs == 1..N

Sources(c) == {c.doc[d].source : d \in Docs}

FirstOf(s, n) == SubSeq(s, 1, IF n < Len(s) THEN n ELSE Len(s))

Where(s, d) == CHOOSE i \in DOMAIN s : s[i] = d

\* S as a sequence, in the order that the pairs in `before' give: at each place
\* the one that has so many before it
Arranged(S, before) ==
    [i \in 1..Cardinality(S) |->
        CHOOSE d \in S : Cardinality({e \in S : <<e, d>> \in before}) = i - 1]

Rising(S) == {p \in S \X S : p[1] < p[2]}

\* of s, what stands at the places, or what is in S
At(s, places) == LET at == Arranged(places, Rising(places)) IN [i \in DOMAIN at |-> s[at[i]]]
Select(s, S) == At(s, {i \in DOMAIN s : s[i] \in S})

(***************************************************************************)
(* Filters.                                                                *)
(***************************************************************************)
Lifecycled(p, q) ==
    p.lifecycle # "pending_delete" /\ (p.lifecycle # "archived" \/ q.archived)

Tagged(p, q) == q.tags # {} => q.tags \cap p.owners # {}

InScope(p, q) == q.scope = "*" \/ p.source = q.scope

\* _passes_filters
PassesFilters(c, q, d) ==
    LET p == c.doc[d] IN
    Lifecycled(p, q) /\ p.status # "duplicate" /\ InScope(p, q) /\ Tagged(p, q)

Visible(c, q) == {d \in Docs : PassesFilters(c, q, d)}

\* A single owner tag is a column of the vector table; other tags are not.
OwnerTag(q) == Cardinality(q.tags) = 1

(***************************************************************************)
(* Searcher._vector_rows and _owner_multi_fallback.                        *)
(***************************************************************************)
ByDistance(S) == Arranged(S, Rising(S))

\* sqlite-vec: metadata is filtered inside the KNN. vec_docs.owner is empty for
\* a doc with several owners.
KnnPool(c, q, src) ==
    {d \in Docs : LET p == c.doc[d] IN
        /\ p.source = src /\ Lifecycled(p, q) /\ p.status # "duplicate"
        /\ OwnerTag(q) => p.owners = q.tags}

\* The tags that are no column are filtered after it, among the most a KNN can
\* return.
Knn(c, q, src) ==
    LET k == IF q.tags # {} /\ ~OwnerTag(q) THEN MaxK ELSE Window IN
    ByDistance({d \in Range(FirstOf(ByDistance(KnnPool(c, q, src)), k)) : Tagged(c.doc[d], q)})

\* mutant: docs of several owners are not looked for
OwnerFallbackNone(c, q, src) == <<>>

OwnerFallback(c, q, src) ==
    IF ~OwnerTag(q) THEN <<>>
    ELSE FirstOf(ByDistance({d \in Docs : LET p == c.doc[d] IN
                  /\ p.source = src /\ Lifecycled(p, q) /\ p.status # "duplicate"
                  /\ Tagged(p, q) /\ Cardinality(p.owners) > 1}), Wide)

\* The HNSW index knows no metadata: its nearest, then the rows of docs with
\* those ids that pass, in the order of the table.
Hnsw(c, q, src) ==
    LET near == ByDistance({d \in Docs : c.doc[d].source = src})
        got == Range(IF q.tags # {} THEN near ELSE FirstOf(near, Window)) IN
    Arranged({d \in got : PassesFilters(c, q, d)}, {p \in Docs \X Docs : c.row[p[1]] < c.row[p[2]]})

SourceRows(c, q, src) ==
    IF src \in c.flagged THEN Hnsw(c, q, src)
    ELSE Knn(c, q, src) \o OwnerFallback(c, q, src)

Partitions(c, q) == IF q.scope = "*" THEN Sources(c) ELSE {q.scope}

\* mutant: partitions are appended, not merged
Unmerged(c, q) ==
    LET srcs == SetToSeq(Partitions(c, q)) IN
    FlattenSeq([i \in DOMAIN srcs |-> SourceRows(c, q, srcs[i])])

\* Several partitions, or the owner fallback, are merged by distance.
Merged(c, q) ==
    IF Cardinality(Partitions(c, q)) > 1 \/ OwnerTag(q)
    THEN ByDistance(UNION {Range(SourceRows(c, q, src)) : src \in Partitions(c, q)})
    ELSE SourceRows(c, q, CHOOSE src \in Partitions(c, q) : TRUE)

VectorRows(c, q) == Merged(c, q)

(***************************************************************************)
(* Searcher._bm25_ids and the fusion: reciprocal ranks, weighted by status.*)
(***************************************************************************)
BmIds(c, q) ==
    LET hits == Select(c.bm, {d \in Docs : OwnerTag(q) => Tagged(c.doc[d], q)}) IN
    Select(FirstOf(hits, Recall), Visible(c, q))

\* 1 / (60 + rank), as a whole number
Scale == 60 * 61 * 62 * 63

Reciprocal(s, d) == IF d \in Range(s) THEN Scale \div (59 + Where(s, d)) ELSE 0

Fusion(v, b, d) == Reciprocal(v, d) + Reciprocal(b, d)

Score(c, v, b, d) == Fusion(v, b, d) * StatusWeight[c.doc[d].status]

\* sort() is stable: equal scores keep the order the lists were read in.
Arrival(v, b, d) == IF d \in Range(v) THEN Where(v, d) ELSE Len(v) + Where(b, d)

Ranked(value, v, b) ==
    Arranged(DOMAIN value,
            {p \in Docs \X Docs :
                \/ value[p[1]] > value[p[2]]
                \/ value[p[1]] = value[p[2]] /\ Arrival(v, b, p[1]) < Arrival(v, b, p[2])})

\* search(), hybrid
Search(c, q) ==
    LET v == VectorRows(c, q)
        b == BmIds(c, q) IN
    Ranked([d \in Range(v) \cup Range(b) |-> Score(c, v, b, d)], v, b)

(***************************************************************************)
(* SqliteStore.search_chunks: the same with its own fusion.                *)
(***************************************************************************)
ChunkPool(c, q, src) ==
    {d \in Docs : LET p == c.doc[d] IN
        p.source = src /\ (src \notin c.flagged => Lifecycled(p, q) /\ p.status # "duplicate")}

ChunkK(q) == IF q.tags # {} THEN MaxK ELSE Window

\* An HNSW index can return all it has.
ChunkKnn(c, q, src) ==
    LET near == ByDistance(ChunkPool(c, q, src)) IN
    IF src \in c.flagged /\ q.tags # {} THEN near ELSE FirstOf(near, ChunkK(q))

\* The partitions' lists one after the other, the partitions in any order.
ChunkRows(c, q) ==
    LET turn(d) == Where(SetToSeq(Sources(c)), c.doc[d].source) IN
    Arranged(UNION {Range(ChunkKnn(c, q, src)) : src \in Partitions(c, q)},
            {p \in Docs \X Docs :
                turn(p[1]) < turn(p[2]) \/ (turn(p[1]) = turn(p[2]) /\ p[1] < p[2])})

ChunkPasses(c, q, d) ==
    LET p == c.doc[d] IN
    Lifecycled(p, q) /\ InScope(p, q) /\ Tagged(p, q) /\ ~p.replaced

SearchChunks(c, q) ==
    LET v == ChunkRows(c, q)
        b == FirstOf(c.bm, ChunkK(q))
        ranked == Ranked([d \in Range(v) \cup Range(b) |-> Fusion(v, b, d)], v, b) IN
    FirstOf(Select(ranked, {d \in Docs : ChunkPasses(c, q, d)}), Limit)

(***************************************************************************)
(* boot_pointers and boot_pointers_static: an agent's own records.         *)
(***************************************************************************)
BootQuestion(owner) == [scope |-> "trovex", tags |-> {owner}, archived |-> FALSE]

\* cosine similarity, falling with the distance: of the nearest doc N
Similarity(d) == N + 1 - d

\* _make_result
DenseScore(c, d) == Similarity(d) * StatusWeight[c.doc[d].status]

\* search(hybrid=False)
DenseSearch(c, q) ==
    LET v == VectorRows(c, q) IN
    FirstOf(Ranked([d \in Range(v) |-> DenseScore(c, d)], v, <<>>), Wide)

BootPack(c, q, floor) ==
    Select(DenseSearch(c, q), {d \in Docs : DenseScore(c, d) >= floor})

\* The fallback of a saturated server, over the static vectors: no rows of
\* docs with several owners, and the bare similarity.
StaticRows(c, q) ==
    FirstOf(ByDistance({d \in Docs : LET p == c.doc[d] IN
             /\ p.source = "trovex" /\ Lifecycled(p, q) /\ p.status # "duplicate"
             /\ p.owners = q.tags}), Wide)

StaticPack(c, q, floor) ==
    Select(StaticRows(c, q), {d \in Docs : Similarity(d) * 100 >= floor})

(***************************************************************************)
(* maybe_rerank.                                                           *)
(***************************************************************************)
\* rank 1 beats rank 2 by more than a fifth of its score
MarginClear(c, q, s) ==
    LET value(d) == Score(c, VectorRows(c, q), BmIds(c, q), d) IN
    Len(s) < 2 \/ 5 * (value(s[1]) - value(s[2])) > value(s[1])

Reranks(c, q, s) == Len(s) > Limit /\ ~MarginClear(c, q, s)

\* mutant: an index may come twice
PickedTwice(s, order) ==
    LET kept == Select(order, DOMAIN s) IN [i \in DOMAIN kept |-> s[kept[i]]]

\* _rerank: indices of the model that are out of range or repeated are
\* skipped, candidates it forgot follow in their order.
Picked(s, order) ==
    LET fresh == {i \in DOMAIN order : /\ order[i] \in DOMAIN s
                                       /\ \A j \in 1..(i - 1) : order[j] # order[i]}
        kept == At(order, fresh) IN
    [i \in DOMAIN kept |-> s[kept[i]]]

Reordered(s, order) ==
    LET picked == Picked(s, order) IN picked \o Select(s, Docs \ Range(picked))

(***************************************************************************)
(* fit_budget: a prefix of stubs by bisection, then upgrades in order.     *)
(***************************************************************************)
\* the sum of the first n
Total(f, n) ==
    LET upTo[i \in Nat] == IF i \in DOMAIN f THEN upTo[i - 1] + f[i] ELSE 0 IN upTo[n]

PrefixCost(cost, n) == Total([i \in DOMAIN cost |-> cost[i][1]], n)

\* a turn of the loop over lo and hi
Halved(cost, budget, at) ==
    LET mid == (at.lo + at.hi + 1) \div 2 IN
    IF at.lo >= at.hi THEN at
    ELSE IF PrefixCost(cost, mid) <= budget THEN [at EXCEPT !.lo = mid]
         ELSE [at EXCEPT !.hi = mid - 1]

\* each turn brings lo and hi closer: it ends in as many as there are candidates
Bisect(cost, budget) ==
    LET loop[k \in Nat] ==
            IF k = 0 THEN [lo |-> 0, hi |-> Len(cost)] ELSE Halved(cost, budget, loop[k - 1])
    IN  loop[Len(cost)].lo

\* mutant: what is spent already is not counted
UpgradeUncounted(cost, budget, fit, step) ==
    LET extra == cost[step[2]][step[1]] - cost[step[2]][fit.tier[step[2]]] IN
    IF extra <= budget
    THEN [tier |-> [fit.tier EXCEPT ![step[2]] = step[1]], used |-> fit.used + extra]
    ELSE fit

\* one candidate, one tier: taken when what it costs more still fits
Upgrade(cost, budget, fit, step) ==
    LET extra == cost[step[2]][step[1]] - cost[step[2]][fit.tier[step[2]]] IN
    IF extra <= budget - fit.used
    THEN [tier |-> [fit.tier EXCEPT ![step[2]] = step[1]], used |-> fit.used + extra]
    ELSE fit

\* all cards, then all passages
FitBudget(cost, budget) ==
    LET n == Bisect(cost, budget)
        fits[k \in 0..2 * n] ==
            IF k = 0 THEN [tier |-> [i \in 1..n |-> 1], used |-> PrefixCost(cost, n)]
            ELSE Upgrade(cost, budget, fits[k - 1], IF k <= n THEN <<2, k>> ELSE <<3, k - n>>)
    IN  fits[2 * n]

(***************************************************************************)
(* Behaviours.                                                             *)
(***************************************************************************)
Corpora ==
    [doc : [Docs -> Profiles], bm : Keywords, row : RowIds, flagged : SUBSET {"trovex"}]

RetrievalInit ==
    /\ \/ phase = "corpus" /\ corpus \in Corpora
       \/ phase = "costs" /\ corpus \in UNION {[1..n -> Costs] : n \in 0..N}
    /\ ask = <<>> /\ dense = <<>> /\ found = <<>> /\ answer = <<>>

\* trovex(): candidates for the reranker, or the answer when there is
\* nothing to rerank
AskDocs(q) ==
    /\ phase = "corpus"
    /\ ask' = q
    /\ dense' = VectorRows(corpus, q)
    /\ found' = FirstOf(Search(corpus, q), Wide)
    /\ phase' = IF Reranks(corpus, q, found') THEN "asked" ELSE "docs"
    /\ answer' = IF phase' = "asked" THEN <<>> ELSE FirstOf(found', Limit)
    /\ UNCHANGED corpus

Rerank(order) ==
    /\ phase = "asked"
    /\ phase' = "docs"
    /\ answer' = FirstOf(Reordered(found, order), Limit)
    /\ UNCHANGED <<corpus, ask, dense, found>>

\* trovex_search()
AskChunks(q) ==
    /\ phase = "corpus"
    /\ ask' = q
    /\ dense' = ChunkRows(corpus, q)
    /\ found' = SearchChunks(corpus, q)
    /\ answer' = found'
    /\ phase' = "chunks"
    /\ UNCHANGED corpus

\* /api/boot: dense only, above a floor
AskBoot(owner, floor) ==
    /\ phase = "corpus"
    /\ ask' = BootQuestion(owner)
    /\ dense' = VectorRows(corpus, ask')
    /\ found' = DenseSearch(corpus, ask')
    /\ answer' = BootPack(corpus, ask', floor)
    /\ phase' = "boot"
    /\ UNCHANGED corpus

\* ... and its degraded form
AskStatic(owner, floor) ==
    /\ phase = "corpus"
    /\ ask' = BootQuestion(owner)
    /\ dense' = StaticRows(corpus, ask')
    /\ found' = dense'
    /\ answer' = StaticPack(corpus, ask', floor)
    /\ phase' = "static"
    /\ UNCHANGED corpus

\* trovex_search(budget=...)
Fit(budget) ==
    /\ phase = "costs"
    /\ phase' = "fitted"
    /\ ask' = budget
    /\ answer' = FitBudget(corpus, budget)
    /\ UNCHANGED <<corpus, dense, found>>

RetrievalNext ==
    \/ \E q \in Questions : AskDocs(q) \/ AskChunks(q)
    \/ \E owner \in UNION {p.owners : p \in Profiles}, floor \in Floors :
           AskBoot(owner, floor) \/ AskStatic(owner, floor)
    \/ \E order \in Orders : Rerank(order)
    \/ \E budget \in 1..MaxBudget : Fit(budget)

RetrievalSpec == RetrievalInit /\ [][RetrievalNext]_retrievalVars

(***************************************************************************)
(* Properties.                                                             *)
(***************************************************************************)
Answered == phase \in {"docs", "chunks"}

Twins == \A i, j \in DOMAIN answer : answer[i] = answer[j] => i = j

Booted == phase \in {"boot", "static"}

\* Every answer, whatever the reranking model returned, lists docs the
\* question may see and none twice, and is short of the limit only when all
\* that was found is in it (rerank.py: "NEVER raises ... Always returns at
\* least the original top-limit candidates").
AnswerIsSound ==
    /\ Answered \/ Booted =>
        /\ Twins
        /\ \A d \in Range(answer) :
               IF phase = "chunks" THEN ChunkPasses(corpus, ask, d) ELSE PassesFilters(corpus, ask, d)
    /\ Answered => Len(answer) = IF Len(found) < Limit THEN Len(found) ELSE Limit

\* trovex_search hides duplicates as trovex does (store.py: lifecycle, status
\* and kind are pre-filtered).
ChunksHideDuplicates ==
    phase = "chunks" => \A d \in Range(answer) : corpus.doc[d].status # "duplicate"

\* What an answer may show; replaced docs are dropped from the chunks only.
Shown(c, q, chunks) == {d \in Visible(c, q) : chunks => ~c.doc[d].replaced}

\* of S, what is nearer than d in its partition
NearerOf(c, d, S) == {e \in S : e < d /\ c.doc[e].source = c.doc[d].source}

\* Rows that are dropped after the KNN, for their tags or as replaced, are
\* among those that stand before d, and with those they are as many as it
\* returns.  Metadata columns are not: an answer of docs to a question with no
\* tag or one owner drops none.
Squeezed(c, q, chunks, d) ==
    LET src == c.doc[d].source
        before == NearerOf(c, d, IF chunks THEN ChunkPool(c, q, src) ELSE KnnPool(c, q, src)) IN
    /\ src \notin c.flagged
    /\ \E e \in before : e \notin Shown(c, q, chunks)
    /\ Cardinality(before) >= ChunkK(q)

\* A row that may be shown, with fewer than a limit of such rows nearer than
\* it, is found by the vector side: filters do not squeeze it out of the KNN
\* (search.py: "so no post-filter squeeze"), but for those that come after it
\* and drop enough rows to fill its k.  So an empty boot pack is "a true scope
\* miss" (boot.py:67) for an agent that has no more docs than are fetched.
Wanted(c, q, chunks) ==
    {d \in Shown(c, q, chunks) : Cardinality(NearerOf(c, d, Shown(c, q, chunks))) < Limit}

Recalled ==
    \A d \in Wanted(corpus, ask, phase = "chunks") :
        d \in Range(dense) \/ Squeezed(corpus, ask, phase = "chunks", d)

\* With an HNSW index it holds for tagged questions only.
Flat == Sources(corpus) \cap corpus.flagged = {}

NearestAreRecalled ==
    phase \in {"asked", "docs", "chunks", "boot"} /\ (Flat \/ ask.tags # {}) => Recalled

\* The static recall has the "same scope as the dense path" (boot.py:221).
StaticRecallsAsDense == phase = "static" => Recalled

\* The same with an HNSW index.
NearestAreRecalledHnsw == phase \in {"asked", "docs", "chunks"} => Recalled

\* "a tag-scoped query scans the whole (bounded) partition" (search.py:244-245).
TagsScanThePartition ==
    phase \in {"asked", "docs", "chunks"} /\ ask.tags # {} =>
        Wanted(corpus, ask, phase = "chunks") \subseteq Range(dense)

\* Of two docs found that weigh the same, one that is nearer to the question,
\* in the window of its partition if the other is in its own, and no worse a
\* keyword hit ranks first: merging shards, owners and the two signals keeps
\* the order both agree on.
Agreed(d, e) ==
    /\ d < e
    /\ corpus.doc[d].status = corpus.doc[e].status
    /\ e \in Range(dense) => d \in Range(dense)
    /\ e \in Range(corpus.bm) =>
           d \in Range(corpus.bm) /\ Where(corpus.bm, d) < Where(corpus.bm, e)

OrderKept == \A i, j \in DOMAIN found : Agreed(found[i], found[j]) => i < j

NearerRanksHigher ==
    /\ phase \in {"asked", "docs"} /\ (Flat \/ OwnerTag(ask)) => OrderKept
    /\ phase = "chunks" /\ ask.scope # "*" => OrderKept

\* The same over several partitions, for trovex_search too (search.py: "EVERY
\* partition is scanned and merged by distance").
NearerRanksHigherEverywhere == Answered => OrderKept

\* The budget is kept, what is reported as used is what the results cost, and
\* the results are the longest prefix of the ranking that fits as stubs.
BudgetFits ==
    phase = "fitted" =>
        LET n == Len(answer.tier) IN
        /\ answer.used <= ask
        /\ answer.used = Total([i \in 1..n |-> corpus[i][answer.tier[i]]], n)
        /\ \A m \in (n + 1)..Len(corpus) : PrefixCost(corpus, m) > ask
=============================================================================
