------------------------- MODULE DocLifecycleProofs -------------------------
(***************************************************************************)
(* Proofs about DocLifecycle, for any exts, bodies, topics and owners, any *)
(* number of threads, calls and days, any caps, batches and thresholds.    *)
(***************************************************************************)
EXTENDS DocLifecycle, FiniteSetTheorems, SequenceTheorems, WellFoundedInduction, TLAPS

-----------------------------------------------------------------------------
(***************************************************************************)
(* The inductive invariant.                                                *)
(***************************************************************************)
Jobs == [pc : {"idle", "chunks", "owners", "restore", "clear"},
         tomb : Tombstone \cup {NoTomb}, ids : SUBSET Nat,
         phase : {"none", "superseded", "stale", "owners"}]

Types ==
  /\ now \in Nat /\ now <= MaxTime
  /\ docs \in [Exts -> Row]
  /\ tombs \in Seq(Tombstone)
  /\ thread \in [Threads -> Jobs]
  /\ \A t \in Threads : Restoring(t) => thread[t].tomb \in Tombstone
  /\ latest \in [Exts -> Bodies \cup {NoBody}]
  /\ written \in [Exts -> Nat]
  /\ doubled \in BOOLEAN

IdsDistinct == \A e, f \in Live : docs[e].id = docs[f].id => e = f

\* Tombstones are in the order of their ids, so the last has the greatest.
Ascending == \A i, j \in DOMAIN tombs : i < j => tombs[i].id < tombs[j].id

\* A doc that is there has the body last given it; one that is not left it in
\* a tombstone.
StoredIsLatest == \A e \in Live : docs[e].body = latest[e]

Kept0(e) == <<e, latest[e]>> \in Bodies0(tombs) \cup capped
GoneIsKept == doubled \/ \A e \in Exts \ Live : latest[e] = NoBody \/ Kept0(e)

OneRestores ==
  doubled \/ \A t, u \in Threads : Restoring(t) /\ Restoring(u) => t = u

\* A restore holds a tombstone whose id no other has got: either it is there, or
\* the cap took it and greater ids are left.
Reserved(k) ==
  /\ \A i \in DOMAIN tombs : tombs[i].id = k.id => tombs[i] = k
  /\ \E i \in DOMAIN tombs : tombs[i].id >= k.id

\* Once it has put, a tombstone of its doc that matters is a later one.
Relieved(k) ==
  \/ Stored(k.ext)
  \/ <<k.ext, latest[k.ext]>> \in capped
  \/ \E i \in DOMAIN tombs : tombs[i].id > k.id /\ tombs[i].ext = k.ext
                             /\ tombs[i].body = latest[k.ext]

Holding(t) ==
  /\ Reserved(thread[t].tomb)
  /\ thread[t].pc = "clear" => Relieved(thread[t].tomb)

RestoresHold == doubled \/ \A t \in Threads : Restoring(t) => Holding(t)

\* A doc in the deletion queue was written before it got there.
QueuedAfterWrite ==
  /\ \A e \in Exts : written[e] <= now
  /\ \A e \in Exts : docs[e].lifecycle = "pending_delete" /\ e \notin imported
                       => written[e] <= docs[e].since

LifeInv == /\ Types /\ IdsDistinct /\ Ascending /\ StoredIsLatest /\ GoneIsKept
           /\ OneRestores /\ RestoresHold /\ QueuedAfterWrite

-----------------------------------------------------------------------------
(***************************************************************************)
(* Greatest elements.                                                      *)
(***************************************************************************)
LEMMA LeastOfNats ==
  ASSUME NEW S, S \subseteq Nat, S # {}
  PROVE  \E n \in S : \A m \in S : n <= m
<1> DEFINE R == OpToRel(<, Nat)
<1>1. \E n \in S : \A m \in S : <<m, n>> \notin R
  <2>1. IsWellFoundedOn(R, Nat)
    BY NatLessThanWellFounded, Zenon
  <2> HIDE DEF R
  <2> QED
    BY <2>1, WFMin
<1>2. \A m, n \in Nat : <<m, n>> \in R <=> m < n
  BY DEF OpToRel
<1> HIDE DEF R
<1>3. PICK n \in S : \A m \in S : <<m, n>> \notin R
  BY <1>1
<1>4. ASSUME NEW m \in S PROVE n <= m
  <2>1. m \in Nat /\ n \in Nat /\ <<m, n>> \notin R
    BY <1>3
  <2> QED
    BY <2>1, <1>2
<1> QED
  BY <1>3, <1>4

LEMMA MaxIs ==
  ASSUME NEW S, S \subseteq Int, NEW m \in S, \A x \in S : x <= m
  PROVE  Max(S) = m
<1>1. m \in Int /\ \A x \in S : x \in Int
  OBVIOUS
<1>2. \A x \in S : (\A y \in S : x >= y) => x = m
  BY <1>1
<1>3. \A y \in S : m >= y
  BY <1>1
<1> QED
  BY <1>2, <1>3 DEF Max

\* A function on a finite set is bounded,
LEMMA Bounded ==
  ASSUME NEW E, IsFiniteSet(E), NEW f \in [E -> Nat]
  PROVE  \E b \in Nat : \A e \in E : f[e] <= b
<1>1. PICK s \in Seq(E) : \A e \in E : \E n \in 1..Len(s) : s[n] = e
  BY DEF IsFiniteSet
<1> DEFINE upTo(k) == \E b \in Nat : \A i \in 1..k : f[s[i]] <= b
           bad == {k \in 0..Len(s) : ~upTo(k)}
<1>2. Len(s) \in Nat /\ \A i \in 1..Len(s) : f[s[i]] \in Nat
  OBVIOUS
<1>3. upTo(0)
  <2>1. \A i \in 1..0 : f[s[i]] <= 0
    OBVIOUS
  <2> QED
    BY <2>1
<1>4. ASSUME NEW k \in 1..Len(s), upTo(k - 1) PROVE upTo(k)
  <2>1. PICK b \in Nat : \A i \in 1..(k - 1) : f[s[i]] <= b
    BY <1>4
  <2>2. f[s[k]] \in Nat
    BY <1>2
  <2>3. PICK c \in Nat : b <= c /\ f[s[k]] <= c
    <3>1. b <= b + f[s[k]] /\ f[s[k]] <= b + f[s[k]] /\ b + f[s[k]] \in Nat
      BY <2>2
    <3> QED
      BY <3>1
  <2>4. ASSUME NEW i \in 1..k PROVE f[s[i]] <= c
    <3>1. i \in 1..Len(s) /\ (i = k \/ i \in 1..(k - 1))
      BY <1>2
    <3>2. CASE i = k
      BY <3>2, <2>3
    <3>3. CASE i \in 1..(k - 1)
      <4>1. f[s[i]] \in Nat /\ f[s[i]] <= b
        BY <3>1, <3>3, <1>2, <2>1
      <4> QED
        BY <4>1, <2>3
    <3> QED
      BY <3>1, <3>2, <3>3
  <2> QED
    BY <2>4
<1>5. bad = {}
  <2> SUFFICES ASSUME bad # {} PROVE FALSE
    OBVIOUS
  <2>1. bad \subseteq Nat /\ \A k \in bad : k \in 0..Len(s) /\ ~upTo(k)
    BY <1>2
  <2>2. \A k \in 0..Len(s) : upTo(k) \/ k \in bad
    OBVIOUS
  <2> HIDE DEF bad, upTo
  <2>3. PICK k \in bad : \A m \in bad : k <= m
    BY <2>1, LeastOfNats
  <2>4. k # 0 /\ k \in 0..Len(s)
    BY <1>3, <2>1
  <2>5. k \in 1..Len(s) /\ k - 1 \in 0..Len(s) /\ k - 1 < k
    BY <2>4, <1>2
  <2>6. k - 1 \notin bad
    BY <2>3, <2>5
  <2> QED
    BY <2>1, <2>2, <2>5, <2>6, <1>4
<1>6. upTo(Len(s))
  <2>1. Len(s) \in 0..Len(s)
    BY <1>2
  <2> HIDE DEF upTo
  <2> QED
    BY <2>1, <1>5
<1>7. PICK b \in Nat : \A i \in 1..Len(s) : f[s[i]] <= b
  BY <1>6
<1> QED
  BY <1>1, <1>7

\* and takes a greatest value.
LEMMA MaxOfImage ==
  ASSUME NEW E, IsFiniteSet(E), E # {}, NEW f \in [E -> Nat]
  PROVE  LET S == {f[e] : e \in E} IN Max(S) \in Nat /\ \A e \in E : f[e] <= Max(S)
<1> DEFINE S == {f[e] : e \in E}
           U == {b \in Nat : \A e \in E : f[e] <= b}
<1>1. U # {}
  BY Bounded
<1>2. PICK m \in U : \A b \in U : m <= b
  <2>1. U \subseteq Nat
    OBVIOUS
  <2> HIDE DEF U
  <2> QED
    BY <1>1, <2>1, LeastOfNats
<1>3. m \in S
  <2> SUFFICES ASSUME m \notin S PROVE FALSE
    OBVIOUS
  <2>1. \A e \in E : f[e] \in Nat /\ f[e] < m
    <3>1. TAKE e \in E
    <3>2. f[e] \in S /\ f[e] \in Nat /\ f[e] <= m
      BY <1>2
    <3> QED
      BY <3>2
  <2>2. m - 1 \in Nat
    BY <2>1
  <2>3. m - 1 \in U
    BY <2>1, <2>2
  <2> QED
    BY <2>3, <1>2
<1>4. S \subseteq Int /\ \A x \in S : x <= m
  BY <1>2
<1> HIDE DEF S
<1>5. Max(S) = m
  BY <1>3, <1>4, MaxIs
<1> QED
  BY <1>2, <1>5 DEF S


LEMMA MaxOfTwo == \A a, b \in Int : Max({a, b}) = IF a >= b THEN a ELSE b
<1> TAKE a, b \in Int
<1> DEFINE S == {a, b}
           m == IF a >= b THEN a ELSE b
<1>1. S \subseteq Int /\ m \in S /\ \A x \in S : x <= m
  OBVIOUS
<1> HIDE DEF S, m
<1>2. Max(S) = m
  BY <1>1, MaxIs
<1> QED
  BY <1>2 DEF S, m

-----------------------------------------------------------------------------
(***************************************************************************)
(* Tombstones.                                                             *)
(***************************************************************************)
LEMMA TombstonesAre ==
  ASSUME NEW s \in Seq(Tombstone)
  PROVE  /\ Len(s) \in Nat /\ DOMAIN s = 1..Len(s)
         /\ \A i \in 1..Len(s) : /\ s[i] \in Tombstone /\ s[i].id \in Nat \ {0}
                                  /\ s[i].ext \in Exts /\ s[i].body \in Bodies
<1>1. Len(s) \in Nat /\ DOMAIN s = 1..Len(s) /\ \A i \in 1..Len(s) : s[i] \in Tombstone
  OBVIOUS
<1>2. \A k \in Tombstone : k.id \in Nat \ {0} /\ k.ext \in Exts /\ k.body \in Bodies
  BY DEF Tombstone
<1> QED
  BY <1>1, <1>2

LEMMA NextTombIs ==
  ASSUME Types, Ascending
  PROVE  /\ NextTomb(tombs) \in Nat \ {0}
         /\ \A i \in DOMAIN tombs : tombs[i].id < NextTomb(tombs)
<1> DEFINE S == {0} \cup {tombs[i].id : i \in DOMAIN tombs}
           n == Len(tombs)
           m == IF n = 0 THEN 0 ELSE tombs[n].id
<1>1. n \in Nat /\ DOMAIN tombs = 1..n /\ \A i \in 1..n : tombs[i] \in Tombstone
  BY DEF Types
<1>2. \A i \in 1..n : tombs[i].id \in Nat \ {0}
  BY <1>1 DEF Tombstone
<1>3. \A i \in 1..n : tombs[i].id <= m
  <2>1. TAKE i \in 1..n
  <2>2. n \in 1..n /\ m = tombs[n].id /\ tombs[i].id \in Nat /\ tombs[n].id \in Nat
    BY <1>1, <1>2
  <2>3. CASE i = n
    BY <2>2, <2>3
  <2>4. CASE i # n
    <3>1. i < n
      <4>1. n \in Nat /\ i \in 1..n /\ i # n
        BY <2>4, <1>1
      <4> HIDE DEF n
      <4> QED
        BY <4>1
    <3>2. tombs[i].id < tombs[n].id
      BY <3>1, <2>2, <1>1 DEF Ascending
    <3> QED
      BY <3>2, <2>2
  <2> QED
    BY <2>3, <2>4
<1>4. S \subseteq Int /\ m \in S /\ m \in Nat /\ \A x \in S : x <= m
  BY <1>1, <1>2, <1>3
<1> HIDE DEF S, m
<1>5. Max(S) = m
  BY <1>4, MaxIs
<1>6. NextTomb(tombs) = m + 1
  BY <1>5 DEF NextTomb, S
<1> QED
  BY <1>1, <1>2, <1>3, <1>4, <1>6

\* Of the docs buried together each has a place of its own.
LEMMA RanksAre ==
  ASSUME Types, IdsDistinct, NEW es, es \subseteq Live
  PROVE  /\ Cardinality(es) \in Nat /\ IsFiniteSet(es)
         /\ \A e \in es : Rank(es, e) \in 1..Cardinality(es)
         /\ \A e, f \in es : Rank(es, e) = Rank(es, f) => e = f
         /\ \A i \in 1..Cardinality(es) : \E e \in es : Rank(es, e) = i
<1> DEFINE n == Cardinality(es)
           upTo(e) == {f \in es : docs[f].id <= docs[e].id}
<1>1. IsFiniteSet(es) /\ n \in Nat
  BY LifecycleAssumption, FS_Subset, FS_CardinalityType DEF Live
<1>2. \A e \in es : docs[e].id \in Nat
  BY DEF Types, Row, Live
<1>3. ASSUME NEW e \in es
      PROVE  IsFiniteSet(upTo(e)) /\ Rank(es, e) = Cardinality(upTo(e)) /\ Rank(es, e) \in 1..n
  <2>1. upTo(e) \in SUBSET es /\ e \in upTo(e)
    BY <1>2
  <2>2. IsFiniteSet(upTo(e)) /\ Cardinality(upTo(e)) <= n /\ Cardinality(upTo(e)) \in Nat
    BY <2>1, <1>1, FS_Subset, FS_CardinalityType
  <2>3. Cardinality(upTo(e)) # 0
    BY <2>1, <2>2, FS_EmptySet
  <2> QED
    BY <2>2, <2>3, <1>1 DEF Rank
<1>4. ASSUME NEW e \in es, NEW f \in es, Rank(es, e) = Rank(es, f),
             docs[e].id <= docs[f].id
      PROVE  e = f
  <2>1. upTo(e) \in SUBSET upTo(f) /\ f \in upTo(f)
    BY <1>2, <1>4
  <2>2. upTo(e) = upTo(f)
    BY <2>1, <1>3, <1>4, FS_Subset
  <2>3. docs[f].id <= docs[e].id
    BY <2>1, <2>2
  <2>4. docs[e].id = docs[f].id
    BY <2>3, <1>2, <1>4
  <2> QED
    BY <2>4 DEF IdsDistinct
<1>5. \A e, f \in es : Rank(es, e) = Rank(es, f) => e = f
  <2>1. TAKE e, f \in es
  <2>2. docs[e].id <= docs[f].id \/ docs[f].id <= docs[e].id
    BY <1>2
  <2> QED
    BY <2>2, <1>4
<1> DEFINE r == [e \in es |-> Rank(es, e)]
<1>6. r \in [es -> 1..n]
  BY <1>3
<1>7. r \in Injection(es, 1..n)
  BY <1>5, <1>6 DEF Injection, IsInjective
<1>8. IsFiniteSet(1..n) /\ Cardinality(1..n) = n
  <2>1. 1 \in Int /\ n \in Int
    BY <1>1
  <2> QED
    BY <1>1, <2>1, FS_Interval
<1>9. r \in Surjection(es, 1..n)
  <2> HIDE DEF r
  <2> QED
    BY <1>7, <1>8, FS_Injection
<1>10. \A i \in 1..n : \E e \in es : r[e] = i
  BY <1>9 DEF Surjection
<1> QED
  BY <1>1, <1>3, <1>5, <1>10

LEMMA BuriesIs ==
  ASSUME Types, Ascending, IdsDistinct, NEW es, es \subseteq Live
  PROVE  /\ Cardinality(es) \in Nat
         /\ Buries(es) \in Seq(Tombstone) /\ Len(Buries(es)) = Cardinality(es)
         /\ \A i \in 1..Cardinality(es) :
              /\ Buries(es)[i].id = NextTomb(tombs) + i - 1
              /\ Buries(es)[i].ext \in es
              /\ Buries(es)[i].body = docs[Buries(es)[i].ext].body
         /\ \A e \in es : \E i \in 1..Cardinality(es) :
              Buries(es)[i].ext = e /\ Buries(es)[i].body = docs[e].body
<1> DEFINE n == Cardinality(es)
           nth(i) == CHOOSE e \in es : Rank(es, e) = i
           new == Buries(es)
<1>1. n \in Nat /\ \A i \in 1..n : nth(i) \in es /\ Rank(es, nth(i)) = i
  BY RanksAre
<1>2. \A e \in es : Rank(es, e) \in 1..n /\ nth(Rank(es, e)) = e
  <2>1. TAKE e \in es
  <2>2. Rank(es, e) \in 1..n
    BY RanksAre
  <2>3. nth(Rank(es, e)) \in es /\ Rank(es, nth(Rank(es, e))) = Rank(es, e)
    BY <2>2, <1>1
  <2> HIDE DEF nth
  <2> QED
    BY <2>2, <2>3, RanksAre
<1>3. new = [i \in 1..n |-> TombOf(nth(i), NextTomb(tombs) + i - 1)]
  BY DEF Buries
<1> HIDE DEF n, nth, new
<1>4. \A e \in es, k \in Nat \ {0} :
        /\ TombOf(e, k) \in Tombstone /\ TombOf(e, k).id = k
        /\ TombOf(e, k).ext = e /\ TombOf(e, k).body = docs[e].body
  <2>1. \A e \in es : e \in Exts /\ docs[e] \in Row /\ docs[e].body # NoBody
    BY DEF Types, Live, Stored
  <2> QED
    BY <2>1 DEF TombOf, Tombstone, Row
<1>5. ASSUME NEW i \in 1..n
      PROVE  /\ new[i] \in Tombstone /\ new[i].id = NextTomb(tombs) + i - 1
             /\ new[i].ext = nth(i) /\ new[i].body = docs[nth(i)].body
  <2>1. NextTomb(tombs) + i - 1 \in Nat \ {0}
    BY NextTombIs, <1>1
  <2>2. nth(i) \in es /\ new[i] = TombOf(nth(i), NextTomb(tombs) + i - 1)
    BY <1>1, <1>3
  <2> QED
    BY <2>1, <2>2, <1>4
<1>6. new \in Seq(Tombstone) /\ Len(new) = n
  BY <1>1, <1>3, <1>5
<1>7. \A e \in es : \E i \in 1..n : new[i].ext = e /\ new[i].body = docs[e].body
  BY <1>2, <1>5
<1> QED
  BY <1>1, <1>5, <1>6, <1>7 DEF n, new

\* The cap cuts off a beginning, and nothing where there is room.
LEMMA NewestIs ==
  ASSUME NEW S, NEW ts \in Seq(S)
  PROVE  \E k \in Nat :
           /\ k <= Len(ts) /\ (k = Len(ts) => k = 0) /\ (Len(ts) <= TombCap => k = 0)
           /\ Newest(ts) \in Seq(S) /\ Len(Newest(ts)) = Len(ts) - k
           /\ \A i \in 1..(Len(ts) - k) : Newest(ts)[i] = ts[i + k]
<1> DEFINE n == Len(ts)
           m == IF 1 >= n - TombCap + 1 THEN 1 ELSE n - TombCap + 1
<1>1. n \in Nat /\ TombCap \in Nat \ {0} /\ \A i \in 1..n : ts[i] \in S
  BY LifecycleAssumption
<1>2. Max({1, n - TombCap + 1}) = m
  BY <1>1, MaxOfTwo
<1>3. Newest(ts) = SubSeq(ts, m, n)
  BY <1>2 DEF Newest
<1>4. m \in Int /\ m >= 1 /\ (n >= 1 => m <= n) /\ (n = 0 => m = 1) /\ (n <= TombCap => m = 1)
  BY <1>1
<1> HIDE DEF m
<1> DEFINE t == SubSeq(ts, m, n)
<1>5. /\ t \in Seq(S) /\ Len(t) = IF m <= n THEN n - m + 1 ELSE 0
      /\ \A i \in 1..(n - m + 1) : t[i] = ts[m + i - 1]
  <2>1. \A i \in m..n : ts[i] \in S
    BY <1>1, <1>4
  <2> QED
    BY <2>1, <1>1, <1>4, SubSeqProperties
<1> HIDE DEF t, n
<1>6. m - 1 \in Nat /\ n - (m - 1) = n - m + 1 /\ Len(t) = n - (m - 1)
  BY <1>1, <1>4, <1>5
<1>7. \A i \in 1..(n - (m - 1)) : t[i] = ts[i + (m - 1)]
  <2>1. TAKE i \in 1..(n - (m - 1))
  <2>2. i \in 1..(n - m + 1) /\ m + i - 1 = i + (m - 1)
    BY <1>1, <1>4
  <2> QED
    BY <2>2, <1>5
<1>8. m - 1 <= n /\ (m - 1 = n => m - 1 = 0) /\ (n <= TombCap => m - 1 = 0)
  BY <1>1, <1>4
<1> QED
  BY <1>3, <1>5, <1>6, <1>7, <1>8 DEF n, t

\* The tombstones and those of the docs in `es', before the cap.
Joined(es) == tombs \o Buries(es)

LEMMA AllTombs ==
  ASSUME Types, Ascending, IdsDistinct, NEW es, es \subseteq Live
  PROVE  LET all == Joined(es) IN
         /\ all \in Seq(Tombstone) /\ Len(all) = Len(tombs) + Cardinality(es)
         /\ \A i, j \in 1..Len(all) : i < j => all[i].id < all[j].id
         /\ \A i \in DOMAIN tombs : i \in 1..Len(all) /\ all[i] = tombs[i]
         /\ \A i \in 1..Len(all) : i \notin DOMAIN tombs =>
              /\ all[i].id >= NextTomb(tombs) /\ all[i].ext \in es
              /\ all[i].body = docs[all[i].ext].body
         /\ \A e \in es : \E i \in 1..Len(all) :
              /\ all[i].id >= NextTomb(tombs) /\ all[i].ext = e
              /\ all[i].body = docs[e].body
<1> DEFINE new == Buries(es)
           c == Cardinality(es)
           l == Len(tombs)
           n == l + c
           all == tombs \o new
<1>1. l \in Nat /\ DOMAIN tombs = 1..l /\ tombs \in Seq(Tombstone)
  BY DEF Types
<1>2. /\ c \in Nat /\ new \in Seq(Tombstone) /\ Len(new) = c
      /\ \A i \in 1..c : /\ new[i].id = NextTomb(tombs) + i - 1 /\ new[i].ext \in es
                         /\ new[i].body = docs[new[i].ext].body
      /\ \A e \in es : \E i \in 1..c : new[i].ext = e /\ new[i].body = docs[e].body
  BY BuriesIs
<1>3. NextTomb(tombs) \in Nat /\ \A i \in 1..l : tombs[i].id < NextTomb(tombs)
  BY NextTombIs, <1>1
<1>4. \A i \in 1..l : tombs[i].id \in Nat
  BY <1>1, TombstonesAre
<1> HIDE DEF new, c, l
<1>5. /\ all \in Seq(Tombstone) /\ Len(all) = n
      /\ \A i \in 1..n : all[i] = IF i <= l THEN tombs[i] ELSE new[i - l]
  <2>1. tombs \in Seq(Tombstone) /\ new \in Seq(Tombstone)
    BY <1>1, <1>2
  <2>2. /\ tombs \o new \in Seq(Tombstone) /\ Len(tombs \o new) = Len(tombs) + Len(new)
        /\ \A i \in 1..(Len(tombs) + Len(new)) :
             (tombs \o new)[i] = IF i <= Len(tombs) THEN tombs[i] ELSE new[i - Len(tombs)]
    BY <2>1
  <2> QED
    BY <2>2, <1>2 DEF l
<1>6. \A i \in 1..l : i \in 1..n /\ all[i] = tombs[i]
  BY <1>1, <1>2, <1>5
<1>7. \A i \in 1..n : i \notin 1..l => i - l \in 1..c /\ all[i] = new[i - l] /\ i > l
  BY <1>1, <1>2, <1>5
<1> HIDE DEF all
<1>8. \A i \in 1..n : i \notin 1..l => all[i].id = NextTomb(tombs) + (i - l) - 1
  BY <1>2, <1>7
<1>9. ASSUME NEW i \in 1..n, NEW j \in 1..n, i < j PROVE all[i].id < all[j].id
  <2>1. CASE i \in 1..l /\ j \in 1..l
    BY <2>1, <1>1, <1>6, <1>9 DEF Ascending
  <2>2. CASE i \in 1..l /\ j \notin 1..l
    <3>1. all[i].id < NextTomb(tombs) /\ all[i].id \in Nat
      BY <2>2, <1>3, <1>4, <1>6
    <3>2. all[j].id = NextTomb(tombs) + (j - l) - 1 /\ j - l \in Nat /\ j - l >= 1
      BY <2>2, <1>7, <1>8, <1>2
    <3> QED
      BY <3>1, <3>2, <1>3
  <2>3. CASE i \notin 1..l /\ j \notin 1..l
    <3>1. all[i].id = NextTomb(tombs) + (i - l) - 1 /\ all[j].id = NextTomb(tombs) + (j - l) - 1
      BY <2>3, <1>8
    <3>2. i \in Nat /\ j \in Nat
      BY <1>1, <1>2
    <3> QED
      BY <3>1, <3>2, <1>9, <1>1, <1>3
  <2>4. ~(i \notin 1..l /\ j \in 1..l)
    BY <1>9, <1>7, <1>1, <1>2
  <2> QED
    BY <2>1, <2>2, <2>3, <2>4
<1>10. ASSUME NEW i \in 1..n, i \notin 1..l
       PROVE  /\ all[i].id >= NextTomb(tombs) /\ all[i].ext \in es
              /\ all[i].body = docs[all[i].ext].body
  <2>1. all[i].id = NextTomb(tombs) + (i - l) - 1 /\ i - l \in Nat /\ i - l >= 1
    BY <1>10, <1>7, <1>8, <1>2
  <2>2. all[i].id >= NextTomb(tombs)
    BY <2>1, <1>3
  <2> QED
    BY <2>2, <1>10, <1>7, <1>2
<1>11. ASSUME NEW e \in es
       PROVE  \E i \in 1..n : /\ all[i].id >= NextTomb(tombs) /\ all[i].ext = e
                              /\ all[i].body = docs[e].body
  <2>1. PICK i \in 1..c : new[i].ext = e /\ new[i].body = docs[e].body
    BY <1>2
  <2>2. l + i \in 1..n /\ l + i \notin 1..l /\ (l + i) - l = i
    BY <1>1, <1>2
  <2>3. all[l + i] = new[i]
    BY <2>2, <1>7
  <2> QED
    BY <2>1, <2>2, <2>3, <1>10
<1>12. all = Joined(es) /\ n = Len(tombs) + Cardinality(es)
  BY DEF all, new, c, l, Joined
<1> QED
  BY <1>1, <1>5, <1>6, <1>9, <1>10, <1>11, <1>12

\* A tombstone that is no longer there is remembered as capped, unless a later one
\* says the same.
LEMMA LaterKept ==
  ASSUME Types, Ascending, IdsDistinct, NEW es, es \subseteq Live, Buried(es)
  PROVE  /\ tombs' \in Seq(Tombstone) /\ Ascending' /\ capped \subseteq capped'
         /\ \A i \in DOMAIN tombs :
              \/ <<tombs[i].ext, tombs[i].body>> \in capped'
              \/ \E j \in DOMAIN tombs' :
                   /\ tombs'[j].id >= tombs[i].id /\ tombs'[j].ext = tombs[i].ext
                   /\ tombs'[j].body = tombs[i].body
         /\ \A e \in es :
              \/ <<e, docs[e].body>> \in capped'
              \/ \E j \in DOMAIN tombs' :
                   /\ tombs'[j].id >= NextTomb(tombs) /\ tombs'[j].ext = e
                   /\ tombs'[j].body = docs[e].body
         /\ \A j \in DOMAIN tombs' :
              \/ \E i \in DOMAIN tombs : tombs'[j] = tombs[i]
              \/ tombs'[j].id >= NextTomb(tombs)
         /\ \A i \in DOMAIN tombs : \E j \in DOMAIN tombs' : tombs'[j].id >= tombs[i].id
<1> DEFINE all == Joined(es)
           n == Len(all)
           pairs == Bodies0(tombs) \cup {<<e, docs[e].body>> : e \in es}
<1>1. /\ all \in Seq(Tombstone) /\ Len(all) = n /\ n \in Nat
      /\ n = Len(tombs) + Cardinality(es)
      /\ \A i, j \in 1..n : i < j => all[i].id < all[j].id
      /\ \A i \in DOMAIN tombs : i \in 1..n /\ all[i] = tombs[i]
      /\ \A i \in 1..n : i \notin DOMAIN tombs =>
           /\ all[i].id >= NextTomb(tombs) /\ all[i].ext \in es
           /\ all[i].body = docs[all[i].ext].body
      /\ \A e \in es : \E i \in 1..n :
           /\ all[i].id >= NextTomb(tombs) /\ all[i].ext = e /\ all[i].body = docs[e].body
  BY AllTombs
<1>2. /\ tombs' = Newest(all)
      /\ capped' = IF n <= TombCap THEN capped ELSE capped \cup (pairs \ Bodies0(tombs'))
  BY <1>1 DEF Buried, Entombed, Joined
<1>3. \A i \in 1..n : <<all[i].ext, all[i].body>> \in pairs
  BY <1>1 DEF Bodies0
<1>4. \A p \in pairs : n <= TombCap \/ p \in capped' \/ p \in Bodies0(tombs')
  BY <1>2
<1>5. capped \subseteq capped'
  BY <1>2
<1>6. NextTomb(tombs) \in Nat
  BY NextTombIs
<1> HIDE DEF all, n, pairs
<1>7. PICK k \in Nat :
        /\ k <= n /\ (k = n => k = 0) /\ (n <= TombCap => k = 0)
        /\ tombs' \in Seq(Tombstone) /\ Len(tombs') = n - k
        /\ \A i \in 1..(n - k) : tombs'[i] = all[i + k]
  <2>1. all \in Seq(Tombstone) /\ Len(all) = n /\ tombs' = Newest(all)
    BY <1>1, <1>2
  <2>2. \E k \in Nat :
           /\ k <= Len(all) /\ (k = Len(all) => k = 0) /\ (Len(all) <= TombCap => k = 0)
           /\ Newest(all) \in Seq(Tombstone) /\ Len(Newest(all)) = Len(all) - k
           /\ \A i \in 1..(Len(all) - k) : Newest(all)[i] = all[i + k]
    BY <2>1, NewestIs, Zenon
  <2> QED
    BY <2>1, <2>2
<1>8. DOMAIN tombs' = 1..(n - k) /\ \A i \in 1..(n - k) : i + k \in 1..n
  BY <1>1, <1>7
<1>9. \A i \in 1..n : all[i].id \in Nat
  BY <1>1, TombstonesAre
<1>10. Ascending'
  <2>1. ASSUME NEW i \in 1..(n - k), NEW j \in 1..(n - k), i < j
        PROVE  tombs'[i].id < tombs'[j].id
    <3>1. i + k \in 1..n /\ j + k \in 1..n /\ i + k < j + k
      BY <1>8, <2>1, <1>1
    <3> QED
      BY <3>1, <1>1, <1>7
  <2> QED
    BY <2>1, <1>8 DEF Ascending
<1>11. ASSUME NEW i \in 1..n
       PROVE  \/ <<all[i].ext, all[i].body>> \in capped'
              \/ \E j \in DOMAIN tombs' :
                   /\ tombs'[j].id >= all[i].id /\ tombs'[j].ext = all[i].ext
                   /\ tombs'[j].body = all[i].body
  <2>1. CASE i > k
    <3>1. i - k \in 1..(n - k) /\ (i - k) + k = i
      BY <2>1, <1>1
    <3>2. tombs'[i - k] = all[i]
      BY <3>1, <1>7
    <3>3. all[i].id >= all[i].id
      BY <1>9
    <3> QED
      BY <3>1, <3>2, <3>3, <1>8
  <2>2. CASE ~(i > k)
    <3>1. ~(n <= TombCap) /\ i <= k
      BY <2>2, <1>1, <1>7
    <3>2. \/ <<all[i].ext, all[i].body>> \in capped'
          \/ <<all[i].ext, all[i].body>> \in Bodies0(tombs')
      BY <3>1, <1>3, <1>4
    <3>3. ASSUME <<all[i].ext, all[i].body>> \in Bodies0(tombs')
          PROVE  \E j \in DOMAIN tombs' :
                   /\ tombs'[j].id >= all[i].id /\ tombs'[j].ext = all[i].ext
                   /\ tombs'[j].body = all[i].body
      <4>1. PICK j \in DOMAIN tombs' : tombs'[j].ext = all[i].ext /\ tombs'[j].body = all[i].body
        BY <3>3 DEF Bodies0
      <4>2. j + k \in 1..n /\ tombs'[j] = all[j + k] /\ j >= 1 /\ j \in Nat
        BY <1>7, <1>8
      <4>3. i < j + k
        BY <3>1, <4>2, <1>1
      <4>4. all[i].id < all[j + k].id /\ all[i].id \in Nat /\ all[j + k].id \in Nat
        BY <4>2, <4>3, <1>1, <1>9
      <4>5. tombs'[j].id >= all[i].id
        BY <4>2, <4>4
      <4> QED
        BY <4>1, <4>5
    <3> QED
      BY <3>2, <3>3
  <2> QED
    BY <2>1, <2>2
<1>12. ASSUME NEW i \in DOMAIN tombs
       PROVE  \/ <<tombs[i].ext, tombs[i].body>> \in capped'
              \/ \E j \in DOMAIN tombs' :
                   /\ tombs'[j].id >= tombs[i].id /\ tombs'[j].ext = tombs[i].ext
                   /\ tombs'[j].body = tombs[i].body
  <2>1. i \in 1..n /\ all[i] = tombs[i]
    BY <1>1
  <2> QED
    BY <2>1, <1>11
<1>13. ASSUME NEW e \in es
       PROVE  \/ <<e, docs[e].body>> \in capped'
              \/ \E j \in DOMAIN tombs' :
                   /\ tombs'[j].id >= NextTomb(tombs) /\ tombs'[j].ext = e
                   /\ tombs'[j].body = docs[e].body
  <2>1. PICK i \in 1..n : /\ all[i].id >= NextTomb(tombs) /\ all[i].ext = e
                          /\ all[i].body = docs[e].body
    BY <1>1
  <2>2. \A j \in DOMAIN tombs' : tombs'[j].id \in Nat
    BY <1>7, <1>8, <1>9
  <2>3. \A j \in DOMAIN tombs' : tombs'[j].id >= all[i].id => tombs'[j].id >= NextTomb(tombs)
    BY <2>1, <2>2, <1>6, <1>9
  <2> QED
    BY <2>1, <2>3, <1>11
<1>14. ASSUME NEW j \in DOMAIN tombs'
       PROVE  \/ \E i \in DOMAIN tombs : tombs'[j] = tombs[i]
              \/ tombs'[j].id >= NextTomb(tombs)
  <2>1. j + k \in 1..n /\ tombs'[j] = all[j + k]
    BY <1>7, <1>8
  <2> QED
    BY <2>1, <1>1
<1>15. ASSUME NEW i \in DOMAIN tombs
       PROVE  \E j \in DOMAIN tombs' : tombs'[j].id >= tombs[i].id
  <2>1. i \in 1..n /\ all[i] = tombs[i]
    BY <1>1
  <2>2. n - k \in 1..(n - k) /\ (n - k) + k = n /\ n \in 1..n
    BY <2>1, <1>1, <1>7
  <2>3. tombs'[n - k] = all[n]
    BY <2>2, <1>7
  <2>4. i = n \/ i < n
    BY <2>1, <1>1
  <2>5. all[n].id >= all[i].id
    BY <2>1, <2>2, <2>4, <1>1, <1>9
  <2> QED
    BY <2>1, <2>2, <2>3, <2>5, <1>8
<1> QED
  BY <1>5, <1>7, <1>10, <1>12, <1>13, <1>14, <1>15


-----------------------------------------------------------------------------
(***************************************************************************)
(* Steps that leave the tombstones alone.                                  *)
(***************************************************************************)

\* Whatever they do to the docs, every doc is left with its body, or with one
\* just written to it; restores go on, or end.
BodiesStep ==
  \A e \in Exts : \/ docs'[e].body = docs[e].body /\ latest'[e] = latest[e]
                  \/ docs'[e].body = latest'[e] /\ docs'[e].body # NoBody

RestoresStep ==
  \A t \in Threads : Restoring(t)' =>
    /\ Restoring(t) /\ thread'[t].tomb = thread[t].tomb
    /\ thread'[t].pc = "clear" => thread[t].pc = "clear" \/ Stored(thread[t].tomb.ext)'

KeptInv == Ascending /\ StoredIsLatest /\ GoneIsKept /\ OneRestores /\ RestoresHold

LEMMA DocsStep ==
  ASSUME Types, KeptInv, BodiesStep, RestoresStep, UNCHANGED <<tombs, capped, doubled>>
  PROVE  KeptInv'
<1>1. Ascending'
  BY DEF KeptInv, Ascending
<1>2. StoredIsLatest'
  BY DEF KeptInv, BodiesStep, StoredIsLatest, Live, Stored
<1>3. GoneIsKept'
  BY DEF KeptInv, BodiesStep, GoneIsKept, Live, Stored, Kept0, Bodies0
<1>4. OneRestores'
  BY DEF KeptInv, RestoresStep, OneRestores
<1>5. ASSUME NEW k \in Tombstone
      PROVE  /\ Reserved(k) => Reserved(k)'
             /\ Relieved(k) \/ Stored(k.ext)' => Relieved(k)'
  <2>1. k.ext \in Exts
    BY DEF Tombstone
  <2>2. Reserved(k) => Reserved(k)'
    BY DEF Reserved
  <2>3. Stored(k.ext) => Stored(k.ext)'
    BY <2>1 DEF BodiesStep, Stored
  <2>4. latest'[k.ext] = latest[k.ext] \/ Stored(k.ext)'
    BY <2>1 DEF BodiesStep, Stored
  <2>5. Relieved(k) => Relieved(k)'
    BY <2>3, <2>4 DEF Relieved
  <2>6. Stored(k.ext)' => Relieved(k)'
    BY DEF Relieved
  <2> QED
    BY <2>2, <2>5, <2>6
<1>6. RestoresHold'
  <2> SUFFICES ASSUME ~doubled', NEW t \in Threads, Restoring(t)' PROVE Holding(t)'
    BY DEF RestoresHold
  <2>1. ~doubled /\ Restoring(t) /\ thread'[t].tomb = thread[t].tomb
    BY DEF RestoresStep
  <2>2. /\ thread[t].tomb \in Tombstone /\ Reserved(thread[t].tomb)
        /\ thread[t].pc = "clear" => Relieved(thread[t].tomb)
    BY <2>1 DEF Types, KeptInv, RestoresHold, Holding
  <2>3. PICK k \in Tombstone : k = thread[t].tomb
    BY <2>2
  <2>4. Reserved(k)' /\ (thread'[t].pc = "clear" => Relieved(k)')
    BY <2>2, <2>3, <1>5 DEF RestoresStep
  <2>5. k = thread'[t].tomb
    BY <2>1, <2>3
  <2> QED
    BY <2>3, <2>4, <2>5 DEF Holding, Reserved, Relieved, Stored
<1> QED
  BY <1>1, <1>2, <1>3, <1>4, <1>6 DEF KeptInv


-----------------------------------------------------------------------------
(***************************************************************************)
(* Steps that bury docs.                                                   *)
(***************************************************************************)
LEMMA BuryStep ==
  ASSUME Types, IdsDistinct, KeptInv, NEW es, es \subseteq Live, Buried(es),
         \A e \in Exts : docs'[e].body = IF e \in es THEN NoBody ELSE docs[e].body,
         \A t \in Threads : Restoring(t)' => Restoring(t) /\ thread'[t] = thread[t],
         UNCHANGED <<latest, doubled>>
  PROVE  KeptInv'
<1> DEFINE next == NextTomb(tombs)
<1>1. /\ tombs' \in Seq(Tombstone) /\ Ascending' /\ capped \subseteq capped'
      /\ \A i \in DOMAIN tombs :
           \/ <<tombs[i].ext, tombs[i].body>> \in capped'
           \/ \E j \in DOMAIN tombs' :
                /\ tombs'[j].id >= tombs[i].id /\ tombs'[j].ext = tombs[i].ext
                /\ tombs'[j].body = tombs[i].body
      /\ \A e \in es :
           \/ <<e, docs[e].body>> \in capped'
           \/ \E j \in DOMAIN tombs' :
                /\ tombs'[j].id >= next /\ tombs'[j].ext = e
                /\ tombs'[j].body = docs[e].body
      /\ \A j \in DOMAIN tombs' :
           \/ \E i \in DOMAIN tombs : tombs'[j] = tombs[i]
           \/ tombs'[j].id >= next
      /\ \A i \in DOMAIN tombs : \E j \in DOMAIN tombs' : tombs'[j].id >= tombs[i].id
  BY LaterKept DEF KeptInv
<1>2. next \in Nat /\ \A i \in DOMAIN tombs : tombs[i].id < next
  BY NextTombIs DEF KeptInv
<1>3. /\ \A i \in DOMAIN tombs : tombs[i].id \in Nat
      /\ \A j \in DOMAIN tombs' : tombs'[j].id \in Nat
  <2>1. tombs \in Seq(Tombstone)
    BY DEF Types
  <2>2. \A i \in DOMAIN tombs : tombs[i].id \in Nat
    BY <2>1, TombstonesAre
  <2>3. \A j \in DOMAIN tombs' : tombs'[j].id \in Nat
    BY <1>1, TombstonesAre
  <2> QED
    BY <2>2, <2>3
<1>4. /\ \A e \in Exts : Stored(e)' <=> Stored(e) /\ e \notin es
      /\ \A e \in es : latest[e] = docs[e].body /\ Stored(e) /\ e \in Exts
  BY DEF Stored, Live, KeptInv, StoredIsLatest
<1> HIDE DEF next
<1>5. StoredIsLatest'
  BY <1>4 DEF StoredIsLatest, Live, Stored, KeptInv
<1>6. ASSUME ~doubled', NEW e \in Exts \ Live'
      PROVE  latest'[e] = NoBody \/ Kept0(e)'
  <2>1. CASE e \in es
    <3>1. \/ <<e, latest'[e]>> \in capped'
          \/ \E j \in DOMAIN tombs' : tombs'[j].ext = e /\ tombs'[j].body = latest'[e]
      BY <2>1, <1>1, <1>4
    <3> QED
      BY <3>1 DEF Kept0, Bodies0
  <2>2. CASE e \notin es
    <3>1. e \in Exts \ Live
      BY <2>2, <1>4 DEF Live
    <3>2. \/ latest[e] = NoBody
          \/ <<e, latest[e]>> \in capped
          \/ \E i \in DOMAIN tombs : tombs[i].ext = e /\ tombs[i].body = latest[e]
      BY <3>1, <1>6 DEF KeptInv, GoneIsKept, Kept0, Bodies0
    <3>3. \/ latest'[e] = NoBody
          \/ <<e, latest'[e]>> \in capped'
          \/ \E j \in DOMAIN tombs' : tombs'[j].ext = e /\ tombs'[j].body = latest'[e]
      BY <3>2, <1>1
    <3> QED
      BY <3>3 DEF Kept0, Bodies0
  <2> QED
    BY <2>1, <2>2
<1>7. OneRestores'
  BY DEF KeptInv, OneRestores
<1>8. ASSUME NEW k \in Tombstone, Reserved(k) PROVE Reserved(k)'
  <2>0. k.id \in Nat
    BY DEF Tombstone
  <2>1. PICK i \in DOMAIN tombs : tombs[i].id >= k.id
    BY <1>8 DEF Reserved
  <2>2. k.id < next
    BY <2>0, <2>1, <1>2, <1>3
  <2>3. ASSUME NEW j \in DOMAIN tombs', tombs'[j].id = k.id PROVE tombs'[j] = k
    <3>1. ~(tombs'[j].id >= next)
      BY <2>0, <2>2, <2>3, <1>2
    <3> QED
      BY <3>1, <2>3, <1>1, <1>8 DEF Reserved
  <2>4. \E j \in DOMAIN tombs' : tombs'[j].id >= k.id
    <3>1. PICK j \in DOMAIN tombs' : tombs'[j].id >= tombs[i].id
      BY <1>1
    <3> QED
      BY <3>1, <2>0, <2>1, <1>3
  <2> QED
    BY <2>3, <2>4 DEF Reserved
<1>9. ASSUME NEW k \in Tombstone, Reserved(k), Relieved(k) PROVE Relieved(k)'
  <2>0. k.id \in Nat /\ k.ext \in Exts
    BY DEF Tombstone
  <2>1. CASE Stored(k.ext) /\ k.ext \notin es
    BY <2>0, <2>1, <1>4 DEF Relieved
  <2>2. CASE k.ext \in es
    <3>1. PICK i \in DOMAIN tombs : tombs[i].id >= k.id
      BY <1>9 DEF Reserved
    <3>2. k.id < next
      BY <2>0, <3>1, <1>2, <1>3
    <3>3. \/ <<k.ext, latest'[k.ext]>> \in capped'
          \/ \E j \in DOMAIN tombs' : /\ tombs'[j].id >= next /\ tombs'[j].ext = k.ext
                                      /\ tombs'[j].body = latest'[k.ext]
      BY <2>2, <1>1, <1>4
    <3>4. \A j \in DOMAIN tombs' : tombs'[j].id >= next => tombs'[j].id > k.id
      BY <3>2, <2>0, <1>2, <1>3
    <3> QED
      BY <3>3, <3>4 DEF Relieved
  <2>3. CASE <<k.ext, latest[k.ext]>> \in capped
    BY <2>3, <1>1 DEF Relieved
  <2>4. ASSUME NEW i \in DOMAIN tombs, tombs[i].id > k.id, tombs[i].ext = k.ext,
               tombs[i].body = latest[k.ext]
        PROVE  Relieved(k)'
    <3>1. \/ <<k.ext, latest'[k.ext]>> \in capped'
          \/ \E j \in DOMAIN tombs' : /\ tombs'[j].id >= tombs[i].id /\ tombs'[j].ext = k.ext
                                      /\ tombs'[j].body = latest'[k.ext]
      BY <2>4, <1>1
    <3>2. \A j \in DOMAIN tombs' : tombs'[j].id >= tombs[i].id => tombs'[j].id > k.id
      BY <2>0, <2>4, <1>3
    <3> QED
      BY <3>1, <3>2 DEF Relieved
  <2> QED
    BY <2>1, <2>2, <2>3, <2>4, <1>9 DEF Relieved
<1>10. RestoresHold'
  <2> SUFFICES ASSUME ~doubled', NEW t \in Threads, Restoring(t)' PROVE Holding(t)'
    BY DEF RestoresHold
  <2>1. ~doubled /\ Restoring(t) /\ thread'[t] = thread[t]
    OBVIOUS
  <2>2. Holding(t)
    BY <2>1 DEF KeptInv, RestoresHold
  <2>3. PICK k \in Tombstone : k = thread[t].tomb
    BY <2>1 DEF Types
  <2>4. Reserved(k)' /\ (thread[t].pc = "clear" => Relieved(k)')
    BY <2>2, <2>3, <1>8, <1>9 DEF Holding
  <2>5. k = thread'[t].tomb /\ thread'[t].pc = thread[t].pc
    BY <2>1, <2>3
  <2> QED
    BY <2>3, <2>4, <2>5 DEF Holding, Reserved, Relieved, Stored
<1>11. GoneIsKept'
  BY <1>6 DEF GoneIsKept
<1> QED
  BY <1>1, <1>5, <1>7, <1>10, <1>11 DEF KeptInv


-----------------------------------------------------------------------------
(***************************************************************************)
(* A restore that begins, and one that ends.                               *)
(***************************************************************************)
LEMMA RemoveAtIs ==
  ASSUME NEW S, NEW s \in Seq(S), NEW k \in 1..Len(s)
  PROVE  /\ RemoveAt(s, k) \in Seq(S) /\ Len(RemoveAt(s, k)) = Len(s) - 1 /\ Len(s) \in Nat
         /\ \A i \in 1..Len(RemoveAt(s, k)) :
              RemoveAt(s, k)[i] = IF i < k THEN s[i] ELSE s[i + 1]
<1> DEFINE a == SubSeq(s, 1, k - 1)
           b == SubSeq(s, k + 1, Len(s))
<1>1. a \in Seq(S) /\ Len(a) = k - 1 /\ \A i \in 1..(k - 1) : a[i] = s[i]
  OBVIOUS
<1>2. b \in Seq(S) /\ Len(b) = Len(s) - k /\ \A i \in 1..(Len(s) - k) : b[i] = s[k + i]
  OBVIOUS
<1>3. RemoveAt(s, k) = a \o b
  BY DEF RemoveAt
<1>4. Len(s) \in Nat
  OBVIOUS
<1> HIDE DEF a, b
<1>5. /\ a \o b \in Seq(S) /\ Len(a \o b) = Len(s) - 1
      /\ \A i \in 1..(Len(s) - 1) : (a \o b)[i] = IF i < k THEN a[i] ELSE b[i - (k - 1)]
  <2>1. /\ a \o b \in Seq(S) /\ Len(a \o b) = Len(a) + Len(b)
        /\ \A i \in 1..(Len(a) + Len(b)) :
             (a \o b)[i] = IF i <= Len(a) THEN a[i] ELSE b[i - Len(a)]
    BY <1>1, <1>2, ConcatProperties
  <2>2. Len(a) + Len(b) = Len(s) - 1 /\ \A i \in Nat : i <= Len(a) <=> i < k
    BY <1>1, <1>2, <1>4
  <2> QED BY <1>1, <1>4, <2>1, <2>2
<1>6. ASSUME NEW i \in 1..(Len(s) - 1)
      PROVE  (IF i < k THEN a[i] ELSE b[i - (k - 1)]) = (IF i < k THEN s[i] ELSE s[i + 1])
  <2>1. CASE i < k
    BY <1>1, <1>4, <2>1
  <2>2. CASE ~(i < k)
    <3>1. i - (k - 1) \in 1..(Len(s) - k) /\ k + (i - (k - 1)) = i + 1
      BY <1>4, <2>2
    <3> QED BY <1>2, <2>2, <3>1
  <2> QED BY <2>1, <2>2
<1> QED BY <1>3, <1>4, <1>5, <1>6

LEMMA WithoutTombIs ==
  ASSUME Types, NEW k, HasTomb(k)
  PROVE  \E i \in DOMAIN tombs :
           /\ tombs[i].id = k
           /\ WithoutTomb(k) \in Seq(Tombstone)
           /\ \A j \in DOMAIN WithoutTomb(k) :
                WithoutTomb(k)[j] = tombs[IF j < i THEN j ELSE j + 1]
                /\ (IF j < i THEN j ELSE j + 1) \in DOMAIN tombs
           /\ \A j \in DOMAIN tombs : j # i =>
                \E m \in DOMAIN WithoutTomb(k) : WithoutTomb(k)[m] = tombs[j]
<1> DEFINE i == CHOOSE i \in DOMAIN tombs : tombs[i].id = k
           new == RemoveAt(tombs, i)
           n == Len(tombs)
<1>1. i \in DOMAIN tombs /\ tombs[i].id = k
  BY DEF HasTomb
<1>2. WithoutTomb(k) = new
  BY DEF WithoutTomb
<1> HIDE DEF i
<1>3. tombs \in Seq(Tombstone) /\ n \in Nat /\ DOMAIN tombs = 1..n
  BY DEF Types
<1>4. /\ new \in Seq(Tombstone) /\ Len(new) = n - 1
      /\ \A j \in 1..Len(new) : new[j] = IF j < i THEN tombs[j] ELSE tombs[j + 1]
  <2>1. tombs \in Seq(Tombstone) /\ i \in 1..Len(tombs)
    BY <1>1, <1>3
  <2> QED
    BY <2>1, RemoveAtIs, Zenon
<1>5. DOMAIN new = 1..(n - 1)
  BY <1>4
<1> HIDE DEF new, n
<1>6. ASSUME NEW j \in 1..(n - 1)
      PROVE  /\ new[j] = tombs[IF j < i THEN j ELSE j + 1]
             /\ (IF j < i THEN j ELSE j + 1) \in 1..n
  BY <1>1, <1>3, <1>4
<1>7. ASSUME NEW j \in 1..n, j # i
      PROVE  \E m \in 1..(n - 1) : new[m] = tombs[j]
  <2>0. i \in 1..n
    BY <1>1, <1>3
  <2>1. CASE j < i
    <3>1. j \in 1..(n - 1)
      BY <2>0, <2>1, <1>3
    <3>2. new[j] = tombs[j]
      BY <3>1, <2>1, <1>4
    <3> QED
      BY <3>1, <3>2
  <2>2. CASE ~(j < i)
    <3>1. j - 1 \in 1..(n - 1) /\ ~(j - 1 < i) /\ (j - 1) + 1 = j
      BY <2>0, <2>2, <1>3, <1>7
    <3>2. new[j - 1] = tombs[j]
      BY <3>1, <1>4
    <3> QED
      BY <3>1, <3>2
  <2> QED
    BY <2>1, <2>2
<1>8. \A j \in DOMAIN new :
        new[j] = tombs[IF j < i THEN j ELSE j + 1] /\ (IF j < i THEN j ELSE j + 1) \in DOMAIN tombs
  <2> TAKE j \in DOMAIN new
  <2>1. j \in 1..(n - 1)
    BY <1>5
  <2> QED
    BY <2>1, <1>3, <1>6, Zenon
<1>9. \A j \in DOMAIN tombs : j # i => \E m \in DOMAIN new : new[m] = tombs[j]
  BY <1>3, <1>5, <1>7
<1> QED
  BY <1>1, <1>2, <1>4, <1>8, <1>9, Zenon

LEMMA RestoreReadStep ==
  ASSUME Types, KeptInv, NEW t \in Threads, RestoreRead(t)
  PROVE  KeptInv'
<1>1. PICK i \in DOMAIN tombs :
        thread' = [thread EXCEPT ![t] = [Idle EXCEPT !.pc = "restore", !.tomb = tombs[i]]]
  BY DEF RestoreRead
<1>2. /\ doubled' = (doubled \/ \E u \in Threads \ {t} : Restoring(u))
      /\ UNCHANGED <<docs, tombs, latest, capped>>
  BY DEF RestoreRead
<1>3. /\ thread'[t].pc = "restore" /\ thread'[t].tomb = tombs[i]
      /\ \A u \in Threads \ {t} : thread'[u] = thread[u]
  BY <1>1 DEF Types, Idle
<1>4. ~doubled' => ~doubled /\ \A u \in Threads \ {t} : ~Restoring(u)'
  BY <1>2, <1>3 DEF Restoring
<1>5. Ascending' /\ StoredIsLatest' /\ GoneIsKept'
  BY <1>2, <1>4 DEF KeptInv, Ascending, StoredIsLatest, GoneIsKept, Live, Stored, Kept0, Bodies0
<1>6. OneRestores'
  BY <1>4 DEF OneRestores
<1>7. Holding(t)'
  <2>1. tombs \in Seq(Tombstone) /\ tombs' = tombs
    BY <1>2 DEF Types
  <2>2. /\ tombs[i] \in Tombstone /\ DOMAIN tombs = 1..Len(tombs) /\ Len(tombs) \in Nat
        /\ \A j \in DOMAIN tombs : tombs[j].id \in Nat
    BY <2>1, TombstonesAre
  <2>3. ASSUME NEW j \in DOMAIN tombs, tombs[j].id = tombs[i].id PROVE j = i
    <3>1. i < j \/ j < i \/ i = j
      BY <2>2
    <3>2. (i < j => tombs[i].id < tombs[j].id) /\ (j < i => tombs[j].id < tombs[i].id)
      BY DEF KeptInv, Ascending
    <3>3. ~(tombs[i].id < tombs[j].id) /\ ~(tombs[j].id < tombs[i].id)
      BY <2>2, <2>3
    <3> QED
      BY <3>1, <3>2, <3>3
  <2>4. PICK k \in Tombstone : k = tombs[i]
    BY <2>2
  <2>5. Reserved(k)'
    <3>1. tombs[i].id >= tombs[i].id
      BY <2>2
    <3> QED
      BY <2>1, <2>3, <2>4, <3>1 DEF Reserved
  <2>6. k = thread'[t].tomb /\ thread'[t].pc # "clear"
    BY <1>3, <2>4
  <2> QED
    BY <2>5, <2>6 DEF Holding, Reserved
<1>8. RestoresHold'
  BY <1>4, <1>7 DEF RestoresHold
<1> QED
  BY <1>5, <1>6, <1>8 DEF KeptInv

LEMMA RestoreClearStep ==
  ASSUME Types, KeptInv, NEW t \in Threads, RestoreClear(t)
  PROVE  KeptInv' /\ tombs' \in Seq(Tombstone)
<1> DEFINE k == thread[t].tomb
<1>1. /\ tombs' = WithoutTomb(k.id) /\ thread[t].pc = "clear"
      /\ thread' = [thread EXCEPT ![t] = Idle]
      /\ UNCHANGED <<docs, latest, capped, doubled>>
  BY DEF RestoreClear
<1>2. thread'[t] = Idle /\ \A u \in Threads \ {t} : thread'[u] = thread[u]
  BY <1>1 DEF Types
<1>3. ~Restoring(t)' /\ Restoring(t)
  BY <1>1, <1>2 DEF Restoring, Idle
<1>4. ~doubled => \A u \in Threads : ~Restoring(u)'
  BY <1>2, <1>3 DEF KeptInv, OneRestores, Restoring
<1>5. StoredIsLatest' /\ OneRestores' /\ RestoresHold'
  BY <1>1, <1>4 DEF KeptInv, StoredIsLatest, Live, Stored, OneRestores, RestoresHold
<1>6. CASE ~HasTomb(k.id)
  <2>1. tombs' = tombs
    BY <1>1, <1>6 DEF WithoutTomb
  <2>2. Ascending' /\ GoneIsKept'
    BY <1>1, <2>1 DEF KeptInv, Ascending, GoneIsKept, Live, Stored, Kept0, Bodies0
  <2> QED
    BY <1>5, <2>1, <2>2 DEF KeptInv, Types
<1>7. CASE HasTomb(k.id)
  <2> HIDE DEF k
  <2>1. PICK i \in DOMAIN tombs :
          /\ tombs[i].id = k.id
          /\ tombs' \in Seq(Tombstone)
          /\ \A j \in DOMAIN tombs' :
               tombs'[j] = tombs[IF j < i THEN j ELSE j + 1]
               /\ (IF j < i THEN j ELSE j + 1) \in DOMAIN tombs
          /\ \A j \in DOMAIN tombs : j # i =>
               \E m \in DOMAIN tombs' : tombs'[m] = tombs[j]
    BY <1>1, <1>7, WithoutTombIs
  <2>2. DOMAIN tombs = 1..Len(tombs) /\ DOMAIN tombs' = 1..Len(tombs') /\ Len(tombs') \in Nat
    BY <2>1 DEF Types
  <2>3. Ascending'
    <3> SUFFICES ASSUME NEW a \in DOMAIN tombs', NEW b \in DOMAIN tombs', a < b
                 PROVE  tombs'[a].id < tombs'[b].id
      BY DEF Ascending
    <3> DEFINE at(j) == IF j < i THEN j ELSE j + 1
    <3>1. a \in Int /\ b \in Int /\ i \in Int
      BY <2>2
    <3>2. at(a) < at(b)
      BY <3>1
    <3>3. /\ at(a) \in DOMAIN tombs /\ at(b) \in DOMAIN tombs
          /\ tombs'[a] = tombs[at(a)] /\ tombs'[b] = tombs[at(b)]
      BY <2>1
    <3> HIDE DEF at
    <3> QED
      BY <3>2, <3>3 DEF KeptInv, Ascending
  <2>4. ASSUME ~doubled', NEW e \in Exts \ Live'
        PROVE  latest'[e] = NoBody \/ Kept0(e)'
    <3>1. ~doubled /\ e \in Exts \ Live
      BY <1>1, <2>4 DEF Live, Stored
    <3>2. Holding(t)
      BY <1>3, <3>1 DEF KeptInv, RestoresHold
    <3>3. k \in Tombstone /\ Reserved(k) /\ Relieved(k)
      BY <1>1, <1>3, <3>2 DEF Types, Holding, k
    <3>4. CASE latest[e] = NoBody \/ <<e, latest[e]>> \in capped
      BY <1>1, <3>4 DEF Kept0
    <3>5. ASSUME NEW j \in DOMAIN tombs, tombs[j].ext = e, tombs[j].body = latest[e], j # i
          PROVE  Kept0(e)'
      <4>1. \E m \in DOMAIN tombs' : tombs'[m].ext = e /\ tombs'[m].body = latest'[e]
        BY <1>1, <2>1, <3>5
      <4> QED
        BY <4>1 DEF Kept0, Bodies0
    <3>6. ASSUME tombs[i].ext = e, tombs[i].body = latest[e]
          PROVE  Kept0(e)'
      <4>1. tombs[i] = k
        BY <2>1, <3>3 DEF Reserved
      <4>2. k.ext = e /\ ~Stored(e)
        BY <3>1, <3>6, <4>1 DEF Live
      <4>3. CASE <<e, latest[e]>> \in capped
        BY <1>1, <4>3 DEF Kept0
      <4>4. CASE \E j \in DOMAIN tombs : tombs[j].id > k.id /\ tombs[j].ext = e
                                         /\ tombs[j].body = latest[e]
        <5>1. PICK j \in DOMAIN tombs : tombs[j].id > k.id /\ tombs[j].ext = e
                                        /\ tombs[j].body = latest[e]
          BY <4>4
        <5>2. k.id \in Nat
          BY <3>3 DEF Tombstone
        <5>3. j # i
          BY <2>1, <5>1, <5>2
        <5> QED
          BY <5>1, <5>3, <3>5
      <4> QED
        BY <3>3, <4>2, <4>3, <4>4 DEF Relieved
    <3>7. \/ latest[e] = NoBody \/ <<e, latest[e]>> \in capped
          \/ \E j \in DOMAIN tombs : tombs[j].ext = e /\ tombs[j].body = latest[e]
      BY <3>1 DEF KeptInv, GoneIsKept, Kept0, Bodies0
    <3> QED
      BY <3>4, <3>5, <3>6, <3>7
  <2>5. GoneIsKept'
    BY <2>4 DEF GoneIsKept
  <2> QED
    BY <1>5, <2>1, <2>3, <2>5 DEF KeptInv
<1> QED
  BY <1>6, <1>7


-----------------------------------------------------------------------------
(***************************************************************************)
(* What is written to the docs.                                            *)
(***************************************************************************)
LEMMA NextIdIs ==
  ASSUME Types, NEW x \in Exts
  PROVE  NextId \in Nat \ {0} /\ \A e \in Exts : docs[e].id < NextId
<1> DEFINE f == [e \in Exts |-> docs[e].id]
           S == {f[e] : e \in Exts}
           T == {docs[e].id : e \in Exts}
<1>1. f \in [Exts -> Nat]
  BY DEF Types, Row
<1>2. S = T
  OBVIOUS
<1>3. \A e \in Exts : f[e] = docs[e].id
  OBVIOUS
<1> HIDE DEF f
<1>4. Max(S) \in Nat /\ \A e \in Exts : f[e] <= Max(S)
  BY <1>1, LifecycleAssumption, MaxOfImage
<1>5. NextId = Max(S) + 1
  BY <1>2 DEF NextId
<1> HIDE DEF S
<1>6. \A e \in Exts : docs[e].id \in Nat
  BY DEF Types, Row
<1> QED
  BY <1>3, <1>4, <1>5, <1>6

LEMMA SnapshotIs ==
  ASSUME NEW row \in Row, row.body # NoBody
  PROVE  Snapshot(row) \in Seq(Bodies)
<1> DEFINE vs == Append(row.versions, row.body)
           n == Len(vs)
           m == IF 1 >= n - VersionCap + 1 THEN 1 ELSE n - VersionCap + 1
<1>1. row.versions \in Seq(Bodies) /\ row.body \in Bodies
  BY DEF Row
<1>2. vs \in Seq(Bodies)
  BY <1>1
<1> HIDE DEF vs
<1>3. n \in Nat /\ VersionCap \in Nat \ {0} /\ \A i \in 1..n : vs[i] \in Bodies
  BY <1>2, LifecycleAssumption
<1>4. Max({1, n - VersionCap + 1}) = m
  BY <1>3, MaxOfTwo
<1>5. Snapshot(row) = SubSeq(vs, m, n)
  BY <1>4 DEF Snapshot, vs
<1>6. m \in Int /\ m >= 1
  BY <1>3
<1> HIDE DEF m
<1>7. \A i \in m..n : vs[i] \in Bodies
  BY <1>3, <1>6
<1>8. SubSeq(vs, m, n) \in Seq(Bodies)
  BY <1>3, <1>6, <1>7, SubSeqProperties
<1> QED
  BY <1>5, <1>8

LEMMA KeptIs ==
  ASSUME NEW row \in Row, row.body # NoBody, NEW b
  PROVE  Kept(row, b) \in Seq(Bodies)
<1>1. row.versions \in Seq(Bodies)
  BY DEF Row
<1> QED
  BY <1>1, SnapshotIs DEF Kept

\* A doc keeps its body and its id, and is not queued for deletion.
Untouched(e) ==
  /\ docs'[e].body = docs[e].body /\ docs'[e].id = docs[e].id
  /\ docs'[e].lifecycle = "pending_delete" =>
       docs[e].lifecycle = "pending_delete" /\ docs'[e].since = docs[e].since

LEMMA InsertedIs ==
  ASSUME Types, NEW e \in Exts, NEW b \in Bodies, NEW kind \in Kinds,
         NEW tags \in SUBSET Owners
  PROVE  Inserted(b, kind, tags) \in Row
<1>1. NextId \in Nat /\ now \in Nat
  BY NextIdIs DEF Types
<1>2. NoRow \in [id : Nat, body : Bodies \cup {NoBody}, kind : Kinds, tags : SUBSET Owners,
        status : Statuses, lifecycle : Lifecycles, since : Nat, mtime : Nat,
        pinned : BOOLEAN, versions : Seq(Bodies)]
  BY DEF NoRow, Kinds, Statuses, Lifecycles
<1> DEFINE row == NoRow
<1>3. row \in Row /\ Inserted(b, kind, tags) =
        [row EXCEPT !.id = NextId, !.body = b, !.kind = kind, !.tags = tags, !.mtime = now]
  BY <1>2 DEF Row, Inserted
<1> HIDE DEF row
<1> QED
  BY <1>1, <1>3 DEF Row

LEMMA PutIs ==
  ASSUME Types, NEW e \in Exts, NEW b \in Bodies, NEW kind \in Kinds,
         NEW tags \in SUBSET Owners, Put(e, b, kind, tags)
  PROVE  /\ docs' \in [Exts -> Row]
         /\ docs'[e].body = b /\ docs'[e].lifecycle = "active"
         /\ docs'[e].id = IF Stored(e) THEN docs[e].id ELSE NextId
         /\ \A f \in Exts \ {e} : Untouched(f)
<1> DEFINE row == IF Stored(e) THEN Rewritten(e, b, kind, tags) ELSE Inserted(b, kind, tags)
<1>1. docs[e] \in Row /\ now \in Nat /\ NextId \in Nat
  BY NextIdIs DEF Types
<1>2. /\ row \in Row /\ row.body = b /\ row.lifecycle = "active"
      /\ row.id = IF Stored(e) THEN docs[e].id ELSE NextId
  <2>1. CASE Stored(e)
    <3>1. Kept(docs[e], b) \in Seq(Bodies)
      BY <1>1, <2>1, KeptIs DEF Stored
    <3>2. row = Rewritten(e, b, kind, tags)
      BY <2>1
    <3> QED
      BY <1>1, <2>1, <3>1, <3>2 DEF Rewritten, Row, Lifecycles
  <2>2. CASE ~Stored(e)
    <3>1. row = Inserted(b, kind, tags) /\ Inserted(b, kind, tags) \in Row
      BY <1>1, <2>2, InsertedIs
    <3> QED
      BY <2>2, <3>1 DEF Inserted, NoRow
  <2> QED
    BY <2>1, <2>2
<1> HIDE DEF row
<1>3. docs'[e] = row
  <2>1. e \notin Prior(e, kind)
    BY DEF Prior
  <2> QED
    BY <2>1 DEF Put, row
<1>4. /\ DOMAIN docs' = Exts /\ docs' = [f \in Exts |-> docs'[f]]
      /\ \A f \in Exts \ {e} : docs'[f] = docs[f] \/ docs'[f] = Superseded(docs[f])
  BY DEF Put
<1>5. \A r \in Row : /\ Superseded(r) \in Row /\ Superseded(r).body = r.body
                     /\ Superseded(r).id = r.id /\ Superseded(r).since = r.since
                     /\ Superseded(r).lifecycle = "archived"
  BY DEF Superseded, Row, Statuses, Lifecycles
<1>6. \A f \in Exts : docs[f] \in Row
  BY DEF Types
<1>7. docs' \in [Exts -> Row]
  BY <1>2, <1>3, <1>4, <1>5, <1>6
<1>8. \A f \in Exts \ {e} : Untouched(f)
  BY <1>4, <1>5, <1>6 DEF Untouched
<1> QED
  BY <1>2, <1>3, <1>7, <1>8

LEMMA ImportIs ==
  ASSUME Types, NEW e \in Exts, NEW b \in Bodies, Import(e, b, 0)
  PROVE  /\ docs' \in [Exts -> Row]
         /\ docs'[e].body = b
         /\ docs'[e].id = IF Stored(e) THEN docs[e].id ELSE NextId
         /\ \A f \in Exts \ {e} : Untouched(f)
<1> DEFINE row == IF Stored(e)
                  THEN [docs[e] EXCEPT !.body = b, !.mtime = 0, !.versions = Snapshot(docs[e])]
                  ELSE [Inserted(b, "doc", {}) EXCEPT !.mtime = 0]
<1>1. docs[e] \in Row /\ now \in Nat /\ NextId \in Nat
  BY NextIdIs DEF Types
<1>2. row \in Row /\ row.body = b /\ row.id = IF Stored(e) THEN docs[e].id ELSE NextId
  <2>1. CASE Stored(e)
    <3>1. Snapshot(docs[e]) \in Seq(Bodies)
      BY <1>1, <2>1, SnapshotIs DEF Stored
    <3> QED
      BY <1>1, <2>1, <3>1 DEF Row
  <2>2. CASE ~Stored(e)
    <3>1. Inserted(b, "doc", {}) \in Row
      BY InsertedIs DEF Kinds
    <3>2. row = [Inserted(b, "doc", {}) EXCEPT !.mtime = 0]
      BY <2>2
    <3> DEFINE new == Inserted(b, "doc", {})
    <3>3. new.id = NextId /\ new.body = b /\ new \in Row
      BY <3>1 DEF Inserted, NoRow
    <3> HIDE DEF new
    <3>4. row = [new EXCEPT !.mtime = 0]
      BY <3>2 DEF new
    <3> QED
      BY <2>2, <3>3, <3>4 DEF Row
  <2> QED
    BY <2>1, <2>2
<1> HIDE DEF row
<1>3. docs' = [docs EXCEPT ![e] = row]
  BY DEF Import, row
<1> QED
  BY <1>2, <1>3 DEF Types, Untouched

\* Ids stay apart where at most one doc is new, and that one has the next id.
LEMMA IdsStep ==
  ASSUME Types, IdsDistinct, NEW x,
         \A e \in Exts : Stored(e)' => \/ Stored(e) /\ docs'[e].id = docs[e].id
                                       \/ e = x /\ docs'[e].id = NextId
  PROVE  IdsDistinct'
<1> SUFFICES ASSUME NEW e \in Live', NEW f \in Live', docs'[e].id = docs'[f].id
             PROVE  e = f
  BY DEF IdsDistinct
<1>1. e \in Exts /\ f \in Exts /\ Stored(e)' /\ Stored(f)'
  BY DEF Live
<1>2. /\ NextId \in Nat /\ docs[e].id < NextId /\ docs[f].id < NextId
      /\ docs[e].id \in Nat /\ docs[f].id \in Nat
  BY <1>1, NextIdIs DEF Types, Row
<1>3. CASE Stored(e) /\ docs'[e].id = docs[e].id /\ Stored(f) /\ docs'[f].id = docs[f].id
  BY <1>1, <1>3 DEF IdsDistinct, Live
<1>4. CASE e = x /\ f = x
  BY <1>4
<1>5. ~(docs'[e].id = docs[e].id /\ docs'[f].id = NextId)
  BY <1>2
<1>6. ~(docs'[f].id = docs[f].id /\ docs'[e].id = NextId)
  BY <1>2
<1> QED
  BY <1>1, <1>3, <1>4, <1>5, <1>6


\* A write of `e', whoever makes it.
LEMMA WriteStep ==
  ASSUME LifeInv, NEW e \in Exts, NEW b \in Bodies, Wrote(e, b),
         docs' \in [Exts -> Row], docs'[e].body = b,
         docs'[e].id = IF Stored(e) THEN docs[e].id ELSE NextId,
         \A f \in Exts \ {e} : Untouched(f),
         \/ docs'[e].lifecycle = "active" /\ imported' = imported \ {e}
         \/ imported' = imported \cup {e},
         RestoresStep, thread' \in [Threads -> Jobs],
         UNCHANGED <<now, tombs, capped, doubled>>
  PROVE  LifeInv'
<1>1. Types /\ IdsDistinct /\ KeptInv /\ QueuedAfterWrite
  BY DEF LifeInv, KeptInv
<1>2. latest' = [latest EXCEPT ![e] = b] /\ written' = [written EXCEPT ![e] = now]
  BY DEF Wrote
<1>3. b # NoBody
  BY LifecycleAssumption
<1>4. BodiesStep
  BY <1>1, <1>2, <1>3 DEF BodiesStep, Untouched, Types
<1>5. KeptInv'
  BY <1>1, <1>4, DocsStep
<1>6. Types'
  BY <1>1, <1>2 DEF Types, RestoresStep
<1>7. IdsDistinct'
  <2>1. \A f \in Exts : Stored(f)' => \/ Stored(f) /\ docs'[f].id = docs[f].id
                                      \/ f = e /\ docs'[f].id = NextId
    BY DEF Untouched, Stored
  <2> QED
    BY <1>1, <2>1, IdsStep
<1>8. QueuedAfterWrite'
  <2>1. ASSUME NEW f \in Exts PROVE written'[f] <= now'
    BY <1>1, <1>2 DEF Types, QueuedAfterWrite
  <2>2. ASSUME NEW f \in Exts, docs'[f].lifecycle = "pending_delete", f \notin imported'
        PROVE  written'[f] <= docs'[f].since
    <3>1. f # e
      BY <2>2
    <3>2. docs[f].lifecycle = "pending_delete" /\ docs'[f].since = docs[f].since
      BY <2>2, <3>1 DEF Untouched
    <3>3. f \notin imported /\ written'[f] = written[f]
      BY <2>2, <3>1, <1>1, <1>2 DEF Types
    <3> QED
      BY <3>2, <3>3, <1>1 DEF QueuedAfterWrite
  <2> QED
    BY <2>1, <2>2 DEF QueuedAfterWrite
<1> QED
  BY <1>5, <1>6, <1>7, <1>8 DEF LifeInv, KeptInv

LEMMA PutCallStep ==
  ASSUME LifeInv, PutCall
  PROVE  LifeInv'
<1>1. PICK e \in Exts, b \in Bodies, kind \in Kinds, tags \in SUBSET Owners :
        /\ Put(e, b, kind, tags) /\ Wrote(e, b) /\ imported' = imported \ {e}
  <2>1. PICK e \in Exts, b \in Bodies, kind \in Kinds, force \in BOOLEAN :
        \E tags \in IF kind = "record" THEN {{o} : o \in Owners} ELSE {{}} :
          Put(e, b, kind, tags) /\ Wrote(e, b) /\ imported' = imported \ {e}
    BY DEF PutCall
  <2> QED
    BY <2>1
<1>2. UNCHANGED <<now, tombs, thread, capped, doubled>>
  BY DEF PutCall
<1>3. Types
  BY DEF LifeInv
<1>4. RestoresStep /\ thread' \in [Threads -> Jobs]
  BY <1>2, <1>3 DEF RestoresStep, Restoring, Types
<1> QED
  BY <1>1, <1>2, <1>3, <1>4, PutIs, WriteStep

LEMMA ImportCallStep ==
  ASSUME LifeInv, ImportCall
  PROVE  LifeInv'
<1>1. PICK e \in Exts, b \in Bodies :
        Import(e, b, 0) /\ Wrote(e, b) /\ imported' = imported \cup {e}
  BY DEF ImportCall
<1>2. UNCHANGED <<now, tombs, thread, capped, doubled>>
  BY DEF ImportCall
<1>3. Types
  BY DEF LifeInv
<1>4. RestoresStep /\ thread' \in [Threads -> Jobs]
  BY <1>2, <1>3 DEF RestoresStep, Restoring, Types
<1> QED
  BY <1>1, <1>2, <1>3, <1>4, ImportIs, WriteStep

LEMMA RestoreVersionStep ==
  ASSUME LifeInv, RestoreVersion
  PROVE  LifeInv'
<1>1. PICK e \in Live : \E b \in Range(docs[e].versions) :
        /\ Put(e, b, docs[e].kind, docs[e].tags) /\ Wrote(e, b)
        /\ imported' = imported \ {e}
  BY DEF RestoreVersion
<1>2. UNCHANGED <<now, tombs, thread, capped, doubled>>
  BY DEF RestoreVersion
<1>3. Types
  BY DEF LifeInv
<1>4. RestoresStep /\ thread' \in [Threads -> Jobs]
  BY <1>2, <1>3 DEF RestoresStep, Restoring, Types
<1>5. e \in Exts /\ docs[e] \in Row
  BY <1>3 DEF Live, Types
<1>6. /\ docs[e].kind \in Kinds /\ docs[e].tags \in SUBSET Owners
      /\ docs[e].versions \in Seq(Bodies)
  BY <1>5 DEF Row
<1>7. PICK b \in Range(docs[e].versions) :
        /\ Put(e, b, docs[e].kind, docs[e].tags) /\ Wrote(e, b)
        /\ imported' = imported \ {e}
  BY <1>1
<1>8. b \in Bodies
  BY <1>6, <1>7 DEF Range
<1> QED
  BY <1>2, <1>3, <1>4, <1>5, <1>6, <1>7, <1>8, PutIs, WriteStep

LEMMA RestorePutStep ==
  ASSUME LifeInv, NEW t \in Threads, RestorePut(t)
  PROVE  LifeInv'
<1>1. Types /\ IdsDistinct /\ KeptInv /\ QueuedAfterWrite
  BY DEF LifeInv, KeptInv
<1>2. /\ thread[t].pc = "restore" /\ thread[t] \in Jobs /\ thread[t].tomb \in Tombstone
      /\ UNCHANGED <<now, tombs, capped, doubled>>
  BY <1>1 DEF RestorePut, Types, Restoring
<1>d. PICK d \in Tombstone : d = thread[t].tomb
  BY <1>2
<1>3. /\ d.ext \in Exts /\ d.body \in Bodies /\ d.kind \in Kinds
      /\ d.tags \in SUBSET Owners
  BY DEF Tombstone
<1>4. CASE Contested(d.ext, d.kind)
  <2>1. /\ thread' = [thread EXCEPT ![t] = Idle]
        /\ UNCHANGED <<docs, latest, written, imported>>
    BY <1>d, <1>4 DEF RestorePut
  <2>2. /\ thread'[t] = Idle /\ thread' \in [Threads -> Jobs]
        /\ \A u \in Threads \ {t} : thread'[u] = thread[u]
    BY <1>1, <2>1 DEF Types, Idle, Jobs
  <2>3. RestoresStep /\ BodiesStep
    BY <2>1, <2>2 DEF RestoresStep, Restoring, Idle, BodiesStep
  <2>4. KeptInv'
    BY <1>1, <1>2, <2>3, DocsStep
  <2>5. Types' /\ IdsDistinct' /\ QueuedAfterWrite'
    BY <1>1, <1>2, <2>1, <2>2, <2>3
       DEF Types, RestoresStep, IdsDistinct, Live, Stored, QueuedAfterWrite
  <2> QED
    BY <2>4, <2>5 DEF LifeInv, KeptInv
<1>5. CASE ~Contested(d.ext, d.kind)
  <2>1. /\ Put(d.ext, d.body, d.kind, d.tags) /\ Wrote(d.ext, d.body)
        /\ imported' = imported \ {d.ext}
        /\ thread' = [thread EXCEPT ![t].pc = "clear"]
    BY <1>d, <1>5 DEF RestorePut
  <2>2. /\ docs' \in [Exts -> Row]
        /\ docs'[d.ext].body = d.body /\ docs'[d.ext].lifecycle = "active"
        /\ docs'[d.ext].id = IF Stored(d.ext) THEN docs[d.ext].id ELSE NextId
        /\ \A f \in Exts \ {d.ext} : Untouched(f)
    BY <1>1, <1>3, <2>1, PutIs
  <2>3. /\ thread'[t] = [thread[t] EXCEPT !.pc = "clear"]
        /\ \A u \in Threads \ {t} : thread'[u] = thread[u]
    BY <1>1, <2>1 DEF Types
  <2>4. thread'[t].pc = "clear" /\ thread'[t].tomb = d /\ thread'[t] \in Jobs
    BY <1>2, <1>d, <2>3 DEF Jobs
  <2>5. thread' \in [Threads -> Jobs]
    BY <1>1, <2>1, <2>4 DEF Types
  <2>6. Stored(d.ext)'
    BY <1>3, <2>2, LifecycleAssumption DEF Stored
  <2>7. RestoresStep
    BY <1>2, <1>d, <2>3, <2>4, <2>6 DEF RestoresStep, Restoring, Stored
  <2> QED
    BY <1>2, <1>3, <2>1, <2>2, <2>5, <2>7, WriteStep
<1> QED
  BY <1>4, <1>5


\* A step that writes no doc and deletes none.
LEMMA QuietStep ==
  ASSUME LifeInv, docs' \in [Exts -> Row], \A e \in Exts : Untouched(e),
         RestoresStep, thread' \in [Threads -> Jobs],
         now' \in Nat, now <= now', now' <= MaxTime,
         UNCHANGED <<tombs, latest, written, imported, capped, doubled>>
  PROVE  LifeInv'
<1>1. Types /\ IdsDistinct /\ KeptInv /\ QueuedAfterWrite
  BY DEF LifeInv, KeptInv
<1>2. KeptInv'
  <2>1. BodiesStep
    BY DEF BodiesStep, Untouched
  <2> QED
    BY <1>1, <2>1, DocsStep
<1>3. Types'
  BY <1>1 DEF Types, RestoresStep
<1>4. IdsDistinct'
  BY <1>1 DEF IdsDistinct, Live, Stored, Untouched
<1>5. QueuedAfterWrite'
  <2>1. ASSUME NEW e \in Exts PROVE written'[e] <= now'
    <3>1. written[e] \in Nat /\ now \in Nat /\ written[e] <= now
      BY <1>1 DEF Types, QueuedAfterWrite
    <3> QED
      BY <3>1
  <2> QED
    BY <1>1, <2>1 DEF QueuedAfterWrite, Untouched
<1> QED
  BY <1>2, <1>3, <1>4, <1>5 DEF LifeInv, KeptInv

\* One whose docs change, and one whose threads do.
LEMMA DocsOnlyStep ==
  ASSUME LifeInv, docs' \in [Exts -> Row], \A e \in Exts : Untouched(e),
         UNCHANGED <<now, thread, tombs, latest, written, imported, capped, doubled>>
  PROVE  LifeInv'
<1>1. Types
  BY DEF LifeInv
<1>2. RestoresStep /\ thread' \in [Threads -> Jobs] /\ now' \in Nat /\ now <= now' /\ now' <= MaxTime
  BY <1>1 DEF RestoresStep, Restoring, Types
<1> QED
  BY <1>2, QuietStep

LEMMA ThreadsOnlyStep ==
  ASSUME LifeInv, thread' \in [Threads -> Jobs], RestoresStep,
         UNCHANGED <<now, docs, tombs, latest, written, imported, capped, doubled>>
  PROVE  LifeInv'
<1>1. Types
  BY DEF LifeInv
<1>2. /\ docs' \in [Exts -> Row] /\ now' \in Nat /\ now <= now' /\ now' <= MaxTime
      /\ \A e \in Exts : Untouched(e)
  BY <1>1 DEF Types, Untouched
<1> QED
  BY <1>2, QuietStep

LEMMA RowChanged ==
  ASSUME Types, NEW e \in Exts, NEW row \in Row, docs' = [docs EXCEPT ![e] = row],
         row.body = docs[e].body, row.id = docs[e].id,
         row.lifecycle = "pending_delete" =>
           docs[e].lifecycle = "pending_delete" /\ row.since = docs[e].since
  PROVE  docs' \in [Exts -> Row] /\ \A f \in Exts : Untouched(f)
BY DEF Types, Untouched

LEMMA SetLifecycleStep ==
  ASSUME LifeInv, SetLifecycle
  PROVE  LifeInv'
<1>1. PICK e \in Live, state \in {"active", "archived"} :
        docs' = [docs EXCEPT ![e].lifecycle = state, ![e].since = now]
  BY DEF SetLifecycle
<1>2. Types /\ e \in Exts /\ docs[e] \in Row /\ now \in Nat
  BY DEF LifeInv, Types, Live
<1> DEFINE row == [docs[e] EXCEPT !.lifecycle = state, !.since = now]
<1>3. /\ row \in Row /\ row.body = docs[e].body /\ row.id = docs[e].id
      /\ row.lifecycle # "pending_delete"
  BY <1>2 DEF Row, Lifecycles
<1>4. docs' = [docs EXCEPT ![e] = row]
  BY <1>1, <1>2 DEF Types
<1> HIDE DEF row
<1>5. docs' \in [Exts -> Row] /\ \A f \in Exts : Untouched(f)
  BY <1>2, <1>3, <1>4, RowChanged
<1> QED
  BY <1>5, DocsOnlyStep DEF SetLifecycle

LEMMA SetPinnedStep ==
  ASSUME LifeInv, SetPinned
  PROVE  LifeInv'
<1>1. PICK e \in Live \ Records : docs' = [docs EXCEPT ![e].pinned = ~@]
  BY DEF SetPinned
<1>2. Types /\ e \in Exts /\ docs[e] \in Row
  BY DEF LifeInv, Types, Live
<1> DEFINE row == [docs[e] EXCEPT !.pinned = ~@]
<1>3. /\ row \in Row /\ row.body = docs[e].body /\ row.id = docs[e].id
      /\ row.lifecycle = docs[e].lifecycle /\ row.since = docs[e].since
  BY <1>2 DEF Row
<1>4. docs' = [docs EXCEPT ![e] = row]
  BY <1>1, <1>2 DEF Types
<1> HIDE DEF row
<1>5. docs' \in [Exts -> Row] /\ \A f \in Exts : Untouched(f)
  BY <1>2, <1>3, <1>4, RowChanged
<1> QED
  BY <1>5, DocsOnlyStep DEF SetPinned

LEMMA SetTagsStep ==
  ASSUME LifeInv, SetTags
  PROVE  LifeInv'
<1>1. PICK e \in Records, o \in Owners :
        docs' = [docs EXCEPT ![e].tags = IF o \in @ THEN @ \ {o} ELSE @ \cup {o}]
  BY DEF SetTags
<1>2. Types /\ e \in Exts /\ docs[e] \in Row
  BY DEF LifeInv, Types, Live, Records
<1>3. PICK tags \in SUBSET Owners :
        tags = IF o \in docs[e].tags THEN docs[e].tags \ {o} ELSE docs[e].tags \cup {o}
  BY <1>2 DEF Row
<1> DEFINE row == [docs[e] EXCEPT !.tags = tags]
<1>4. /\ row \in Row /\ row.body = docs[e].body /\ row.id = docs[e].id
      /\ row.lifecycle = docs[e].lifecycle /\ row.since = docs[e].since
  BY <1>2 DEF Row
<1>5. docs' = [docs EXCEPT ![e] = row]
  BY <1>1, <1>2, <1>3 DEF Types
<1> HIDE DEF row
<1>6. docs' \in [Exts -> Row] /\ \A f \in Exts : Untouched(f)
  BY <1>2, <1>4, <1>5, RowChanged
<1> QED
  BY <1>6, DocsOnlyStep DEF SetTags

LEMMA RatedStep ==
  ASSUME LifeInv, Rated
  PROVE  LifeInv'
<1>1. PICK e \in Live : docs' = [docs EXCEPT ![e].status = "duplicate"]
  BY DEF Rated
<1>2. Types /\ e \in Exts /\ docs[e] \in Row
  BY DEF LifeInv, Types, Live
<1> DEFINE row == [docs[e] EXCEPT !.status = "duplicate"]
<1>3. /\ row \in Row /\ row.body = docs[e].body /\ row.id = docs[e].id
      /\ row.lifecycle = docs[e].lifecycle /\ row.since = docs[e].since
  BY <1>2 DEF Row, Statuses
<1>4. docs' = [docs EXCEPT ![e] = row]
  BY <1>1, <1>2 DEF Types
<1> HIDE DEF row
<1>5. docs' \in [Exts -> Row] /\ \A f \in Exts : Untouched(f)
  BY <1>2, <1>3, <1>4, RowChanged
<1> QED
  BY <1>5, DocsOnlyStep DEF Rated

LEMMA TickStep ==
  ASSUME LifeInv, Tick
  PROVE  LifeInv'
<1>1. Types
  BY DEF LifeInv
<1>2. now' = now + 1 /\ now < MaxTime /\ now \in Nat /\ MaxTime \in Nat
  BY <1>1, LifecycleAssumption DEF Tick, Types
<1>3. UNCHANGED <<docs, tombs, thread, latest, written, imported, capped, doubled>>
  BY DEF Tick
<1>4. /\ RestoresStep /\ thread' \in [Threads -> Jobs] /\ docs' \in [Exts -> Row]
      /\ \A e \in Exts : Untouched(e)
  BY <1>1, <1>3 DEF RestoresStep, Restoring, Types, Untouched
<1>5. now' \in Nat /\ now <= now' /\ now' <= MaxTime
  BY <1>2
<1> QED
  BY <1>3, <1>4, <1>5, QuietStep

LEMMA CrashStep ==
  ASSUME LifeInv, Crash
  PROVE  LifeInv'
<1>1. /\ thread' = [t \in Threads |-> Idle]
      /\ UNCHANGED <<now, docs, tombs, latest, written, imported, capped, doubled>>
  BY DEF Crash
<1>2. thread' \in [Threads -> Jobs] /\ RestoresStep
  BY <1>1 DEF Jobs, Idle, RestoresStep, Restoring
<1> QED
  BY <1>1, <1>2, ThreadsOnlyStep


LEMMA SweepingIs ==
  ASSUME Types, NEW t \in Threads, NEW pc \in {"chunks", "owners"}, NEW ids \in SUBSET Nat,
         NEW phase \in {"none", "superseded", "stale", "owners"}, Sweeping(t, pc, ids, phase)
  PROVE  /\ thread' \in [Threads -> Jobs] /\ RestoresStep
         /\ \A u \in Threads : Restoring(u)' => Restoring(u) /\ thread'[u] = thread[u]
<1> DEFINE job == [Idle EXCEPT !.pc = pc, !.ids = ids, !.phase = phase]
<1>1. job \in Jobs /\ job.pc = pc
  BY DEF Jobs, Idle
<1>2. thread' = [thread EXCEPT ![t] = job]
  BY DEF Sweeping
<1> HIDE DEF job
<1>3. thread' \in [Threads -> Jobs] /\ thread'[t].pc = pc
  BY <1>1, <1>2 DEF Types
<1>4. \A u \in Threads : u # t => thread'[u] = thread[u]
  BY <1>2 DEF Types
<1>5. \A u \in Threads : Restoring(u)' => Restoring(u) /\ thread'[u] = thread[u]
  BY <1>3, <1>4 DEF Restoring
<1> QED
  BY <1>3, <1>5 DEF RestoresStep

LEMMA IdsOfIs ==
  ASSUME Types, NEW es, es \subseteq Live
  PROVE  IdsOf(es) \in SUBSET Nat
BY DEF IdsOf, Types, Row, Live

LEMMA SweepBeginStep ==
  ASSUME LifeInv, NEW t \in Threads, SweepBegin(t)
  PROVE  LifeInv'
<1>1. Types
  BY DEF LifeInv
<1> DEFINE ids == IdsOf({e \in Live : docs[e].status = "superseded"})
<1>2. ids \in SUBSET Nat
  BY <1>1, IdsOfIs
<1>3. Sweeping(t, "chunks", ids, "superseded")
  BY DEF SweepBegin
<1> HIDE DEF ids
<1>4. thread' \in [Threads -> Jobs] /\ RestoresStep
  BY <1>1, <1>2, <1>3, SweepingIs
<1> QED
  BY <1>4, ThreadsOnlyStep DEF SweepBegin

LEMMA SweepFindVictimsStep ==
  ASSUME LifeInv, NEW t \in Threads, SweepFindVictims(t)
  PROVE  LifeInv'
<1>1. Types
  BY DEF LifeInv
<1>2. Victims \subseteq Live
  BY DEF Victims, Records
<1> DEFINE ids == IdsOf(Victims)
<1>3. ids \in SUBSET Nat
  BY <1>1, <1>2, IdsOfIs
<1>4. Sweeping(t, "chunks", ids, "owners")
  BY DEF SweepFindVictims
<1> HIDE DEF ids
<1>5. thread' \in [Threads -> Jobs] /\ RestoresStep
  BY <1>1, <1>3, <1>4, SweepingIs
<1> QED
  BY <1>5, ThreadsOnlyStep DEF SweepFindVictims

LEMMA SweepEndStep ==
  ASSUME LifeInv, NEW t \in Threads, SweepEnd(t)
  PROVE  LifeInv'
<1>1. Types
  BY DEF LifeInv
<1>2. thread' = [thread EXCEPT ![t] = Idle]
  BY DEF SweepEnd
<1>3. Idle \in Jobs
  BY DEF Jobs, Idle
<1>4. thread' \in [Threads -> Jobs] /\ RestoresStep
  BY <1>1, <1>2, <1>3 DEF Types, RestoresStep, Restoring, Idle
<1> QED
  BY <1>4, ThreadsOnlyStep DEF SweepEnd

LEMMA SweepMarkStaleStep ==
  ASSUME LifeInv, NEW t \in Threads, SweepMarkStale(t)
  PROVE  LifeInv'
<1>1. Types
  BY DEF LifeInv
<1>2. /\ docs' = [e \in Exts |-> Aged(docs[e])] /\ Sweeping(t, "owners", {}, "stale")
      /\ UNCHANGED <<now, tombs, latest, written, imported, capped, doubled>>
  BY DEF SweepMarkStale
<1>3. thread' \in [Threads -> Jobs] /\ RestoresStep
  BY <1>1, <1>2, SweepingIs
<1>4. \A r \in Row : /\ Aged(r) \in Row /\ Aged(r).body = r.body /\ Aged(r).id = r.id
                     /\ Aged(r).lifecycle = r.lifecycle /\ Aged(r).since = r.since
  BY DEF Aged, Row, Statuses
<1>5. \A e \in Exts : docs[e] \in Row
  BY <1>1 DEF Types
<1>6. docs' \in [Exts -> Row] /\ \A e \in Exts : Untouched(e)
  BY <1>2, <1>4, <1>5 DEF Untouched
<1>7. now' \in Nat /\ now <= now' /\ now' <= MaxTime
  BY <1>1, <1>2 DEF Types
<1> QED
  BY <1>2, <1>3, <1>6, <1>7, QuietStep

\* A step that buries the docs in `es', and may queue others for deletion.
LEMMA GoneStep ==
  ASSUME LifeInv, NEW es, es \subseteq Live, Buried(es), docs' \in [Exts -> Row],
         \A e \in es : docs'[e] = NoRow,
         \A e \in Exts \ es :
           /\ docs'[e].body = docs[e].body /\ docs'[e].id = docs[e].id
           /\ docs'[e].lifecycle = "pending_delete" =>
                \/ docs[e].lifecycle = "pending_delete" /\ docs'[e].since = docs[e].since
                \/ docs'[e].since = now,
         thread' \in [Threads -> Jobs],
         \A t \in Threads : Restoring(t)' => Restoring(t) /\ thread'[t] = thread[t],
         UNCHANGED <<now, latest, doubled>>
  PROVE  LifeInv'
<1>1. Types /\ IdsDistinct /\ KeptInv /\ QueuedAfterWrite
  BY DEF LifeInv, KeptInv
<1>2. KeptInv'
  <2>1. \A e \in Exts : docs'[e].body = IF e \in es THEN NoBody ELSE docs[e].body
    BY DEF NoRow
  <2> QED
    BY <1>1, <2>1, BuryStep
<1>3. written' \in [Exts -> Nat] /\ \A e \in Exts : written'[e] = IF e \in es THEN 0 ELSE written[e]
  BY <1>1 DEF Buried, Types
<1>4. Types'
  <2>1. tombs' \in Seq(Tombstone)
    BY <1>1, LaterKept DEF KeptInv
  <2> QED
    BY <1>1, <1>3, <2>1 DEF Types
<1>5. IdsDistinct'
  <2>1. \A e \in Exts : Stored(e)' => Stored(e) /\ docs'[e].id = docs[e].id
    BY DEF Stored, NoRow
  <2> QED
    BY <1>1, <2>1 DEF IdsDistinct, Live
<1>6. QueuedAfterWrite'
  <2>1. ASSUME NEW e \in Exts PROVE written'[e] <= now'
    <3>1. written[e] <= now /\ now \in Nat /\ now' = now
      BY <1>1 DEF Types, QueuedAfterWrite
    <3> QED
      BY <3>1, <1>3
  <2>2. ASSUME NEW e \in Exts, docs'[e].lifecycle = "pending_delete", e \notin imported'
        PROVE  written'[e] <= docs'[e].since
    <3>1. e \notin es
      BY <2>2 DEF NoRow
    <3>2. e \notin imported /\ written'[e] = written[e]
      BY <2>2, <3>1, <1>3 DEF Buried
    <3>3. CASE docs[e].lifecycle = "pending_delete" /\ docs'[e].since = docs[e].since
      BY <3>2, <3>3, <1>1 DEF QueuedAfterWrite
    <3>4. CASE docs'[e].since = now
      BY <3>2, <3>4, <1>1 DEF QueuedAfterWrite
    <3> QED
      BY <2>2, <3>1, <3>3, <3>4
  <2> QED
    BY <2>1, <2>2 DEF QueuedAfterWrite
<1> QED
  BY <1>2, <1>4, <1>5, <1>6 DEF LifeInv, KeptInv

LEMMA NoRowIs == NoRow \in Row
BY DEF NoRow, Row, Kinds, Statuses, Lifecycles

LEMMA RemovedStep ==
  ASSUME LifeInv, NEW es, es \subseteq Live, Removed(es), thread' \in [Threads -> Jobs],
         \A t \in Threads : Restoring(t)' => Restoring(t) /\ thread'[t] = thread[t],
         UNCHANGED <<now, latest, doubled>>
  PROVE  LifeInv'
<1>1. docs' = [e \in Exts |-> IF e \in es THEN NoRow ELSE docs[e]] /\ Buried(es)
  BY DEF Removed
<1>2. docs' \in [Exts -> Row]
  BY <1>1, NoRowIs DEF LifeInv, Types
<1>3. /\ \A e \in es : docs'[e] = NoRow
      /\ \A e \in Exts \ es : docs'[e] = docs[e]
  BY <1>1 DEF Live
<1> QED
  BY <1>1, <1>2, <1>3, GoneStep

LEMMA DeleteStep ==
  ASSUME LifeInv, Delete
  PROVE  LifeInv'
<1>1. PICK e \in Live : Removed({e})
  BY DEF Delete
<1>2. UNCHANGED <<now, thread, latest, doubled>>
  BY DEF Delete
<1>3. thread' \in [Threads -> Jobs] /\ \A t \in Threads : Restoring(t)' => Restoring(t)
  BY <1>2 DEF LifeInv, Types, Restoring
<1> QED
  BY <1>1, <1>2, <1>3, RemovedStep

LEMMA SweepChunkStep ==
  ASSUME LifeInv, NEW t \in Threads, SweepChunk(t)
  PROVE  LifeInv'
<1>1. Types
  BY DEF LifeInv
<1>2. PICK batch \in SUBSET thread[t].ids :
        /\ Removed(WithIds(batch))
        /\ Sweeping(t, "chunks", thread[t].ids \ batch, thread[t].phase)
  BY DEF SweepChunk
<1>3. /\ UNCHANGED <<now, latest, doubled>>
  BY DEF SweepChunk
<1>4. thread[t] \in Jobs /\ thread[t].pc = "chunks"
  BY <1>1 DEF SweepChunk, Types
<1>5. /\ thread[t].ids \ batch \in SUBSET Nat
      /\ thread[t].phase \in {"none", "superseded", "stale", "owners"}
  BY <1>4 DEF Jobs
<1>6. /\ thread' \in [Threads -> Jobs]
      /\ \A u \in Threads : Restoring(u)' => Restoring(u) /\ thread'[u] = thread[u]
  <2>1. PICK ids \in SUBSET Nat, phase \in {"none", "superseded", "stale", "owners"} :
          Sweeping(t, "chunks", ids, phase)
    BY <1>2, <1>5
  <2> QED
    BY <1>1, <2>1, SweepingIs
<1>7. PICK es \in SUBSET Live : es = WithIds(batch)
  BY DEF WithIds
<1> QED
  BY <1>2, <1>3, <1>6, <1>7, RemovedStep

LEMMA AgingIs ==
  ASSUME Types, NEW r \in Row
  PROVE  LET s == Queued(Archived(r)) IN
         /\ s \in Row /\ s.body = r.body /\ s.id = r.id
         /\ s.lifecycle = "pending_delete" =>
              \/ r.lifecycle = "pending_delete" /\ s.since = r.since
              \/ s.since = now
<1> DEFINE a == Archived(r)
<1>1. now \in Nat
  BY DEF Types
<1>2. /\ a \in Row /\ a.body = r.body /\ a.id = r.id
      /\ a.lifecycle = "pending_delete" => r.lifecycle = "pending_delete" /\ a.since = r.since
  BY <1>1 DEF Archived, Row, Lifecycles
<1> HIDE DEF a
<1>3. /\ Queued(a) \in Row /\ Queued(a).body = a.body /\ Queued(a).id = a.id
      /\ Queued(a) = a \/ Queued(a).since = now
  BY <1>1, <1>2 DEF Queued, Row, Lifecycles
<1> QED
  BY <1>2, <1>3 DEF a

LEMMA SweepRetentionStep ==
  ASSUME LifeInv, SweepRetention
  PROVE  LifeInv'
<1>1. Types
  BY DEF LifeInv
<1>2. /\ docs' = [e \in Exts |-> IF e \in Doomed THEN NoRow ELSE Queued(Archived(docs[e]))]
      /\ Buried(Doomed) /\ UNCHANGED <<now, thread, latest, doubled>>
  BY DEF SweepRetention
<1>3. \A e \in Exts : docs[e] \in Row
  BY <1>1 DEF Types
<1>4. Doomed \subseteq Live
  BY DEF Doomed
<1>5. \A e \in Doomed : docs'[e] = NoRow
  BY <1>2, <1>4 DEF Live
<1>6. \A e \in Exts \ Doomed : docs'[e] = Queued(Archived(docs[e]))
  BY <1>2
<1> HIDE DEF Doomed
<1>7. \A e \in Exts \ Doomed :
        /\ docs'[e] \in Row /\ docs'[e].body = docs[e].body /\ docs'[e].id = docs[e].id
        /\ docs'[e].lifecycle = "pending_delete" =>
             \/ docs[e].lifecycle = "pending_delete" /\ docs'[e].since = docs[e].since
             \/ docs'[e].since = now
  BY <1>1, <1>3, <1>6, AgingIs
<1>8. docs' \in [Exts -> Row]
  BY <1>2, <1>5, <1>7, NoRowIs
<1>9. thread' \in [Threads -> Jobs] /\ \A t \in Threads : Restoring(t)' => Restoring(t)
  BY <1>1, <1>2 DEF Types, Restoring
<1> QED
  BY <1>2, <1>4, <1>5, <1>7, <1>8, <1>9, GoneStep


LEMMA RestoreReadHolds ==
  ASSUME LifeInv, NEW t \in Threads, RestoreRead(t)
  PROVE  LifeInv'
<1>1. Types /\ IdsDistinct /\ KeptInv /\ QueuedAfterWrite
  BY DEF LifeInv, KeptInv
<1>2. KeptInv'
  BY <1>1, RestoreReadStep
<1>3. PICK i \in DOMAIN tombs :
        thread' = [thread EXCEPT ![t] = [Idle EXCEPT !.pc = "restore", !.tomb = tombs[i]]]
  BY DEF RestoreRead
<1>4. /\ UNCHANGED <<now, docs, tombs, latest, written, imported>>
      /\ doubled' = (doubled \/ \E u \in Threads \ {t} : Restoring(u))
  BY DEF RestoreRead
<1>5. tombs[i] \in Tombstone
  BY <1>1 DEF Types
<1> DEFINE job == [Idle EXCEPT !.pc = "restore", !.tomb = tombs[i]]
<1>6. job \in Jobs /\ job.tomb = tombs[i]
  BY <1>5 DEF Jobs, Idle
<1> HIDE DEF job
<1>7. thread' \in [Threads -> Jobs] /\ thread'[t].tomb = tombs[i]
  BY <1>1, <1>3, <1>6 DEF Types, job
<1>8. \A u \in Threads : u # t => thread'[u] = thread[u]
  BY <1>1, <1>3 DEF Types
<1>9. \A u \in Threads : Restoring(u)' => thread'[u].tomb \in Tombstone
  BY <1>1, <1>5, <1>7, <1>8 DEF Types, Restoring
<1>10. Types'
  BY <1>1, <1>4, <1>7, <1>9 DEF Types
<1>11. IdsDistinct' /\ QueuedAfterWrite'
  BY <1>1, <1>4 DEF IdsDistinct, Live, Stored, QueuedAfterWrite
<1> QED
  BY <1>2, <1>10, <1>11 DEF LifeInv, KeptInv

LEMMA RestoreClearHolds ==
  ASSUME LifeInv, NEW t \in Threads, RestoreClear(t)
  PROVE  LifeInv'
<1>1. Types /\ IdsDistinct /\ KeptInv /\ QueuedAfterWrite
  BY DEF LifeInv, KeptInv
<1>2. KeptInv' /\ tombs' \in Seq(Tombstone)
  BY <1>1, RestoreClearStep
<1>3. /\ UNCHANGED <<now, docs, latest, written, imported, doubled>>
      /\ thread' = [thread EXCEPT ![t] = Idle]
  BY DEF RestoreClear
<1>4. Idle \in Jobs
  BY DEF Jobs, Idle
<1>5. /\ thread' \in [Threads -> Jobs]
      /\ \A u \in Threads : Restoring(u)' => thread'[u].tomb \in Tombstone
  BY <1>1, <1>3, <1>4 DEF Types, Restoring, Idle
<1>6. Types'
  BY <1>1, <1>2, <1>3, <1>5 DEF Types
<1>7. IdsDistinct' /\ QueuedAfterWrite'
  BY <1>1, <1>3 DEF IdsDistinct, Live, Stored, QueuedAfterWrite
<1> QED
  BY <1>2, <1>6, <1>7 DEF LifeInv, KeptInv

-----------------------------------------------------------------------------
(***************************************************************************)
(* The theorems.                                                           *)
(***************************************************************************)
LEMMA InitHolds == Init => LifeInv
<1> SUFFICES ASSUME Init PROVE LifeInv
  OBVIOUS
<1> DEFINE n == Cardinality(Exts)
<1>1. n \in Nat
  BY LifecycleAssumption, FS_CardinalityType
<1>2. \A i \in 1..n : \A r \in RowsOf(i) :
        /\ r \in Row /\ r.id = i /\ r.body # NoBody /\ r.lifecycle = "active"
  <2> TAKE i \in 1..n
  <2>1. i \in Nat
    BY <1>1
  <2>2. FirstBody \in Bodies /\ FirstBody # NoBody
    BY LifecycleAssumption
  <2> DEFINE row == NoRow
  <2>3. row \in Row /\ row.lifecycle = "active"
    BY NoRowIs DEF NoRow
  <2> HIDE DEF row
  <2>4. \A r \in RowsOf(i) :
          \/ r = [row EXCEPT !.id = i, !.body = FirstBody]
          \/ \E o \in Owners : r = [row EXCEPT !.id = i, !.body = FirstBody,
                                               !.kind = "record", !.tags = {o}]
    BY DEF RowsOf, row
  <2>5. \A o \in Owners : {o} \in SUBSET Owners
    OBVIOUS
  <2> TAKE r \in RowsOf(i)
  <2>6. PICK kind \in Kinds, tags \in SUBSET Owners :
          r = [row EXCEPT !.id = i, !.body = FirstBody, !.kind = kind, !.tags = tags]
    <3>1. row.kind \in Kinds /\ row.tags \in SUBSET Owners
      BY <2>3 DEF Row
    <3>2. [row EXCEPT !.id = i, !.body = FirstBody] =
            [row EXCEPT !.id = i, !.body = FirstBody, !.kind = row.kind, !.tags = row.tags]
      BY <2>3 DEF Row
    <3>3. "record" \in Kinds
      BY DEF Kinds
    <3> QED
      BY <2>4, <2>5, <3>1, <3>2, <3>3
  <2> QED
    BY <2>1, <2>2, <2>3, <2>6 DEF Row
<1>3. docs \in [Exts -> {NoRow} \cup UNION {RowsOf(i) : i \in 1..n}]
  BY DEF Init
<1>4. \A e \in Exts : /\ docs[e] \in Row /\ docs[e].lifecycle = "active"
                      /\ docs[e] = NoRow \/ docs[e].id \in Nat \ {0}
  <2> TAKE e \in Exts
  <2>1. docs[e] = NoRow \/ \E i \in 1..n : docs[e] \in RowsOf(i)
    BY <1>3
  <2>2. CASE docs[e] = NoRow
    BY <2>2, NoRowIs DEF NoRow
  <2>3. ASSUME NEW i \in 1..n, docs[e] \in RowsOf(i)
        PROVE  docs[e] \in Row /\ docs[e].lifecycle = "active" /\ docs[e].id \in Nat \ {0}
    BY <2>3, <1>1, <1>2
  <2> QED
    BY <2>1, <2>2, <2>3
<1> HIDE DEF n
<1>5. Types
  <2>1. docs \in [Exts -> Row]
    BY <1>3, <1>4
  <2>2. /\ now = 0 /\ MaxTime \in Nat /\ tombs = <<>> /\ doubled = FALSE
        /\ thread = [t \in Threads |-> Idle] /\ written = [e \in Exts |-> 0]
        /\ latest = [e \in Exts |-> docs[e].body]
    BY LifecycleAssumption DEF Init
  <2>3. latest \in [Exts -> Bodies \cup {NoBody}]
    BY <2>1, <2>2 DEF Row
  <2>4. Idle \in Jobs /\ Idle.pc = "idle"
    BY DEF Idle, Jobs
  <2>5. \A t \in Threads : ~Restoring(t)
    BY <2>2, <2>4 DEF Restoring
  <2>6. now \in Nat /\ now <= MaxTime
    <3>1. now = 0 /\ MaxTime \in Nat
      BY <2>2
    <3> QED
      BY <3>1
  <2>7. tombs \in Seq(Tombstone)
    <3>1. <<>> \in Seq(Tombstone)
      OBVIOUS
    <3> QED
      BY <2>2, <3>1
  <2>8. /\ thread \in [Threads -> Jobs] /\ written \in [Exts -> Nat]
        /\ doubled \in BOOLEAN
    BY <2>2, <2>4
  <2> QED
    BY <2>1, <2>3, <2>5, <2>6, <2>7, <2>8 DEF Types
<1>6. IdsDistinct
  <2> DEFINE id == [e \in Live |-> docs[e].id]
             I == 1..Cardinality(Live)
  <2>1. IsFiniteSet(Live) /\ Cardinality(Live) \in Nat
    BY LifecycleAssumption, FS_Subset, FS_CardinalityType DEF Live
  <2>2. IsFiniteSet(I) /\ Cardinality(I) = Cardinality(Live)
    <3>1. 1 \in Int /\ Cardinality(Live) \in Int
      BY <2>1
    <3> QED
      BY <2>1, <3>1, FS_Interval
  <2>3. {docs[e].id : e \in Exts} \ {0} = I
    BY DEF Init
  <2>4. \A e \in Live : e \in Exts /\ docs[e].id \in Nat \ {0}
    BY <1>4 DEF Live, Stored, NoRow
  <2>5. \A i \in I : \E e \in Live : id[e] = i
    <3> TAKE i \in I
    <3>1. i # 0
      BY <2>1
    <3>2. PICK e \in Exts : docs[e].id = i
      BY <2>3
    <3>3. docs[e] # NoRow
      BY <3>1, <3>2 DEF NoRow
    <3>4. e \in Live
      <4>1. PICK j \in 1..n : docs[e] \in RowsOf(j)
        BY <1>3, <3>3
      <4> QED
        BY <4>1, <1>2 DEF Live, Stored
    <3> QED
      BY <3>2, <3>4
  <2>6. id \in [Live -> I]
    BY <2>3, <2>4
  <2>7. id \in Surjection(Live, I)
    BY <2>5, <2>6 DEF Surjection
  <2> HIDE DEF I
  <2>8. id \in Injection(Live, I)
    <3> HIDE DEF id
    <3> QED
      BY <2>1, <2>2, <2>7, FS_SurjSameCardinalityImpliesInj
  <2> QED
    BY <2>8 DEF Injection, IsInjective, IdsDistinct
<1>7. Ascending /\ StoredIsLatest /\ GoneIsKept
  <2>1. tombs = <<>> /\ latest = [e \in Exts |-> docs[e].body]
    BY DEF Init
  <2> QED
    BY <2>1 DEF Ascending, StoredIsLatest, GoneIsKept, Live, Stored
<1>8. OneRestores /\ RestoresHold
  <2>1. \A t \in Threads : ~Restoring(t)
    BY DEF Init, Idle, Restoring
  <2> QED
    BY <2>1 DEF OneRestores, RestoresHold
<1>9. QueuedAfterWrite
  <2>1. now = 0 /\ written = [e \in Exts |-> 0]
    BY DEF Init
  <2> QED
    BY <2>1, <1>4 DEF QueuedAfterWrite
<1> QED
  BY <1>5, <1>6, <1>7, <1>8, <1>9 DEF LifeInv

LEMMA NextHolds == LifeInv /\ [Next]_vars => LifeInv'
<1> SUFFICES ASSUME LifeInv, [Next]_vars PROVE LifeInv'
  OBVIOUS
<1>1. CASE Client
  BY <1>1, PutCallStep, ImportCallStep, SetLifecycleStep, SetPinnedStep, SetTagsStep,
     DeleteStep, RestoreVersionStep DEF Client
<1>2. ASSUME NEW t \in Threads, RestoreRead(t) \/ RestorePut(t) \/ RestoreClear(t)
      PROVE  LifeInv'
  BY <1>2, RestoreReadHolds, RestorePutStep, RestoreClearHolds
<1>3. ASSUME NEW t \in Threads, Sweep(t) PROVE LifeInv'
  BY <1>3, SweepBeginStep, SweepChunkStep, SweepMarkStaleStep, SweepFindVictimsStep,
     SweepEndStep DEF Sweep
<1>4. CASE SweepRetention
  BY <1>4, SweepRetentionStep
<1>5. CASE Tick \/ Rated \/ Crash
  BY <1>5, TickStep, RatedStep, CrashStep
<1>6. CASE UNCHANGED vars
  <2>1. Types
    BY DEF LifeInv
  <2>2. UNCHANGED <<now, docs, tombs, thread, latest, written, imported, capped, doubled>>
    BY <1>6 DEF vars
  <2>3. thread' \in [Threads -> Jobs] /\ RestoresStep
    BY <2>1, <2>2 DEF Types, RestoresStep, Restoring
  <2> QED
    BY <2>2, <2>3, ThreadsOnlyStep
<1> QED
  BY <1>1, <1>2, <1>3, <1>4, <1>5, <1>6 DEF Next

\* Ids stay apart, tombstones in order, and every body last written is where the
\* invariant says, whatever clients, restores, sweeps and crashes do.
THEOREM LifeInvHolds == Spec => []LifeInv
BY InitHolds, NextHolds, PTL DEF Spec

\* While no two restores overlapped, the body a client last wrote is in the store,
\* in a tombstone, or was in one that the cap removed.
THEOREM LastWritesSurvive == Spec => []LastWriteSurvivesUndoubled
<1>1. LifeInv => LastWriteSurvivesUndoubled
  <2> SUFFICES ASSUME LifeInv PROVE LastWriteSurvivesUndoubled
    OBVIOUS
  <2>1. TypeOK
    <3>1. now \in 0..MaxTime
      BY LifecycleAssumption DEF LifeInv, Types
    <3>2. \A i \in DOMAIN tombs : tombs[i] \in Tombstone
      BY DEF LifeInv, Types
    <3> QED
      BY <3>1, <3>2 DEF LifeInv, Types, IdsDistinct, TypeOK
  <2>2. ASSUME ~doubled, NEW e \in Exts PROVE Recoverable(e)
    <3>1. CASE e \in Live
      BY <3>1 DEF LifeInv, StoredIsLatest, Recoverable
    <3>2. CASE e \notin Live
      BY <2>2, <3>2 DEF LifeInv, GoneIsKept, Kept0, Recoverable
    <3> QED
      BY <3>1, <3>2
  <2> QED
    BY <2>1, <2>2 DEF LastWriteSurvivesUndoubled, LastWriteSurvives
<1> QED
  BY <1>1, LifeInvHolds, PTL

\* The TTL sweep deletes no doc that a client wrote within the grace window.
THEOREM WritesAreNotEvicted == Spec => WrittenIsNotEvicted
<1>1. LifeInv /\ [Next]_vars
        => [SweepRetention => \A e \in EvictedNow \ imported : written[e] < now - Grace]_vars
  <2> SUFFICES ASSUME LifeInv, SweepRetention, NEW e \in EvictedNow \ imported
               PROVE  written[e] < now - Grace
    OBVIOUS
  <2>1. Types /\ QueuedAfterWrite
    BY DEF LifeInv
  <2>2. /\ e \in Live /\ e \in Exts /\ docs'[e].body = NoBody /\ docs[e].body # NoBody
        /\ docs[e].lifecycle = "pending_delete" /\ e \notin imported
    BY DEF EvictedNow, Live, Stored
  <2>3. e \in Doomed
    <3> SUFFICES ASSUME e \notin Doomed PROVE FALSE
      OBVIOUS
    <3>1. docs'[e] = Queued(Archived(docs[e]))
      BY <2>2 DEF SweepRetention
    <3>2. docs[e] \in Row
      BY <2>1, <2>2 DEF Types
    <3> QED
      BY <2>1, <2>2, <3>1, <3>2, AgingIs
  <2>4. docs[e].since < now - Grace
    BY <2>3 DEF Doomed, Stamped
  <2>5. written[e] <= docs[e].since
    BY <2>1, <2>2 DEF QueuedAfterWrite
  <2>6. written[e] \in Nat /\ docs[e].since \in Nat /\ now \in Nat /\ Grace \in Nat
    BY <2>1, <2>2, LifecycleAssumption DEF Types, Row
  <2> QED
    BY <2>4, <2>5, <2>6
<1> QED
  BY <1>1, LifeInvHolds, PTL DEF Spec, WrittenIsNotEvicted


-----------------------------------------------------------------------------
(***************************************************************************)
(* The owners' records.                                                    *)
(***************************************************************************)

\* An undisturbed sweep is alone, and what it is about to delete of the owners'
\* records is what it would choose to delete now.
OneSweeps == disturbed \/ \A t, u \in Threads : AtWork(t) /\ AtWork(u) => t = u

Chosen(t) == thread[t].pc = "chunks" /\ thread[t].phase = "owners"
ChosenAreVictims ==
  disturbed \/ \A t \in Threads : Chosen(t) => WithIds(thread[t].ids) \subseteq Victims

SweepInv == OneSweeps /\ ChosenAreVictims

LEMMA NumbersAre ==
  ASSUME NEW base, Numbers(base) # {}
  PROVE  /\ Max(Numbers(base)) \in Numbers(base) /\ Numbers(base) \subseteq Nat
         /\ \A n \in Numbers(base) : n <= Max(Numbers(base))
<1> DEFINE S == Numbers(base)
           E == {o \in Owners : o.n \in S}
           f == [o \in E |-> o.n]
           U == {b \in Nat : \A n \in S : n <= b}
<1>1. S \subseteq Nat /\ \A n \in S : \E o \in E : o.n = n
  BY LifecycleAssumption DEF Numbers
<1>2. IsFiniteSet(E) /\ f \in [E -> Nat]
  BY LifecycleAssumption, FS_Subset
<1>3. \A o \in E : f[o] = o.n
  OBVIOUS
<1> HIDE DEF S, E, f
<1>4. PICK b \in Nat : \A o \in E : f[o] <= b
  BY <1>2, Bounded
<1>5. U # {} /\ U \subseteq Nat
  BY <1>1, <1>3, <1>4
<1>6. PICK m \in U : \A c \in U : m <= c
  <2> HIDE DEF U
  <2> QED
    BY <1>5, LeastOfNats
<1>7. m \in Nat /\ \A n \in S : n <= m
  OBVIOUS
<1>8. m \in S
  <2> SUFFICES ASSUME m \notin S PROVE FALSE
    OBVIOUS
  <2>1. \A n \in S : n \in Nat /\ n < m
    BY <1>1, <1>7
  <2>2. PICK n \in S : TRUE
    BY DEF S
  <2>3. m - 1 \in Nat /\ \A k \in S : k <= m - 1
    BY <2>1, <2>2, <1>7
  <2> QED
    BY <2>3, <1>6
<1>9. Max(S) = m
  <2>1. S \subseteq Int
    BY <1>1
  <2> QED
    BY <2>1, <1>7, <1>8, MaxIs
<1> QED
  BY <1>1, <1>7, <1>8, <1>9 DEF S

\* Every owner keeps a record of its own, which is no victim.
LEMMA OwnerKeeps ==
  ASSUME NEW base, NEW n, Wearing(base, n) # {}, n # 0 => n \in Numbers(base)
  PROVE  \E k : Keepers(base) = Wearing(base, k) /\ Wearing(base, k) # {}
<1>1. CASE Wearing(base, 0) # {}
  BY <1>1 DEF Keepers
<1>2. CASE Wearing(base, 0) = {}
  <2>1. Numbers(base) # {}
    BY <1>2
  <2>2. Wearing(base, Max(Numbers(base))) # {}
    BY <2>1, NumbersAre DEF Numbers
  <2> QED
    BY <1>2, <2>1, <2>2 DEF Keepers
<1> QED
  BY <1>1, <1>2

\* Victims gone, the others are victims still.
LEMMA VictimsGone ==
  ASSUME NEW es, es \subseteq Victims,
         docs' = [e \in Exts |-> IF e \in es THEN NoRow ELSE docs[e]]
  PROVE  Victims' = Victims \ es
<1>1. /\ Records' = Records \ es
      /\ \A e \in Records \ es : docs'[e] = docs[e]
  BY DEF Records, Live, Stored, NoRow
<1>2. \A base, n : Wearing(base, n)' = Wearing(base, n) \ es
  BY <1>1 DEF Wearing
<1>3. \A base : Numbers(base)' \subseteq Numbers(base)
  BY <1>2 DEF Numbers
<1>4. \A base \in Bases : Keepers(base) \cap es = {}
  BY DEF Victims
<1>5. ASSUME NEW base \in Bases PROVE Keepers(base)' = Keepers(base)
  <2>1. CASE Wearing(base, 0) # {}
    <3>1. Keepers(base) = Wearing(base, 0)
      BY <2>1 DEF Keepers
    <3>2. Wearing(base, 0)' = Wearing(base, 0)
      BY <3>1, <1>2, <1>4
    <3> QED
      BY <2>1, <3>1, <3>2 DEF Keepers
  <2>2. CASE Wearing(base, 0) = {} /\ Numbers(base) = {}
    <3>1. Wearing(base, 0)' = {} /\ Numbers(base)' = {}
      BY <2>2, <1>2, <1>3
    <3> QED
      BY <2>2, <3>1 DEF Keepers
  <2>3. CASE Wearing(base, 0) = {} /\ Numbers(base) # {}
    <3>1. PICK m \in Numbers(base) : m = Max(Numbers(base))
      BY <2>3, NumbersAre
    <3>2. Numbers(base) \subseteq Nat /\ \A n \in Numbers(base) : n <= m
      BY <2>3, <3>1, NumbersAre
    <3>3. Keepers(base) = Wearing(base, m)
      BY <2>3, <3>1 DEF Keepers
    <3>4. Wearing(base, m)' = Wearing(base, m) /\ Wearing(base, m) # {}
      BY <3>1, <3>3, <1>2, <1>4 DEF Numbers
    <3>5. m \in Numbers(base)'
      BY <3>1, <3>4 DEF Numbers
    <3>6. Max(Numbers(base)') = m
      <4>1. Numbers(base)' \subseteq Int /\ \A n \in Numbers(base)' : n <= m
        BY <3>2, <1>3
      <4> QED
        BY <3>5, <4>1, MaxIs
    <3>7. Wearing(base, 0)' = {}
      BY <2>3, <1>2
    <3>8. Keepers(base)' = Wearing(base, m)'
      BY <3>5, <3>6, <3>7 DEF Keepers
    <3> QED
      BY <3>3, <3>4, <3>8
  <2> QED
    BY <2>1, <2>2, <2>3
<1> QED
  BY <1>1, <1>5 DEF Victims, Bases


LEMMA DisturbedOrAlone ==
  ASSUME disturbed' \/ \A t \in Threads : ~AtWork(t)'
  PROVE  SweepInv'
BY DEF SweepInv, OneSweeps, ChosenAreVictims, Chosen, AtWork

LEMMA VictimsSame ==
  ASSUME Records' = Records, \A e \in Records : docs'[e].tags = docs[e].tags
  PROVE  Victims' = Victims
<1>1. \A base, n : Wearing(base, n)' = Wearing(base, n)
  BY DEF Wearing
<1>2. \A base : Numbers(base)' = Numbers(base)
  BY <1>1 DEF Numbers
<1>3. \A base : Keepers(base)' = Keepers(base)
  BY <1>1, <1>2 DEF Keepers
<1> QED
  BY <1>3 DEF Victims, Bases

\* No record changes, and no sweep goes on.
LEMMA RecordsStep ==
  ASSUME SweepInv, disturbed' = disturbed,
         Records' = Records, \A e \in Records : docs'[e].tags = docs[e].tags,
         \A e \in Live' : e \in Live /\ docs'[e].id = docs[e].id,
         \A t \in Threads : AtWork(t)' => thread'[t] = thread[t]
  PROVE  SweepInv'
<1>1. Victims' = Victims
  BY VictimsSame
<1>2. \A t \in Threads : Chosen(t)' =>
        Chosen(t) /\ WithIds(thread[t].ids)' \subseteq WithIds(thread[t].ids)
  <2> SUFFICES ASSUME NEW t \in Threads, Chosen(t)'
               PROVE  Chosen(t) /\ WithIds(thread[t].ids)' \subseteq WithIds(thread[t].ids)
    OBVIOUS
  <2>1. thread'[t] = thread[t]
    BY DEF Chosen, AtWork
  <2> QED
    BY <2>1 DEF Chosen, WithIds
<1>3. ChosenAreVictims'
  BY <1>1, <1>2 DEF SweepInv, ChosenAreVictims
<1>4. OneSweeps'
  BY DEF SweepInv, OneSweeps, AtWork
<1> QED
  BY <1>3, <1>4 DEF SweepInv

LEMMA DocsSame ==
  ASSUME SweepInv, UNCHANGED <<disturbed, docs>>,
         \A t \in Threads : AtWork(t)' => thread'[t] = thread[t]
  PROVE  SweepInv'
<1>1. Records' = Records /\ Live' = Live
  BY DEF Records, Live, Stored
<1> QED
  BY <1>1, RecordsStep DEF Live

LEMMA ClientSweeps ==
  ASSUME Client
  PROVE  SweepInv'
<1>1. Disturb /\ UNCHANGED thread
  BY DEF Client, PutCall, ImportCall, SetLifecycle, SetPinned, SetTags, Delete,
         RestoreVersion, Wrote
<1> QED
  BY <1>1, DisturbedOrAlone DEF Disturb, AtWork

LEMMA RestoreSweeps ==
  ASSUME Types, SweepInv, NEW t \in Threads, RestoreRead(t) \/ RestorePut(t) \/ RestoreClear(t)
  PROVE  SweepInv'
<1>1. /\ ~AtWork(t)'
      /\ \A u \in Threads : u # t => thread'[u] = thread[u]
  <2>1. CASE RestoreRead(t)
    <3>1. PICK i \in DOMAIN tombs :
            thread' = [thread EXCEPT ![t] = [Idle EXCEPT !.pc = "restore", !.tomb = tombs[i]]]
      BY <2>1 DEF RestoreRead
    <3> QED
      BY <3>1 DEF Types, AtWork, Idle
  <2>2. CASE RestorePut(t)
    <3>1. \/ thread' = [thread EXCEPT ![t] = Idle]
          \/ thread' = [thread EXCEPT ![t].pc = "clear"]
      BY <2>2 DEF RestorePut
    <3>2. thread[t] \in Jobs
      BY DEF Types
    <3> QED
      BY <3>1, <3>2 DEF Types, AtWork, Idle, Jobs
  <2>3. CASE RestoreClear(t)
    BY <2>3 DEF RestoreClear, Types, AtWork, Idle
  <2> QED
    BY <2>1, <2>2, <2>3
<1>2. CASE UNCHANGED <<disturbed, docs>>
  BY <1>1, <1>2, DocsSame
<1>3. CASE Disturb
  BY <1>1, <1>3, DisturbedOrAlone DEF Disturb, AtWork
<1> QED
  BY <1>2, <1>3 DEF RestoreRead, RestorePut, RestoreClear, Wrote

LEMMA RestSweeps ==
  ASSUME Types, SweepInv, SweepRetention \/ Tick \/ Rated \/ Crash \/ UNCHANGED vars
  PROVE  SweepInv'
<1>1. CASE Tick \/ UNCHANGED vars
  BY <1>1, DocsSame DEF Tick, vars
<1>2. CASE Crash
  <2>1. \A t \in Threads : ~AtWork(t)'
    BY <1>2 DEF Crash, AtWork, Idle
  <2> QED
    BY <2>1, DisturbedOrAlone
<1>3. CASE Rated
  <2>1. PICK e \in Live : /\ docs[e].kind # "record"
                          /\ docs' = [docs EXCEPT ![e].status = "duplicate"]
    BY <1>3 DEF Rated
  <2>2. UNCHANGED <<thread, disturbed>>
    BY <1>3 DEF Rated
  <2>3. \A f \in Exts : /\ docs'[f].body = docs[f].body /\ docs'[f].id = docs[f].id
                        /\ docs'[f].kind = docs[f].kind /\ docs'[f].tags = docs[f].tags
    BY <2>1 DEF Types, Row
  <2>4. Records' = Records /\ Live' = Live
    BY <2>3 DEF Records, Live, Stored
  <2> QED
    BY <2>2, <2>3, <2>4, RecordsStep DEF Live, Records
<1>4. CASE SweepRetention
  <2>1. /\ docs' = [e \in Exts |-> IF e \in Doomed THEN NoRow ELSE Queued(Archived(docs[e]))]
        /\ UNCHANGED <<thread, disturbed>>
    BY <1>4 DEF SweepRetention
  <2>2. \A e \in Doomed : e \in Exts /\ docs[e].kind # "record" /\ e \notin Records
    BY DEF Doomed, Evictable, Exempt, Live, Records
  <2>3. \A r : (r.kind = "record" => Queued(Archived(r)) = r)
    BY DEF Archived, Queued, Evictable, Exempt
  <2>4. \A e \in Exts \ Doomed : docs'[e] = Queued(Archived(docs[e]))
    BY <2>1
  <2>5. \A e \in Doomed : docs'[e] = NoRow
    BY <2>1, <2>2
  <2>6. \A r \in Row : /\ Queued(Archived(r)).kind = r.kind /\ Queued(Archived(r)).body = r.body
                       /\ Queued(Archived(r)).id = r.id /\ Queued(Archived(r)).tags = r.tags
    BY DEF Archived, Queued, Row
  <2>7. \A e \in Exts : docs[e] \in Row
    BY DEF Types
  <2> HIDE DEF Doomed
  <2>8. \A e \in Exts \ Doomed : /\ docs'[e].kind = docs[e].kind /\ docs'[e].body = docs[e].body
                                 /\ docs'[e].id = docs[e].id /\ docs'[e].tags = docs[e].tags
    BY <2>4, <2>6, <2>7
  <2>9. \A e \in Doomed : docs'[e].body = NoBody
    BY <2>5 DEF NoRow
  <2>10. Records' = Records /\ \A e \in Live' : e \in Live /\ docs'[e].id = docs[e].id
    BY <2>2, <2>8, <2>9 DEF Records, Live, Stored
  <2>11. \A e \in Records : docs'[e].tags = docs[e].tags
    BY <2>2, <2>8 DEF Records, Live
  <2> QED
    BY <2>1, <2>10, <2>11, RecordsStep
<1> QED
  BY <1>1, <1>2, <1>3, <1>4

LEMMA SweepSweeps ==
  ASSUME Types, IdsDistinct, SweepInv, NEW t \in Threads, Sweep(t)
  PROVE  SweepInv'
<1>1. CASE SweepBegin(t) \/ SweepEnd(t)
  <2>1. \A u \in Threads : u # t => thread'[u] = thread[u]
    BY <1>1 DEF SweepBegin, SweepEnd, Sweeping, Types
  <2>2. ~Chosen(t)'
    <3>1. CASE SweepBegin(t)
      BY <3>1 DEF SweepBegin, Sweeping, Types, Idle, Chosen
    <3>2. CASE SweepEnd(t)
      BY <3>2 DEF SweepEnd, Types, Idle, Chosen
    <3> QED
      BY <1>1, <3>1, <3>2
  <2>3. disturbed' \/ \A u \in Threads : u # t => ~AtWork(u)'
    BY <1>1, <2>1 DEF SweepBegin, SweepEnd, Beside, AtWork
  <2> QED
    BY <2>2, <2>3 DEF SweepInv, OneSweeps, ChosenAreVictims, Chosen, AtWork
<1>2. CASE SweepMarkStale(t)
  <2>1. AtWork(t) /\ disturbed' = disturbed
    BY <1>2 DEF SweepMarkStale, AtWork
  <2>2. \A u \in Threads : u # t => thread'[u] = thread[u]
    BY <1>2 DEF SweepMarkStale, Sweeping, Types
  <2>3. ~Chosen(t)'
    BY <1>2 DEF SweepMarkStale, Sweeping, Types, Idle, Chosen
  <2>4. disturbed' \/ \A u \in Threads : u # t => ~AtWork(u)'
    BY <2>1, <2>2 DEF SweepInv, OneSweeps, AtWork
  <2> QED
    BY <2>3, <2>4 DEF SweepInv, OneSweeps, ChosenAreVictims, Chosen, AtWork
<1>3. CASE SweepFindVictims(t)
  <2>1. \A u \in Threads : u # t => thread'[u] = thread[u]
    BY <1>3 DEF SweepFindVictims, Sweeping, Types
  <2>2. thread'[t].ids = IdsOf(Victims) /\ docs' = docs
    BY <1>3 DEF SweepFindVictims, Sweeping, Types, Idle
  <2>3. disturbed' \/ \A u \in Threads : u # t => ~AtWork(u)'
    BY <1>3, <2>1 DEF SweepFindVictims, Beside, AtWork
  <2>4. PICK ids \in SUBSET Nat : ids = IdsOf(Victims)
    BY IdsOfIs DEF Victims, Records
  <2>5. WithIds(ids) \subseteq Victims
    BY <2>4 DEF WithIds, IdsOf, IdsDistinct, Victims, Records
  <2>6. WithIds(ids)' \subseteq Victims'
    <3>1. Records' = Records /\ WithIds(ids)' = WithIds(ids)
      BY <2>2 DEF Records, WithIds, Live, Stored
    <3>2. Victims' = Victims
      BY <2>2, <3>1, VictimsSame
    <3> QED
      BY <2>5, <3>1, <3>2
  <2>7. WithIds(thread[t].ids)' \subseteq Victims'
    BY <2>2, <2>4, <2>6 DEF WithIds
  <2> QED
    BY <2>3, <2>7 DEF SweepInv, OneSweeps, ChosenAreVictims, Chosen, AtWork
<1>4. CASE SweepChunk(t)
  <2>1. PICK batch \in SUBSET thread[t].ids :
          /\ Removed(WithIds(batch))
          /\ Sweeping(t, "chunks", thread[t].ids \ batch, thread[t].phase)
    BY <1>4 DEF SweepChunk
  <2>2. AtWork(t) /\ disturbed' = disturbed /\ thread[t].pc = "chunks"
    BY <1>4 DEF SweepChunk, AtWork
  <2>3. \A u \in Threads : u # t => thread'[u] = thread[u]
    BY <2>1 DEF Sweeping, Types
  <2>4. thread'[t].ids = thread[t].ids \ batch /\ thread'[t].phase = thread[t].phase
    BY <2>1 DEF Sweeping, Types, Idle
  <2>5. disturbed' \/ \A u \in Threads : u # t => ~AtWork(u)'
    BY <2>2, <2>3 DEF SweepInv, OneSweeps, AtWork
  <2>6. ASSUME ~disturbed', Chosen(t)'
        PROVE  WithIds(thread[t].ids)' \subseteq Victims'
    <3>1. Chosen(t) /\ ~disturbed
      BY <2>2, <2>4, <2>6 DEF Chosen
    <3>2. WithIds(thread[t].ids) \subseteq Victims
      BY <3>1 DEF SweepInv, ChosenAreVictims
    <3>3. PICK es : es = WithIds(batch)
      OBVIOUS
    <3>4. es \subseteq WithIds(thread[t].ids)
      BY <3>3 DEF WithIds
    <3>5. docs' = [e \in Exts |-> IF e \in es THEN NoRow ELSE docs[e]]
      BY <2>1, <3>3 DEF Removed
    <3>6. Victims' = Victims \ es
      BY <3>2, <3>4, <3>5, VictimsGone
    <3>7. WithIds(thread[t].ids)' \subseteq WithIds(thread[t].ids) \ es
      BY <2>4, <3>5 DEF WithIds, Live, Stored, NoRow
    <3> QED
      BY <3>2, <3>6, <3>7
  <2> QED
    BY <2>5, <2>6 DEF SweepInv, OneSweeps, ChosenAreVictims, Chosen, AtWork
<1> QED
  BY <1>1, <1>2, <1>3, <1>4 DEF Sweep

LEMMA SweepInvHolds == Spec => []SweepInv
<1>1. Init => SweepInv
  <2> SUFFICES ASSUME Init PROVE SweepInv
    OBVIOUS
  <2>1. \A t \in Threads : thread[t].pc = "idle"
    BY DEF Init, Idle
  <2> QED
    BY <2>1 DEF SweepInv, OneSweeps, ChosenAreVictims, Chosen, AtWork
<1>2. LifeInv /\ SweepInv /\ [Next]_vars => SweepInv'
  <2> SUFFICES ASSUME LifeInv, SweepInv, [Next]_vars PROVE SweepInv'
    OBVIOUS
  <2>1. Types /\ IdsDistinct
    BY DEF LifeInv
  <2> QED
    BY <2>1, ClientSweeps, RestoreSweeps, RestSweeps, SweepSweeps DEF Next
<1> QED
  BY <1>1, <1>2, LifeInvHolds, PTL DEF Spec

\* The collapse of an owner's respawns that no client write and no other sweep
\* disturbs takes no record with a kept tag, and leaves every owner that had a
\* record one.
THEOREM OwnersAreKept == Spec => OwnersKeptUndisturbed
<1>1. LifeInv /\ SweepInv /\ [Next]_vars
        => [~disturbed => \A t \in Threads : OwnersSpared(t)]_vars
  <2> SUFFICES ASSUME LifeInv, SweepInv, ~disturbed, NEW t \in Threads, SweepChunk(t),
                      thread[t].phase = "owners", NEW e \in Records,
                      docs'[e].body = NoBody, NEW o \in docs[e].tags
               PROVE  /\ e \notin Keepers(o.base)
                      /\ \E f \in Records \ {e} : docs'[f].body # NoBody
                                                  /\ \E p \in docs[f].tags : p.base = o.base
    BY DEF OwnersSpared
  <2>1. PICK batch \in SUBSET thread[t].ids : Removed(WithIds(batch))
    BY DEF SweepChunk
  <2>2. WithIds(batch) \subseteq Victims
    <3>1. WithIds(thread[t].ids) \subseteq Victims
      BY DEF SweepInv, ChosenAreVictims, Chosen, SweepChunk
    <3> QED
      BY <3>1 DEF WithIds
  <2>3. docs' = [f \in Exts |-> IF f \in WithIds(batch) THEN NoRow ELSE docs[f]]
    BY <2>1 DEF Removed
  <2>4. e \in Exts /\ docs[e].body # NoBody /\ docs[e] \in Row
    BY DEF Records, Live, Stored, LifeInv, Types
  <2>5. e \in Victims
    BY <2>2, <2>3, <2>4
  <2>6. o \in Owners /\ o.base \in Bases
    BY <2>4 DEF Row, Bases
  <2>7. e \notin Keepers(o.base)
    BY <2>5, <2>6 DEF Victims
  <2>8. Wearing(o.base, o.n) # {} /\ (o.n # 0 => o.n \in Numbers(o.base))
    BY <2>6 DEF Wearing, Numbers
  <2>9. PICK k : Keepers(o.base) = Wearing(o.base, k) /\ Wearing(o.base, k) # {}
    BY <2>8, OwnerKeeps
  <2>10. PICK f \in Wearing(o.base, k) : TRUE
    BY <2>9
  <2>11. f \in Records /\ f \notin Victims /\ \E p \in docs[f].tags : p.base = o.base
    BY <2>6, <2>9, <2>10 DEF Wearing, Victims
  <2>12. docs'[f].body # NoBody
    BY <2>2, <2>3, <2>11 DEF Records, Live, Stored
  <2> QED
    BY <2>5, <2>7, <2>11, <2>12
<1> QED
  BY <1>1, LifeInvHolds, SweepInvHolds, PTL DEF Spec, OwnersKeptUndisturbed
=============================================================================
