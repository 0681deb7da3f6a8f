-------------------------- MODULE BoundedQueryProofs --------------------------
(* For every corpus, question, limit and set of names: the selection is of   *)
(* the corpus, the closure over identity hypotheses is the least closed set, *)
(* every binder reads open rows near the target, every bucket is a positive  *)
(* sum, and from these the properties of BoundedQuery.                       *)
(*                                                                           *)
(* Inductions are over sets of numbers: an ordering's positions come from    *)
(* counting (Ordering), a function on the numbers from its finite parts      *)
(* (Iterates), and a fact of every number from the least one that breaks it  *)
(* (NatSet).                                                                 *)
(***************************************************************************)
EXTENDS BoundedQuery, Folds, FiniteSetTheorems, TLAPS

LEMMA LeastNat == ASSUME NEW T, T \subseteq Nat, T # {} PROVE \E m \in T : \A n \in T : m <= n
<1>1. PICK m \in T : \A n \in T : ~ <<n, m>> \in OpToRel(<, Nat)
  BY NatLessThanWellFounded, WFMin
<1>2. \A n \in T : ~ (n < m)
  BY <1>1 DEF OpToRel
<1> QED BY <1>2

(* Induction over the numbers, for a set of them. *)
LEMMA NatSet ==
  ASSUME NEW S, 0 \in S, \A n \in Nat : n \in S => n + 1 \in S
  PROVE  Nat \subseteq S
<1> SUFFICES ASSUME Nat \ S # {} PROVE FALSE
  OBVIOUS
<1>1. PICK m \in Nat \ S : \A n \in Nat \ S : m <= n
  BY LeastNat
<1>2. m # 0 /\ m - 1 \in Nat
  BY <1>1
<1> QED BY <1>1, <1>2

LEMMA Ordering ==
  ASSUME NEW S, IsFiniteSet(S), NEW before \in [S -> SUBSET S],
         \A x \in S : x \notin before[x],
         \A x, y \in S : x # y => x \in before[y] \/ y \in before[x],
         \A x, y, z \in S : x \in before[y] /\ y \in before[z] => x \in before[z]
  PROVE  /\ \A n \in 1..Cardinality(S) :
              Ranked(before)[n] \in S /\ Cardinality(before[Ranked(before)[n]]) = n - 1
         /\ Ranked(before) \in Seq(S) /\ Range(Ranked(before)) = S
<1> DEFINE size == Cardinality(S)
           place == [x \in S |-> Cardinality(before[x]) + 1]
<1>1. size \in Nat
  BY FS_CardinalityType
<1>2. \A x \in S : IsFiniteSet(before[x]) /\ Cardinality(before[x]) \in Nat
  BY FS_Subset, FS_CardinalityType
<1>3. \A x \in S : place[x] \in 1..size
  <2> SUFFICES ASSUME NEW x \in S PROVE place[x] \in 1..size
    OBVIOUS
  <2>1. before[x] \in SUBSET S /\ before[x] # S
    OBVIOUS
  <2>2. Cardinality(before[x]) <= size /\ Cardinality(before[x]) # size
    BY <2>1, FS_Subset
  <2> QED BY <1>1, <1>2, <2>2
<1>4. \A x, y \in S : x \in before[y] => place[x] < place[y]
  <2> SUFFICES ASSUME NEW x \in S, NEW y \in S, x \in before[y] PROVE place[x] < place[y]
    OBVIOUS
  <2>1. before[x] \in SUBSET before[y] /\ before[x] # before[y]
    OBVIOUS
  <2>2. Cardinality(before[x]) <= Cardinality(before[y])
        /\ Cardinality(before[x]) # Cardinality(before[y])
    BY <1>2, <2>1, FS_Subset
  <2> QED BY <1>2, <2>2
<1>5. place \in Injection(S, 1..size)
  BY <1>3, <1>4, <1>2 DEF Injection, IsInjective
<1>6. IsFiniteSet(1..size) /\ Cardinality(1..size) = size
  BY <1>1, FS_Interval
<1>7. place \in Surjection(S, 1..size)
  BY <1>5, <1>6, FS_Injection
<1>8. \A n \in 1..size : \E x \in S : Cardinality(before[x]) = n - 1
  <2> SUFFICES ASSUME NEW n \in 1..size PROVE \E x \in S : Cardinality(before[x]) = n - 1
    OBVIOUS
  <2>1. PICK x \in S : place[x] = n
    BY <1>7 DEF Surjection
  <2> QED BY <1>2, <2>1
<1>9. \A n \in 1..size : Ranked(before)[n] \in S /\ Cardinality(before[Ranked(before)[n]]) = n - 1
  BY <1>8 DEF Ranked
<1>10. Ranked(before) \in Seq(S)
  BY <1>1, <1>9 DEF Ranked
<1>11. \A x \in S : \E n \in 1..size : Ranked(before)[n] = x
  <2> SUFFICES ASSUME NEW x \in S PROVE Ranked(before)[place[x]] = x
    BY <1>3
  <2> DEFINE y == Ranked(before)[place[x]]
  <2>1. y \in S /\ place[y] = place[x]
    BY <1>2, <1>3, <1>9
  <2>2. ~(x \in before[y]) /\ ~(y \in before[x])
    BY <2>1, <1>2, <1>4
  <2> QED BY <2>1, <2>2
<1> QED BY <1>9, <1>10, <1>11 DEF Range, Ranked

LEMMA DedupedSeq ==
  ASSUME NEW S, NEW s \in Seq(S)
  PROVE  Deduped(s) \in Seq(S) /\ Range(Deduped(s)) \subseteq Range(s)
<1> DEFINE firsts == {i \in DOMAIN s : \A j \in DOMAIN s : j < i => s[j] # s[i]}
           before == [i \in firsts |-> {j \in firsts : j < i}]
           places == Ranked(before)
<1>1. DOMAIN s = 1..Len(s) /\ Len(s) \in Nat
  OBVIOUS
<1>2. firsts \in SUBSET (1..Len(s)) /\ IsFiniteSet(1..Len(s))
  BY <1>1, FS_Interval
<1>3. IsFiniteSet(firsts) /\ \A i \in firsts : i \in Nat
  BY <1>1, <1>2, FS_Subset
<1>4. before \in [firsts -> SUBSET firsts]
  OBVIOUS
<1>5. /\ \A i \in firsts : i \notin before[i]
      /\ \A i, j \in firsts : i # j => i \in before[j] \/ j \in before[i]
      /\ \A i, j, k \in firsts : i \in before[j] /\ j \in before[k] => i \in before[k]
  BY <1>3
<1> HIDE DEF before
<1>6. places \in Seq(firsts) /\ Range(places) = firsts
  BY <1>3, <1>4, <1>5, Ordering
<1>7. \A n \in DOMAIN places : places[n] \in DOMAIN s
  BY <1>1, <1>2, <1>6
<1>8. Deduped(s) = [n \in DOMAIN places |-> s[places[n]]]
  BY DEF Deduped, before
<1>9. Deduped(s) \in Seq(S)
  <2>1. DOMAIN places = 1..Len(places) /\ Len(places) \in Nat
    BY <1>6
  <2>2. \A n \in 1..Len(places) : s[places[n]] \in S
    BY <1>1, <1>7, <2>1
  <2> HIDE DEF places
  <2> QED BY <1>8, <2>1, <2>2
<1> QED BY <1>7, <1>8, <1>9 DEF Range

LEMMA PrefixSeq ==
  ASSUME NEW S, NEW s \in Seq(S), NEW n \in Nat
  PROVE  Prefix(s, n) \in Seq(S) /\ Range(Prefix(s, n)) \subseteq Range(s)
<1> DEFINE m == IF n <= Len(s) THEN n ELSE Len(s)
<1>1. Len(s) \in Nat /\ m \in Nat /\ m <= Len(s)
  OBVIOUS
<1>2. Min({n, Len(s)}) = m
  BY <1>1 DEF Min
<1> HIDE DEF m
<1>3. Prefix(s, n) = SubSeq(s, 1, m)
  BY <1>2 DEF Prefix
<1>4. /\ SubSeq(s, 1, m) \in Seq(S) /\ DOMAIN SubSeq(s, 1, m) = 1..m
      /\ \A i \in 1..m : SubSeq(s, 1, m)[i] = s[i] /\ i \in DOMAIN s
  BY <1>1
<1> QED BY <1>3, <1>4 DEF Range
-----------------------------------------------------------------------------
(* What a corpus is. *)
LEMMA CorpusSeq ==
  ASSUME corpus \in Corpora
  PROVE  /\ Len(corpus) \in Nat /\ DOMAIN corpus = 1..Len(corpus)
         /\ \A d \in DOMAIN corpus :
              Len(corpus[d]) \in Nat /\ DOMAIN corpus[d] = 1..Len(corpus[d])
BY BoundedQueryAssumption

LEMMA Places ==
  ASSUME corpus \in Corpora
  PROVE  \A p : p \in Everything <=>
           p = <<p[1], p[2]>> /\ p[1] \in DOMAIN corpus /\ p[2] \in DOMAIN corpus[p[1]]
BY DEF Everything, Sentences

LEMMA EverythingFinite ==
  ASSUME corpus \in Corpora
  PROVE  IsFiniteSet(Everything)
<1> DEFINE longest == {Len(corpus[d]) : d \in DOMAIN corpus}
<1>1. \A d \in DOMAIN corpus : IsFiniteSet(Sentences(d))
  <2> SUFFICES ASSUME NEW d \in DOMAIN corpus PROVE IsFiniteSet(Sentences(d))
    OBVIOUS
  <2> DEFINE f == [i \in DOMAIN corpus[d] |-> <<d, i>>]
  <2>1. IsFiniteSet(DOMAIN corpus[d])
    BY CorpusSeq, FS_Interval
  <2>2. f \in Surjection(DOMAIN corpus[d], Sentences(d))
    BY DEF Surjection, Sentences
  <2> QED BY <2>1, <2>2, FS_Surjection
<1> DEFINE all == {Sentences(d) : d \in DOMAIN corpus}
           g == [d \in DOMAIN corpus |-> Sentences(d)]
<1>2. IsFiniteSet(DOMAIN corpus)
  BY CorpusSeq, FS_Interval
<1>3. g \in Surjection(DOMAIN corpus, all)
  BY DEF Surjection
<1>4. IsFiniteSet(all) /\ \A T \in all : IsFiniteSet(T)
  BY <1>1, <1>2, <1>3, FS_Surjection
<1> QED BY <1>4, FS_UNION DEF Everything

LEMMA PathOrdered ==
  ASSUME corpus \in Corpora
  PROVE  /\ \A p \in Everything : ~PathOrder(p, p)
         /\ \A p, r \in Everything : p # r => PathOrder(p, r) \/ PathOrder(r, p)
         /\ \A p, r, s \in Everything : PathOrder(p, r) /\ PathOrder(r, s) => PathOrder(p, s)
<1>1. \A p \in Everything : p = <<p[1], p[2]>> /\ p[1] \in Nat /\ p[2] \in Nat
  BY Places, CorpusSeq
<1> QED BY <1>1 DEF PathOrder

(* _rank_scope's scores are numbers. *)
LEMMA Scores ==
  ASSUME NEW T \in SUBSET Names
  PROVE  /\ \A d : DocHits(T, d) \in Nat /\ DocScore(T, d) \in Nat
         /\ \A p : ChunkScore(T, p) \in Nat
<1>1. \A X : IsFiniteSet(T \cap X) /\ Cardinality(T \cap X) \in Nat
  <2> SUFFICES ASSUME NEW X PROVE IsFiniteSet(T \cap X) /\ Cardinality(T \cap X) \in Nat
    OBVIOUS
  <2>1. T \cap X \in SUBSET Names /\ IsFiniteSet(Names)
    BY BoundedQueryAssumption
  <2> QED BY <2>1, FS_Subset, FS_CardinalityType
<1>2. \A d : DocHits(T, d) \in Nat
  BY <1>1 DEF DocHits
<1>3. \A d : DocScore(T, d) \in Nat
  <2> SUFFICES ASSUME NEW d PROVE DocScore(T, d) \in Nat
    OBVIOUS
  <2>1. DocHits(T, d) \in Nat
    BY <1>2
  <2> QED BY <2>1 DEF DocScore
<1>4. \A p : ChunkScore(T, p) \in Nat
  <2> SUFFICES ASSUME NEW p PROVE ChunkScore(T, p) \in Nat
    OBVIOUS
  <2>1. Cardinality(T \cap Named(Sentence(p))) \in Nat
    BY <1>1
  <2> QED BY <2>1 DEF ChunkScore
<1> QED BY <1>2, <1>3, <1>4

LEMMA DocOrdered ==
  ASSUME corpus \in Corpora, NEW T \in SUBSET Names
  PROVE  /\ \A d \in DOMAIN corpus : ~DocBefore(T, d, d)
         /\ \A d, e \in DOMAIN corpus : d # e => DocBefore(T, d, e) \/ DocBefore(T, e, d)
         /\ \A d, e, f \in DOMAIN corpus :
              DocBefore(T, d, e) /\ DocBefore(T, e, f) => DocBefore(T, d, f)
<1>1. \A d \in DOMAIN corpus : d \in Nat /\ DocScore(T, d) \in Nat
  <2>1. \A d \in DOMAIN corpus : DocScore(T, d) \in Nat
    BY Scores
  <2> QED BY <2>1, CorpusSeq
<1> QED BY <1>1 DEF DocBefore

LEMMA ChunkOrdered ==
  ASSUME corpus \in Corpora, NEW T \in SUBSET Names
  PROVE  /\ \A p \in Everything : ~ChunkBefore(T, p, p)
         /\ \A p, r \in Everything : p # r => ChunkBefore(T, p, r) \/ ChunkBefore(T, r, p)
         /\ \A p, r, s \in Everything :
              ChunkBefore(T, p, r) /\ ChunkBefore(T, r, s) => ChunkBefore(T, p, s)
<1>1. \A p \in Everything : ChunkScore(T, p) \in Nat
  BY Scores
<1> QED BY <1>1, PathOrdered DEF ChunkBefore

(* The documents and sentences selected are of the corpus. *)
LEMMA RankedDocsSeq ==
  ASSUME corpus \in Corpora, NEW T \in SUBSET Names
  PROVE  RankedDocs(T) \in Seq(DOMAIN corpus)
<1> DEFINE hit == {d \in DOMAIN corpus : T \subseteq UNION {Named(Sentence(p)) : p \in Sentences(d)}}
           before == [d \in hit |-> {e \in hit : DocBefore(T, e, d)}]
<1>1. IsFiniteSet(DOMAIN corpus) /\ hit \in SUBSET DOMAIN corpus
  BY CorpusSeq, FS_Interval
<1>2. IsFiniteSet(hit)
  BY <1>1, FS_Subset
<1>3. before \in [hit -> SUBSET hit]
  OBVIOUS
<1>4. /\ \A i \in hit : i \notin before[i]
      /\ \A i, j \in hit : i # j => i \in before[j] \/ j \in before[i]
      /\ \A i, j, k \in hit : i \in before[j] /\ j \in before[k] => i \in before[k]
  BY <1>1, DocOrdered
<1>5. RankedDocs(T) = Prefix(Ranked(before), DocLimit)
  BY DEF RankedDocs
<1> HIDE DEF before, hit
<1>6. Ranked(before) \in Seq(hit)
  BY <1>2, <1>3, <1>4, Ordering
<1>7. Ranked(before) \in Seq(DOMAIN corpus)
  BY <1>1, <1>6
<1> QED BY <1>5, <1>7, PrefixSeq, BoundedQueryAssumption

LEMMA AllChunksSeq ==
  ASSUME corpus \in Corpora
  PROVE  AllChunks \in Seq(Everything) /\ Range(AllChunks) = Everything
<1> DEFINE before == [p \in Everything |-> {r \in Everything : PathOrder(r, p)}]
<1>1. before \in [Everything -> SUBSET Everything]
  OBVIOUS
<1>2. /\ \A i \in Everything : i \notin before[i]
      /\ \A i, j \in Everything : i # j => i \in before[j] \/ j \in before[i]
      /\ \A i, j, k \in Everything : i \in before[j] /\ j \in before[k] => i \in before[k]
  BY PathOrdered
<1>3. AllChunks = Ranked(before)
  BY DEF AllChunks
<1> HIDE DEF before
<1> QED BY <1>1, <1>2, <1>3, EverythingFinite, Ordering
-----------------------------------------------------------------------------
(* The best of some sentences. *)
LEMMA LeadIn ==
  ASSUME corpus \in Corpora, NEW T \in SUBSET Names, NEW P \in SUBSET Everything, P # {}
  PROVE  Lead(T, P) \in P
<1> DEFINE before == [p \in P |-> {r \in P : ChunkBefore(T, r, p)}]
           best == Ranked(before)[1]
<1>1. IsFiniteSet(P) /\ Cardinality(P) \in Nat /\ Cardinality(P) # 0
  BY EverythingFinite, FS_Subset, FS_CardinalityType, FS_EmptySet
<1>2. before \in [P -> SUBSET P]
  OBVIOUS
<1>3. /\ \A i \in P : i \notin before[i]
      /\ \A i, j \in P : i # j => i \in before[j] \/ j \in before[i]
      /\ \A i, j, k \in P : i \in before[j] /\ j \in before[k] => i \in before[k]
  BY ChunkOrdered
<1>4. best \in P /\ Cardinality(before[best]) = 0
  <2> HIDE DEF before
  <2>1. \A n \in 1..Cardinality(P) :
          Ranked(before)[n] \in P /\ Cardinality(before[Ranked(before)[n]]) = n - 1
    BY <1>1, <1>2, <1>3, Ordering
  <2>2. 1 \in 1..Cardinality(P)
    BY <1>1
  <2> QED BY <2>1, <2>2
<1>5. before[best] = {}
  <2>1. IsFiniteSet(before[best])
    BY <1>1, <1>2, <1>4, FS_Subset
  <2> QED BY <1>4, <2>1, FS_EmptySet
<1>6. \A r \in P \ {best} : ChunkBefore(T, best, r)
  BY <1>3, <1>4, <1>5
<1> QED BY <1>4, <1>6 DEF Lead

LEMMA RankedChunksSeq ==
  ASSUME corpus \in Corpora, NEW T \in SUBSET Names, NEW selected
  PROVE  RankedChunks(T, selected) \in Seq(Everything)
<1> DEFINE scored == {p \in Everything : p[1] \in selected /\ ChunkScore(T, p) > 0}
           near(p) == {r \in scored : r[1] = p[1] /\ r[2] \in (p[2] - Window)..(p[2] + Window)}
           reached == {p \in Everything : near(p) # {}}
           lead == [p \in reached |-> Lead(T, near(p))]
           ahead(p, r) ==
             ChunkBefore(T, lead[p], lead[r]) \/ (lead[p] = lead[r] /\ p[2] < r[2])
           before == [p \in reached |-> {r \in reached : ahead(r, p)}]
<1>1. RankedChunks(T, selected) = Prefix(Ranked(before), ChunkLimit)
  BY DEF RankedChunks
<1>2. IsFiniteSet(reached) /\ reached \subseteq Everything
  BY EverythingFinite, FS_Subset
<1>3. \A p \in reached : lead[p] \in Everything /\ lead[p][1] = p[1]
  <2> SUFFICES ASSUME NEW p \in reached PROVE lead[p] \in Everything /\ lead[p][1] = p[1]
    OBVIOUS
  <2>1. near(p) \in SUBSET Everything /\ near(p) # {} /\ lead[p] = Lead(T, near(p))
    OBVIOUS
  <2>2. lead[p] \in near(p)
    <3> HIDE DEF near
    <3> QED BY <2>1, LeadIn
  <2> QED BY <2>2
<1>4. \A p \in reached : p = <<p[1], p[2]>> /\ p[2] \in Nat
  BY Places, CorpusSeq
<1>5. before \in [reached -> SUBSET reached]
  OBVIOUS
<1> HIDE DEF lead, near, scored, reached
<1>6. /\ \A i \in reached : ~ahead(i, i)
      /\ \A i, j \in reached : i # j => ahead(i, j) \/ ahead(j, i)
      /\ \A i, j, k \in reached : ahead(i, j) /\ ahead(j, k) => ahead(i, k)
  <2>1. \A i \in reached : ~ahead(i, i)
    BY <1>3, <1>4, ChunkOrdered
  <2>2. \A i, j \in reached : i # j => ahead(i, j) \/ ahead(j, i)
    <3> SUFFICES ASSUME NEW i \in reached, NEW j \in reached, i # j
                 PROVE  ahead(i, j) \/ ahead(j, i)
      OBVIOUS
    <3>1. CASE lead[i] # lead[j]
      BY <3>1, <1>3, ChunkOrdered
    <3>2. CASE lead[i] = lead[j]
      <4>1. i[1] = j[1] /\ i[2] # j[2]
        BY <3>2, <1>3, <1>4
      <4> QED BY <3>2, <4>1, <1>4
    <3> QED BY <3>1, <3>2
  <2>3. \A i, j, k \in reached : ahead(i, j) /\ ahead(j, k) => ahead(i, k)
    <3> SUFFICES ASSUME NEW i \in reached, NEW j \in reached, NEW k \in reached,
                        ahead(i, j), ahead(j, k)
                 PROVE  ahead(i, k)
      OBVIOUS
    <3>1. i[2] \in Nat /\ j[2] \in Nat /\ k[2] \in Nat
      BY <1>4
    <3>2. lead[i] \in Everything /\ lead[j] \in Everything /\ lead[k] \in Everything
      BY <1>3
    <3> QED BY <3>1, <3>2, ChunkOrdered
  <2> QED BY <2>1, <2>2, <2>3
<1>7. /\ \A i \in reached : i \notin before[i]
      /\ \A i, j \in reached : i # j => i \in before[j] \/ j \in before[i]
      /\ \A i, j, k \in reached : i \in before[j] /\ j \in before[k] => i \in before[k]
  <2> HIDE DEF ahead
  <2> QED BY <1>6
<1> HIDE DEF before, ahead
<1>8. Ranked(before) \in Seq(reached)
  BY <1>2, <1>5, <1>7, Ordering
<1>9. Ranked(before) \in Seq(Everything)
  BY <1>2, <1>8
<1> QED BY <1>1, <1>9, PrefixSeq, BoundedQueryAssumption
-----------------------------------------------------------------------------
(* A function on the numbers that is given by its first value and by its     *)
(* next one exists.                                                          *)
LEMMA Iterates ==
  ASSUME NEW X, NEW first \in X, NEW next \in [X -> X]
  PROVE  \E f \in [Nat -> X] : f[0] = first /\ \A n \in Nat : f[n + 1] = next[f[n]]
<1> DEFINE Good(f, n) == /\ f \in [0..n -> X] /\ f[0] = first
                         /\ \A i \in 0..n : i < n => f[i + 1] = next[f[i]]
           Some(n) == \E f : Good(f, n)
<1>1. \A n \in Nat : Some(n)
  <2> DEFINE S == {n \in Nat : Some(n)}
  <2>1. 0 \in S
    <3>1. Good([i \in 0..0 |-> first], 0)
      OBVIOUS
    <3> QED BY <3>1
  <2>2. ASSUME NEW n \in Nat, n \in S PROVE n + 1 \in S
    <3>1. PICK f : Good(f, n)
      BY <2>2
    <3> DEFINE g == [i \in 0..(n + 1) |-> IF i = n + 1 THEN next[f[n]] ELSE f[i]]
    <3>2. g \in [0..(n + 1) -> X] /\ g[0] = first
      BY <3>1
    <3>3. ASSUME NEW i \in 0..(n + 1), i < n + 1 PROVE g[i + 1] = next[g[i]]
      <4>1. i \in 0..n /\ g[i] = f[i]
        BY <3>3
      <4>2. CASE i = n
        BY <4>1, <4>2
      <4>3. CASE i # n
        BY <3>1, <4>1, <4>3
      <4> QED BY <4>2, <4>3
    <3>4. Good(g, n + 1)
      BY <3>2, <3>3
    <3> QED BY <3>4
  <2> HIDE DEF Some
  <2>3. Nat \subseteq S
    BY <2>1, <2>2, NatSet
  <2> QED BY <2>3
<1>2. ASSUME NEW f, NEW g, NEW n \in Nat, Good(f, n), Good(g, n + 1) PROVE f[n] = g[n]
  <2> DEFINE S == {i \in Nat : i <= n => f[i] = g[i]}
  <2>1. 0 \in S
    BY <1>2
  <2>2. ASSUME NEW i \in Nat, i \in S PROVE i + 1 \in S
    BY <1>2, <2>2
  <2>3. Nat \subseteq S
    <3> HIDE DEF S
    <3> QED BY <2>1, <2>2, NatSet
  <2> QED BY <2>3
<1> DEFINE part(n) == CHOOSE f : Good(f, n)
           all == [n \in Nat |-> part(n)[n]]
<1>3. \A n \in Nat : Good(part(n), n)
  BY <1>1
<1> HIDE DEF part
<1>4. all \in [Nat -> X] /\ all[0] = first
  BY <1>3
<1>5. ASSUME NEW n \in Nat PROVE all[n + 1] = next[all[n]]
  <2>1. part(n)[n] = part(n + 1)[n]
    <3>1. Good(part(n), n) /\ Good(part(n + 1), n + 1)
      BY <1>3
    <3> HIDE DEF Good
    <3> QED BY <1>2, <3>1
  <2>2. part(n + 1)[n + 1] = next[part(n + 1)[n]]
    BY <1>3
  <2> QED BY <2>1, <2>2
<1> QED BY <1>4, <1>5
-----------------------------------------------------------------------------
Onward(N, links) == UNION {Ends(Sentence(p)) : p \in Touching(N, links)}

LEMMA LinkedIs ==
  ASSUME NEW N \in SUBSET Names, NEW links
  PROVE  /\ Linked(N, links) \in [Nat -> SUBSET Names]
         /\ Linked(N, links)[0] = N
         /\ \A n \in Nat :
              Linked(N, links)[n + 1] =
                Linked(N, links)[n] \cup Onward(Linked(N, links)[n], links)
<1> DEFINE next == [M \in SUBSET Names |-> M \cup Onward(M, links)]
           Is(f) == f = [n \in Nat |-> IF n = 0 THEN N ELSE f[n - 1] \cup Onward(f[n - 1], links)]
<1>1. next \in [SUBSET Names -> SUBSET Names]
  BY DEF Onward, Ends
<1>2. PICK f \in [Nat -> SUBSET Names] :
        f[0] = N /\ \A n \in Nat : f[n + 1] = next[f[n]]
  <2> DEFINE X == SUBSET Names
  <2>1. N \in X /\ next \in [X -> X]
    BY <1>1
  <2> HIDE DEF next, X
  <2>2. \E f \in [Nat -> X] : f[0] = N /\ \A n \in Nat : f[n + 1] = next[f[n]]
    BY <2>1, Iterates
  <2> QED BY <2>2 DEF X
<1>3. Is(f)
  <2>1. ASSUME NEW n \in Nat, n # 0 PROVE f[n] = f[n - 1] \cup Onward(f[n - 1], links)
    <3>1. n - 1 \in Nat /\ (n - 1) + 1 = n
      BY <2>1
    <3> QED BY <1>2, <3>1
  <2> QED BY <1>2, <2>1
<1>4. Linked(N, links) = CHOOSE g : Is(g)
  BY DEF Linked, Onward
<1>5. Is(Linked(N, links))
  BY <1>3, <1>4
<1> DEFINE g == Linked(N, links)
<1>6. /\ g[0] = N /\ \A n \in Nat : n # 0 => g[n] = g[n - 1] \cup Onward(g[n - 1], links)
      /\ DOMAIN g = Nat /\ g = [n \in Nat |-> g[n]]
  BY <1>5
<1> HIDE DEF g, Is
<1>7. ASSUME NEW n \in Nat PROVE g[n + 1] = g[n] \cup Onward(g[n], links)
  <2>1. n + 1 \in Nat /\ n + 1 # 0 /\ (n + 1) - 1 = n
    OBVIOUS
  <2> QED BY <1>6, <2>1
<1>8. \A n \in Nat : g[n] \in SUBSET Names
  <2> DEFINE S == {n \in Nat : g[n] \in SUBSET Names}
  <2>1. 0 \in S
    BY <1>6
  <2>2. ASSUME NEW n \in Nat, n \in S PROVE n + 1 \in S
    BY <1>7, <2>2 DEF Onward, Ends
  <2> HIDE DEF S
  <2>3. Nat \subseteq S
    BY <2>1, <2>2, NatSet
  <2> QED BY <2>3 DEF S
<1> QED BY <1>6, <1>7, <1>8 DEF g
-----------------------------------------------------------------------------
(* _fetch_identity_hypotheses follows the links to the end: what it reaches  *)
(* is the least set that holds the names it starts from and leads nowhere    *)
(* else.                                                                     *)
LEMMA OnwardGrows ==
  ASSUME NEW N, NEW M, N \subseteq M, NEW links, NEW more, links \subseteq more
  PROVE  Onward(N, links) \subseteq Onward(M, more)
BY DEF Onward, Touching

LEMMA ClosureNames ==
  ASSUME NEW N \in SUBSET Names, NEW links
  PROVE  Closure(N, links) \in SUBSET Names
<1>1. Cardinality(Names) \in Nat
  BY BoundedQueryAssumption, FS_CardinalityType
<1> QED BY <1>1, LinkedIs DEF Closure

LEMMA ClosureFrom ==
  ASSUME NEW N \in SUBSET Names, NEW links
  PROVE  N \subseteq Closure(N, links)
<1> DEFINE g == Linked(N, links)
           S == {n \in Nat : N \subseteq g[n]}
<1>1. g[0] = N /\ \A n \in Nat : g[n + 1] = g[n] \cup Onward(g[n], links)
  BY LinkedIs
<1> HIDE DEF g
<1>2. 0 \in S
  BY <1>1
<1>3. ASSUME NEW n \in Nat, n \in S PROVE n + 1 \in S
  BY <1>1, <1>3
<1>4. Nat \subseteq S
  <2> HIDE DEF S
  <2> QED BY <1>2, <1>3, NatSet
<1>5. Cardinality(Names) \in Nat
  BY BoundedQueryAssumption, FS_CardinalityType
<1> QED BY <1>4, <1>5 DEF Closure, g

LEMMA ClosureLeast ==
  ASSUME NEW N \in SUBSET Names, NEW links, NEW X, N \subseteq X, Onward(X, links) \subseteq X
  PROVE  Closure(N, links) \subseteq X
<1> DEFINE g == Linked(N, links)
           S == {n \in Nat : g[n] \subseteq X}
<1>1. g[0] = N /\ \A n \in Nat : g[n + 1] = g[n] \cup Onward(g[n], links)
  BY LinkedIs
<1> HIDE DEF g
<1>2. 0 \in S
  BY <1>1
<1>3. ASSUME NEW n \in Nat, n \in S PROVE n + 1 \in S
  <2>1. Onward(g[n], links) \subseteq Onward(X, links)
    BY <1>3, OnwardGrows
  <2> QED BY <1>1, <1>3, <2>1
<1>4. Nat \subseteq S
  <2> HIDE DEF S
  <2> QED BY <1>2, <1>3, NatSet
<1>5. Cardinality(Names) \in Nat
  BY BoundedQueryAssumption, FS_CardinalityType
<1> QED BY <1>4, <1>5 DEF Closure, g

(* Each step reaches a further name or none is left, and there are no more   *)
(* steps to take than there are names.                                       *)
LEMMA ClosureClosed ==
  ASSUME NEW N \in SUBSET Names, NEW links
  PROVE  Onward(Closure(N, links), links) \subseteq Closure(N, links)
<1> DEFINE g == Linked(N, links)
           still(n) == Onward(g[n], links) \subseteq g[n]
           S == {n \in Nat : still(n) \/ Cardinality(g[n]) >= n}
<1>1. /\ \A n \in Nat : g[n] \in SUBSET Names
      /\ \A n \in Nat : g[n + 1] = g[n] \cup Onward(g[n], links)
  BY LinkedIs
<1> HIDE DEF g
<1>2. \A n \in Nat : IsFiniteSet(g[n]) /\ Cardinality(g[n]) \in Nat
  BY <1>1, BoundedQueryAssumption, FS_Subset, FS_CardinalityType
<1>3. 0 \in S
  BY <1>2
<1>4. ASSUME NEW n \in Nat, n \in S PROVE n + 1 \in S
  <2>1. CASE still(n)
    <3>1. g[n + 1] = g[n]
      BY <1>1, <2>1
    <3> QED BY <2>1, <3>1
  <2>2. CASE ~still(n)
    <3>1. g[n] \in SUBSET g[n + 1] /\ g[n] # g[n + 1]
      BY <1>1, <2>2
    <3>2. Cardinality(g[n]) <= Cardinality(g[n + 1])
          /\ Cardinality(g[n]) # Cardinality(g[n + 1])
      BY <1>2, <3>1, FS_Subset
    <3>3. Cardinality(g[n + 1]) >= n + 1
      BY <1>2, <1>4, <2>2, <3>2
    <3> QED BY <3>3
  <2> QED BY <2>1, <2>2
<1>5. Nat \subseteq S
  <2> HIDE DEF S
  <2> QED BY <1>3, <1>4, NatSet
<1> DEFINE last == Cardinality(Names)
<1>6. last \in Nat
  BY BoundedQueryAssumption, FS_CardinalityType
<1>7. CASE still(last)
  BY <1>7 DEF Closure, g
<1>8. CASE ~still(last)
  <2>1. Cardinality(g[last]) >= last
    BY <1>5, <1>6, <1>8
  <2>2. Cardinality(g[last]) <= last /\ (Cardinality(g[last]) = last => g[last] = Names)
    BY <1>1, <1>6, BoundedQueryAssumption, FS_Subset
  <2>3. g[last] = Names
    BY <1>2, <1>6, <2>1, <2>2
  <2>4. still(last)
    BY <2>3 DEF Onward, Ends
  <2> QED BY <1>8, <2>4
<1> QED BY <1>7, <1>8
-----------------------------------------------------------------------------
(* What is loaded is of the corpus. *)
LEMMA LoadIn ==
  ASSUME NEW ds \in Seq(DOMAIN corpus), NEW cs \in Seq(Everything)
  PROVE  Load(ds, cs) \subseteq Everything
<1>1. Range(cs) \subseteq Everything /\ Range(ds) \subseteq DOMAIN corpus
  BY DEF Range
<1>2. IdentityScope(ds, cs) \subseteq Everything
  BY <1>1 DEF IdentityScope, Everything
<1> QED BY <1>1, <1>2 DEF Load, Touching

Selected ==
  docs \in Seq(DOMAIN corpus) /\ chunks \in Seq(Everything) /\ loaded \subseteq Everything

LEMMA SelectedInit == Init => TypeOK /\ Selected
<1> SUFFICES ASSUME Init PROVE TypeOK /\ Selected
  OBVIOUS
<1>1. docs \in Seq(DOMAIN corpus) /\ chunks \in Seq(Everything)
  BY DEF Init
<1> QED BY <1>1, BoundedQueryAssumption DEF Init, TypeOK, Selected, Range

(* What terms and documents the identity hypotheses add. *)
LEMMA LinkedTerms ==
  ASSUME TypeOK, Selected
  PROVE  IdentityTerms \in SUBSET Names /\ BindingTerms \in SUBSET Names
         /\ IdentityEvidence \subseteq Everything
<1>1. IdentityTerms \in SUBSET Names
  <2>1. Starts \in SUBSET Names
    <3>1. EdgeNames \subseteq Names
      BY DEF EdgeNames, Ends
    <3>2. \A t \in terms : StartsFrom(t) \subseteq Names
      BY <3>1 DEF TypeOK, StartsFrom
    <3> QED BY <3>2 DEF Starts
  <2> QED BY <2>1, ClosureNames DEF IdentityTerms
<1>2. Followed(loaded) \subseteq Everything
  BY DEF Selected, Followed
<1> QED BY <1>1, <1>2 DEF BindingTerms, IdentityEvidence

LEMMA SelectedStep == TypeOK /\ Selected /\ [Next]_vars => (TypeOK /\ Selected)'
<1> SUFFICES ASSUME TypeOK, Selected, [Next]_vars PROVE TypeOK' /\ Selected'
  OBVIOUS
<1>1. /\ UNCHANGED asked /\ Everything' = Everything /\ (DOMAIN corpus)' = DOMAIN corpus
      /\ corpus \in Corpora
  BY DEF Next, vars, Rank, RankAll, ExpandDone, Expand, Binding, Decide, asked, Everything,
         Sentences, TypeOK
<1>2. ASSUME NEW ds \in Seq(DOMAIN corpus), NEW cs \in Seq(Everything), docs' = ds, chunks' = cs,
             loaded' = Load(ds, cs)
      PROVE  /\ Selected' /\ Range(docs)' \subseteq DOMAIN corpus
             /\ Range(chunks)' \subseteq Everything
  BY <1>1, <1>2, LoadIn DEF Selected, Range
<1>3. CASE Rank
  <2>1. RankedDocs(terms) \in Seq(DOMAIN corpus)
        /\ RankedChunks(terms, Range(RankedDocs(terms))) \in Seq(Everything)
    BY <1>1, RankedDocsSeq, RankedChunksSeq DEF TypeOK
  <2> QED BY <1>1, <1>2, <1>3, <2>1 DEF Rank, TypeOK, asked
<1>4. CASE RankAll
  <2>1. AllDocs \in Seq(DOMAIN corpus) /\ AllChunks \in Seq(Everything)
    BY <1>1, CorpusSeq, AllChunksSeq DEF AllDocs
  <2> QED BY <1>1, <1>2, <1>4, <2>1 DEF RankAll, TypeOK, asked
<1>5. CASE ExpandDone
  BY <1>1, <1>5, LinkedTerms DEF ExpandDone, TypeOK, Selected, asked, scope, Range
<1>6. CASE Expand
  <2> DEFINE more == RankedDocs(BindingTerms)
             ds == Prefix(Deduped(more \o docs), DocLimit)
             cs == Prefix(Deduped(RankedChunks(BindingTerms, Range(more)) \o chunks), ChunkLimit)
  <2>1. BindingTerms \in SUBSET Names /\ IdentityEvidence \subseteq Everything
    BY LinkedTerms
  <2>2. more \in Seq(DOMAIN corpus) /\ RankedChunks(BindingTerms, Range(more)) \in Seq(Everything)
    BY <1>1, <2>1, RankedDocsSeq, RankedChunksSeq
  <2>3. more \o docs \in Seq(DOMAIN corpus)
        /\ RankedChunks(BindingTerms, Range(more)) \o chunks \in Seq(Everything)
    BY <2>2 DEF Selected
  <2>4. ds \in Seq(DOMAIN corpus) /\ cs \in Seq(Everything)
    BY <2>3, DedupedSeq, PrefixSeq, BoundedQueryAssumption
  <2>5. docs' = ds /\ chunks' = cs
    BY <1>6 DEF Expand
  <2> HIDE DEF ds, cs, more
  <2>6. Selected' /\ Range(docs)' \subseteq DOMAIN corpus /\ Range(chunks)' \subseteq Everything
    <3>1. CASE scope' = scope
      BY <1>1, <1>6, <3>1 DEF Expand, Selected, scope, TypeOK, Range
    <3>2. CASE scope' # scope
      <4>1. loaded' = Load(ds, cs)
        BY <1>6, <2>5, <3>2 DEF Expand
      <4> QED BY <1>2, <2>4, <2>5, <4>1
    <3> QED BY <3>1, <3>2
  <2>7. rounds' \in Nat /\ pc' \in {"bind", "expand"}
    BY <1>6 DEF Expand, TypeOK
  <2>8. terms' \subseteq Names /\ support' \subseteq Everything
    BY <1>6, <2>1 DEF Expand, TypeOK
  <2> QED BY <1>1, <2>6, <2>7, <2>8 DEF TypeOK, asked
<1>7. CASE Binding
  BY <1>1, <1>7 DEF Binding, TypeOK, Selected, asked, scope, Range
<1>8. CASE Decide
  <2>1. UNCHANGED <<asked, scope, loaded, terms, support, rounds, candidates>> /\ pc' = "done"
    BY <1>8 DEF Decide
  <2> QED BY <1>1, <2>1 DEF TypeOK, Selected, asked, scope, Range
<1>9. CASE UNCHANGED vars
  BY <1>1, <1>9 DEF vars, TypeOK, Selected, asked, scope, Range
<1> QED BY <1>3, <1>4, <1>5, <1>6, <1>7, <1>8, <1>9 DEF Next
-----------------------------------------------------------------------------
(* What _context_accessible lets pass, no requirement is needed for that is  *)
(* not there.                                                                *)
LEMMA AccessibleAdmits ==
  ASSUME NEW s, Accessible(s.chain, q)
  PROVE  Admits(s)
<1> SUFFICES ASSUME NEW i \in DOMAIN s.chain
             PROVE  LET required == q.requirements \cap Words(s.chain[i]) # {}
                        kind == s.chain[i].kind
                    IN /\ kind = "drs:hypothetical" => required
                       /\ kind = "modality:reported" => required \/ RelationRequests(s.chain)
                       /\ kind \in {"drs:negated", "polarity:negative"} => required \/ WantsNegative(q)
  BY DEF Admits
<1>1. KindAccessible(s.chain[i], s.chain, q)
  <2>1. s.chain # <<>>
    OBVIOUS
  <2> QED BY <2>1 DEF Accessible
<1> QED BY <1>1 DEF KindAccessible, Polarities, Modalities, Boxes, Words

LEMMA PlainAdmits ==
  ASSUME NEW s, Plain(s.chain)
  PROVE  Admits(s)
BY DEF Plain, Kinds, Admits

(* The links that may be followed to the target. *)
Links == {p \in Everything : Equates(p)}

LEMMA FollowedAreLinks ==
  ASSUME Selected
  PROVE  Followed(loaded) \subseteq Links
<1> SUFFICES ASSUME NEW p \in Followed(loaded) PROVE p \in Links
  OBVIOUS
<1> DEFINE s == Sentence(p)
<1>1. p \in Everything /\ s.kind = "same" /\ s.fits /\ s.positive /\ LinkAccessible(s.chain, q)
  BY DEF Followed, Selected
<1> HIDE DEF s
<1>2. Plain(s.chain) \/ Accessible(s.chain, q)
  BY <1>1 DEF LinkAccessible
<1>3. Admits(s)
  BY <1>2, AccessibleAdmits, PlainAdmits
<1> QED BY <1>1, <1>3 DEF Links, Equates, s

LEMMA LinkedStep ==
  TypeOK /\ Selected /\ OnlyLinkedNames /\ [Next]_vars => OnlyLinkedNames'
<1> SUFFICES ASSUME TypeOK, Selected, OnlyLinkedNames, [Next]_vars PROVE OnlyLinkedNames'
  OBVIOUS
<1>1. UNCHANGED asked /\ terms' \subseteq terms \cup BindingTerms
  BY DEF Next, vars, Rank, RankAll, ExpandDone, Expand, Binding, Decide
<1>2. terms' \cap Pronouns \subseteq {q'.target}
  BY <1>1 DEF OnlyLinkedNames, BindingTerms, asked
<1>3. ASSUME NEW N \in SUBSET Names, Reaches(N)' PROVE terms' \subseteq N
  <2>1. Reaches(N)
    BY <1>1, <1>3 DEF asked, Reaches, Everything, Sentences, Equates, Holds, Admits, WantsNegative,
                      Sentence
  <2>2. terms \subseteq N /\ terms \subseteq Names
    BY <2>1 DEF OnlyLinkedNames, TypeOK
  <2>3. Starts \subseteq N
    <3> SUFFICES ASSUME NEW t \in terms, NEW n \in StartsFrom(t) PROVE n \in N
      BY DEF Starts
    <3>1. CASE n = t
      BY <2>2, <3>1
    <3>2. CASE n \in EdgeNames /\ t \in Within[n]
      <4>1. PICK p \in Everything : Holds(p, n, t)
        BY <3>2 DEF EdgeNames, Holds, Selected
      <4>2. t \in N \ (Pronouns \ {q.target}) /\ n \in Names
        BY <2>2, <3>2 DEF OnlyLinkedNames, EdgeNames, Ends
      <4> QED BY <2>1, <4>1, <4>2 DEF Reaches
    <3> QED BY <3>1, <3>2 DEF StartsFrom
  <2>4. Onward(N, Followed(loaded)) \subseteq N
    BY <2>1, FollowedAreLinks DEF Onward, Touching, Reaches, Links
  <2>5. IdentityTerms \subseteq N
    <3>1. Starts \in SUBSET Names
      BY <2>3
    <3> QED BY <2>3, <2>4, <3>1, ClosureLeast DEF IdentityTerms
  <2> QED BY <1>1, <2>2, <2>5 DEF BindingTerms
<1> QED BY <1>2, <1>3 DEF OnlyLinkedNames

(* Every value of every variable is of its kind: only documents and          *)
(* sentences of the corpus are ever selected, loaded or quoted.              *)
THEOREM TypeCorrect == Spec => []TypeOK
<1>1. Spec => [](TypeOK /\ Selected)
  BY SelectedInit, SelectedStep, PTL DEF Spec
<1> QED BY <1>1, PTL

(* Each round adds a name: one more stands for the target than rounds were   *)
(* taken, as long as another may follow.                                     *)
RoundsAreNames ==
  /\ rounds <= Cardinality(terms)
  /\ pc \in {"rank", "expand"} => rounds < Cardinality(terms)

LEMMA RoundsStep ==
  TypeOK /\ Selected /\ RoundsAreNames /\ [Next]_vars => RoundsAreNames'
<1> SUFFICES ASSUME TypeOK, Selected, RoundsAreNames, [Next]_vars PROVE RoundsAreNames'
  OBVIOUS
<1>1. IsFiniteSet(terms) /\ Cardinality(terms) \in Nat /\ rounds \in Nat
  BY FS_Subset, FS_CardinalityType, BoundedQueryAssumption DEF TypeOK
<1>2. CASE Rank \/ RankAll \/ Binding \/ Decide \/ UNCHANGED vars
  BY <1>2 DEF RoundsAreNames, Rank, RankAll, Binding, Decide, vars
<1>3. CASE ExpandDone
  BY <1>1, <1>3 DEF RoundsAreNames, ExpandDone
<1>4. CASE Expand
  <2>1. PICK x \in BindingTerms : x \notin terms
    BY <1>4 DEF Expand, BindingTerms
  <2>2. IsFiniteSet(terms') /\ Cardinality(terms') \in Nat /\ terms \cup {x} \in SUBSET terms'
    <3>1. TypeOK'
      BY SelectedStep
    <3> QED BY <3>1, <1>4, <2>1, FS_Subset, FS_CardinalityType, BoundedQueryAssumption
            DEF TypeOK, Expand
  <2>3. Cardinality(terms) + 1 <= Cardinality(terms')
    <3>1. Cardinality(terms \cup {x}) = Cardinality(terms) + 1
      BY <1>1, <2>1, FS_AddElement
    <3> QED BY <2>2, <3>1, FS_Subset
  <2> QED BY <1>1, <1>4, <2>2, <2>3 DEF RoundsAreNames, Expand
<1> QED BY <1>2, <1>3, <1>4 DEF Next

RoundsAreBounded == rounds <= Cardinality(Names)

(* execute_bounded_query's "while True" comes to an end: it takes no more    *)
(* rounds than the corpus has names.                                         *)
THEOREM RoundsAreBoundedHolds == Spec => []RoundsAreBounded
<1>1. Init => RoundsAreNames
  <2> SUFFICES ASSUME Init PROVE RoundsAreNames
    OBVIOUS
  <2>1. Cardinality({q.target}) = 1
    BY FS_Singleton
  <2> QED BY <2>1 DEF Init, RoundsAreNames
<1>2. TypeOK /\ RoundsAreNames => RoundsAreBounded
  <2> SUFFICES ASSUME TypeOK, RoundsAreNames PROVE RoundsAreBounded
    OBVIOUS
  <2>1. Cardinality(terms) \in Nat /\ Cardinality(Names) \in Nat
    BY FS_Subset, FS_CardinalityType, BoundedQueryAssumption DEF TypeOK
  <2>2. Cardinality(terms) <= Cardinality(Names)
    BY FS_Subset, BoundedQueryAssumption DEF TypeOK
  <2> QED BY <2>1, <2>2 DEF TypeOK, RoundsAreNames, RoundsAreBounded
<1> QED BY <1>1, <1>2, RoundsStep, SelectedInit, SelectedStep, PTL DEF Spec

(* execute_bounded_query's rounds of _identity_expansion: only what every    *)
(* set of names holds that has the target and is closed under the confident  *)
(* identity hypotheses open to the question, and under going from a word to  *)
(* a hypothesis' name that holds it, ever stands for the target, and no      *)
(* pronoun, whatever the corpus, the question and the limits.                *)
THEOREM OnlyLinkedNamesHolds == Spec => []OnlyLinkedNames
<1>1. Init => OnlyLinkedNames
  <2> SUFFICES ASSUME Init PROVE OnlyLinkedNames
    OBVIOUS
  <2> QED BY DEF Init, OnlyLinkedNames, Reaches
<1>2. Spec => [](TypeOK /\ Selected /\ OnlyLinkedNames)
  BY <1>1, SelectedInit, SelectedStep, LinkedStep, PTL DEF Spec
<1> QED BY <1>2, PTL
-----------------------------------------------------------------------------
(* What the binders give. *)

Open(p) == ScopeAccessible(Sentence(p), q) \/ Accessible(Sentence(p).chain, q)
Sits(p) == \E r \in Sentences(p[1]) : Named(Sentence(r)) \cap terms # {}
(* Rows at hand that are open to the question, beside a term. *)
Sound(P) == \A p \in P : p \in loaded /\ Open(p) /\ Sits(p)
Says(p, value) == value \in {<<Sentence(p).value>>, <<Sentence(p).about>>, <<"text", p>>}
Grounded(c) == Says(c.at, c.value) /\ Open(c.at) /\ Sits(c.at)
(* No score is zero, and none is higher than the terms of a question allow. *)
Highest == 50 * Cardinality(Names) + 440
Scored(c) == c.score \in 1..Highest /\ c.at \in loaded
Due(c, reason) == Grounded(c) /\ Scored(c) /\ c.reason = reason

LEMMA OpenAdmits == \A p : Open(p) => Admits(Sentence(p))
BY AccessibleAdmits, PlainAdmits DEF Open, ScopeAccessible

LEMMA Seen ==
  /\ \A p : At(View, p) = Sentence(p)
  /\ View.corpus = corpus /\ View.q = q /\ View.loaded = loaded /\ View.terms = terms
  /\ View.docs = Range(docs)
BY DEF View, At, Sentence

LEMMA SitsBeside ==
  ASSUME TypeOK, Selected, NEW p \in loaded, NEW r \in loaded, p[1] = r[1], TermsIn(View, r) # {}
  PROVE  Sits(p)
<1>1. r \in Everything
  BY DEF Selected
<1>2. r \in Sentences(r[1])
  BY <1>1 DEF Everything, Sentences
<1> QED BY <1>2, Seen DEF Sits, TermsIn

LEMMA SitsInTarget ==
  ASSUME TypeOK, Selected, NEW p \in loaded, p[1] \in TargetDocs(View)
  PROVE  Sits(p)
<1>1. DocText(View, p[1]) \cap terms # {}
  BY Seen DEF TargetDocs
<1>2. PICK r \in loaded : r[1] = p[1] /\ Named(At(View, r)) \cap terms # {}
  BY <1>1, Seen DEF DocText
<1> QED BY <1>2, Seen, SitsBeside DEF TermsIn

LEMMA HitsIn == \A p : Hits(View, p) \in 0..Cardinality(Names)
<1> SUFFICES ASSUME NEW p PROVE Hits(View, p) \in 0..Cardinality(Names)
  OBVIOUS
<1>1. TermsIn(View, p) \in SUBSET Names
  BY DEF TermsIn, Named
<1> QED BY <1>1, BoundedQueryAssumption, FS_Subset, FS_CardinalityType DEF Hits

LEMMA ScoresIn ==
  /\ Cardinality(Names) \in Nat /\ \A n \in 1..440 : n \in 1..Highest
  /\ \A p : 50 + 50 * Hits(View, p) + 60 + 15 \in 1..Highest /\ MatchScore(View, p) \in 1..Highest
<1>1. Cardinality(Names) \in Nat
  BY BoundedQueryAssumption, FS_CardinalityType
<1>2. \A p : Hits(View, p) \in Nat /\ Hits(View, p) <= Cardinality(Names)
  BY <1>1, HitsIn
<1> QED BY <1>1, <1>2 DEF Highest, MatchScore

LEMMA RelationGives ==
  ASSUME NEW P, Sound(P), NEW score \in 1..Highest, NEW reason,
         NEW c \in AsRelation(View, P, score, reason)
  PROVE  Due(c, reason) /\ c.at \in P
<1>1. PICK p \in P : \E v \in RelationValues(Sentence(p), q, terms) : c = Candidate(p, score, <<v>>, reason)
  BY Seen DEF AsRelation, Bind
<1>2. PICK v \in RelationValues(Sentence(p), q, terms) : c = Candidate(p, score, <<v>>, reason)
  BY <1>1
<1>3. v = Sentence(p).value \/ v = Sentence(p).about
  BY <1>2 DEF RelationValues
<1>4. c.at = p /\ c.value = <<v>> /\ c.reason = reason /\ c.score = score
  BY <1>2 DEF Candidate
<1> QED BY <1>3, <1>4 DEF Sound, Grounded, Says, Scored, Due

LEMMA RelationOfAnyGives ==
  ASSUME NEW P, Sound(P), NEW score \in 1..Highest, NEW reason,
         NEW c \in AsRelationOfAny(View, P, score, reason)
  PROVE  Due(c, reason) /\ c.at \in P
<1>1. PICK p \in P : \E v \in RelationValues(Sentence(p), q, {}) : c = Candidate(p, score, <<v>>, reason)
  BY Seen DEF AsRelationOfAny, Bind
<1>2. PICK v \in RelationValues(Sentence(p), q, {}) : c = Candidate(p, score, <<v>>, reason)
  BY <1>1
<1>3. v = Sentence(p).value \/ v = Sentence(p).about
  BY <1>2 DEF RelationValues
<1>4. c.at = p /\ c.value = <<v>> /\ c.reason = reason /\ c.score = score
  BY <1>2 DEF Candidate
<1> QED BY <1>3, <1>4 DEF Sound, Grounded, Says, Scored, Due

LEMMA FrameGives ==
  ASSUME NEW P, Sound(P), NEW score \in 1..Highest, NEW reason,
         NEW c \in AsFrame(View, P, score, reason)
  PROVE  Due(c, reason) /\ c.at \in P
<1>1. PICK p \in P : \E v \in FrameValues(Sentence(p), q, terms) : c = Candidate(p, score, <<v>>, reason)
  BY Seen DEF AsFrame, Bind
<1>2. PICK v \in FrameValues(Sentence(p), q, terms) : c = Candidate(p, score, <<v>>, reason)
  BY <1>1
<1>3. v = Sentence(p).value \/ v = Sentence(p).about
  BY <1>2 DEF FrameValues
<1>4. c.at = p /\ c.value = <<v>> /\ c.reason = reason /\ c.score = score
  BY <1>2 DEF Candidate
<1> QED BY <1>3, <1>4 DEF Sound, Grounded, Says, Scored, Due

(* What is read in an accessible scope or context, of the target's own rows. *)
LEMMA SoundRows ==
  ASSUME TypeOK, Selected, NEW P \in SUBSET loaded
  PROVE  /\ Sound(OnTarget(View, InScope(View, P))) /\ Sound(OnTarget(View, InContext(View, P)))
         /\ Sound(OnTarget(View, PolarityMatches(View, InScope(View, P))))
         /\ Sound({p \in InScope(View, P) : p[1] \in TargetDocs(View)})
         /\ Sound({p \in InContext(View, P) : p[1] \in TargetDocs(View)})
<1>1. \A p \in P : p \in loaded /\ (TermsIn(View, p) # {} \/ p[1] \in TargetDocs(View) => Sits(p))
  BY SitsBeside, SitsInTarget
<1> QED BY <1>1, Seen DEF Sound, OnTarget, InScope, InContext, PolarityMatches, Open

LEMMA RowsAtHand ==
  \A kinds : Rows(View, kinds) \in SUBSET loaded /\ Fitting(View, kinds) \in SUBSET loaded
BY Seen DEF Rows, Fitting

LEMMA LabelsGrounded ==
  ASSUME TypeOK, Selected
  PROVE  /\ \A c \in DirectLabelSlot(View) : Due(c, "direct_label_slot")
         /\ \A c \in RelationLabelValue(View) : Due(c, "relation_label_value")
<1> DEFINE P == OnTarget(View, InScope(View, Fitting(View, {"label"})))
<1>1. Sound(P)
  BY RowsAtHand, SoundRows
<1>2. /\ DirectLabelSlot(View) = AsRelation(View, P, 75, "direct_label_slot")
      /\ RelationLabelValue(View) = AsRelation(View, P, 68, "relation_label_value")
  BY DEF DirectLabelSlot, RelationLabelValue
<1> HIDE DEF P
<1> QED BY <1>1, <1>2, RelationGives, ScoresIn

LEMMA SoundPart == ASSUME NEW P, Sound(P), NEW R \in SUBSET P PROVE Sound(R)
BY DEF Sound

LEMMA GroupsGrounded ==
  ASSUME TypeOK, Selected
  PROVE  \A c \in BindRecordGroups(View) : Due(c, "record_group")
<1> SUFFICES ASSUME NEW c \in BindRecordGroups(View)
             PROVE  Due(c, "record_group")
  OBVIOUS
<1> DEFINE P == OnTarget(View, InContext(View, Fitting(View, {"cell"})))
<1>1. PICK p \in P :
        c \in AsRelation(View, {p}, 50 + 50 * Hits(View, p) + 60 + 15, "record_group")
  BY DEF BindRecordGroups, ByHits
<1>2. Sound(P)
  BY RowsAtHand, SoundRows
<1>3. Sound({p})
  BY <1>2, SoundPart
<1> QED BY <1>1, <1>3, RelationGives, ScoresIn

LEMMA FramesGrounded ==
  ASSUME TypeOK, Selected
  PROVE  \A c \in BindFrameConditions(View) : Due(c, "frame_argument")
<1> SUFFICES ASSUME NEW c \in BindFrameConditions(View)
             PROVE  Due(c, "frame_argument")
  OBVIOUS
<1> DEFINE A == InContext(View, Fitting(View, {"frame"}))
           B == InScope(View, Fitting(View, {"condition"}))
<1>1. PICK p \in OnTarget(View, A \cup B) :
        c \in AsFrame(View, {p}, MatchScore(View, p), "frame_argument")
  BY DEF BindFrameConditions, ByHits
<1>2. Sound(OnTarget(View, A)) /\ Sound(OnTarget(View, B))
  BY RowsAtHand, SoundRows
<1>3. Sound({p})
  BY <1>2 DEF OnTarget, Sound
<1> QED BY <1>1, <1>3, FrameGives, ScoresIn

LEMMA ConditionsGrounded ==
  ASSUME TypeOK, Selected
  PROVE  \A c \in BindRelationConditions(View) : Due(c, "relation_condition")
<1> SUFFICES ASSUME NEW c \in BindRelationConditions(View)
             PROVE  Due(c, "relation_condition")
  OBVIOUS
<1> DEFINE P == OnTarget(View, PolarityMatches(View,
                  InScope(View, Fitting(View, {"label", "cell", "condition"}))))
<1>1. PICK p \in P : c \in AsRelation(View, {p}, MatchScore(View, p), "relation_condition")
  BY DEF BindRelationConditions, ByHits
<1>2. Sound(P)
  BY RowsAtHand, SoundRows
<1>3. Sound({p})
  BY <1>2, SoundPart
<1> QED BY <1>1, <1>3, RelationGives, ScoresIn

(* A chain has a word to cover, and no more than the names and two others.   *)
LEMMA GroupsIn == Cardinality(Groups(View)) \in Nat
                  /\ Cardinality(Groups(View)) <= Cardinality(Names) + 2
<1> DEFINE N1 == Names \cup {RequestedRelation}
           N2 == N1 \cup {Slot}
<1>1. IsFiniteSet(N1) /\ Cardinality(N1) = Cardinality(Names) + 1
  BY BoundedQueryAssumption, FS_AddElement
<1>2. IsFiniteSet(N2) /\ Cardinality(N2) \in Nat /\ Cardinality(N2) <= Cardinality(Names) + 2
  <2>1. CASE Slot \in N1
    <3>1. N2 = N1
      BY <2>1
    <3> HIDE DEF N1, N2
    <3> QED BY <1>1, <3>1, ScoresIn
  <2>2. CASE Slot \notin N1
    <3>1. IsFiniteSet(N2) /\ Cardinality(N2) = Cardinality(N1) + 1
      BY <1>1, <2>2, FS_AddElement
    <3> QED BY <1>1, <3>1, ScoresIn
  <2> QED BY <2>1, <2>2
<1>3. Groups(View) \in SUBSET N2
  BY DEF Groups
<1> HIDE DEF N2
<1>4. IsFiniteSet(Groups(View)) /\ Cardinality(Groups(View)) <= Cardinality(N2)
  BY <1>2, <1>3, FS_Subset
<1>5. Cardinality(Groups(View)) \in Nat
  BY <1>4, FS_CardinalityType
<1> QED BY <1>2, <1>4, <1>5, ScoresIn

LEMMA ChainGrounded ==
  ASSUME TypeOK, Selected, q.target \in terms
  PROVE  \A c \in StructuralChain(View) : Due(c, "structural_chain")
<1> SUFFICES ASSUME NEW c \in StructuralChain(View)
             PROVE  Due(c, "structural_chain")
  OBVIOUS
<1>0. PICK d \in DOMAIN View.corpus : \E t \in Chains(View, d) :
        c = Candidate(t[Len(t)], 340 + 50 * Cardinality(Groups(View)) - 15 * (Len(t) - 1),
                      <<At(View, t[Len(t)]).value>>, "structural_chain")
  BY DEF StructuralChain
<1>1. PICK t \in Chains(View, d) :
        c = Candidate(t[Len(t)], 340 + 50 * Cardinality(Groups(View)) - 15 * (Len(t) - 1),
                      <<At(View, t[Len(t)]).value>>, "structural_chain")
  BY <1>0
<1>2. PICK n \in 1..ChainDepth : t \in [1..n -> {p \in ChainRows(View) : p[1] = d}]
  BY <1>1 DEF Chains
<1>3. n \in 1..4 /\ Len(t) = n
  <2>1. n \in 1..4
    BY <1>2 DEF ChainDepth
  <2>2. t \in Seq({p \in ChainRows(View) : p[1] = d}) /\ DOMAIN t = 1..n
    BY <1>2, <2>1
  <2> QED BY <2>1, <2>2
<1> DEFINE p == t[1]
           r == t[n]
<1>4. p \in ChainRows(View) /\ r \in ChainRows(View) /\ r[1] = p[1]
      /\ q.target \in Mentions(Sentence(p).about)
  BY <1>1, <1>2, <1>3, Seen DEF Chains
<1>5. /\ c.at = r /\ c.value = <<Sentence(r).value>> /\ c.reason = "structural_chain"
      /\ c.score = 340 + 50 * Cardinality(Groups(View)) - 15 * (n - 1)
  BY <1>1, <1>3, Seen DEF Candidate
<1> HIDE DEF p, r
<1>6. c.score \in 1..Highest
  <2> DEFINE g == Cardinality(Groups(View))
             k == Cardinality(Names)
  <2>1. g \in Nat /\ k \in Nat /\ g <= k + 2 /\ n \in 1..4 /\ c.score = 340 + 50 * g - 15 * (n - 1)
    BY <1>3, <1>5, GroupsIn, ScoresIn
  <2> HIDE DEF g
  <2>2. c.score \in Int /\ 1 <= c.score /\ c.score <= 340 + 50 * (k + 2)
    BY <2>1
  <2> QED BY <2>1, <2>2 DEF Highest
<1>7. p \in loaded /\ r \in loaded
  BY <1>4, RowsAtHand DEF ChainRows, InScope, InContext
<1>8. Open(r)
  BY <1>4, Seen DEF ChainRows, InScope, InContext, Open
<1>9. TermsIn(View, p) # {}
  <2>1. q.target \in Names
    BY BoundedQueryAssumption DEF TypeOK
  <2>2. q.target \in Named(Sentence(p))
    BY <1>4, <2>1 DEF Mentions, Named, Ends
  <2> QED BY <2>2, Seen DEF TermsIn
<1>10. Sits(r)
  BY <1>4, <1>7, <1>9, SitsBeside
<1> QED BY <1>5, <1>6, <1>7, <1>8, <1>10 DEF Grounded, Says, Scored, Due

(* A label that its document makes the target's is there with its own        *)
(* sentence too, not only with the one that names the target.                *)
Seconded(c, C) ==
  /\ c.reason = "document_scoped_label" /\ Scored(c)
  /\ \E d \in C : d.value = c.value /\ Grounded(d)

LEMMA DocumentLabelsGrounded ==
  ASSUME TypeOK, Selected
  PROVE  \A c \in DocumentScopedLabels(View) : Seconded(c, DocumentScopedLabels(View))
<1> DEFINE C == DocumentScopedLabels(View)
<1> SUFFICES ASSUME NEW c \in C PROVE Seconded(c, C)
  OBVIOUS
<1> DEFINE
      labels(d) == {p \in InScope(View, Rows(View, {"label"})) : p[1] = d}
      naming(d) == OnTarget(View, labels(d))
      anchors(d) == IF Cardinality(naming(d)) = 1 THEN naming(d)
                    ELSE IF TargetDocs(View) = {d}
                    THEN {p \in View.loaded : p[1] = d /\ TermsIn(View, p) # {}}
                    ELSE {}
      values(d) == {p \in labels(d) : At(View, p).fits
                                        /\ (Cardinality(naming(d)) = 1 => p \notin naming(d))}
      own(d) == AsRelationOfAny(View, values(d), 65, "document_scoped_label")
      first(d) == CHOOSE a \in anchors(d) : \A b \in anchors(d) : a[2] <= b[2]
      bind(d, a) == own(d) \cup {[e EXCEPT !.at = a] : e \in own(d)}
<1>1. C = UNION {bind(d, first(d)) : d \in {e \in DOMAIN View.corpus : anchors(e) # {}}}
  BY DEF DocumentScopedLabels
<1>2. PICK d \in DOMAIN View.corpus : anchors(d) # {} /\ c \in bind(d, first(d))
  <2> HIDE DEF bind, anchors, first, C
  <2> QED BY <1>1
<1>3. own(d) \subseteq C
  <2> HIDE DEF own, anchors, first, C
  <2> QED BY <1>1, <1>2
<1>4. first(d) \in loaded /\ first(d)[1] = d /\ TermsIn(View, first(d)) # {}
  <2>1. first(d) \in anchors(d)
    <3>1. anchors(d) \subseteq Sentences(d)
      <4>1. \A p \in loaded : p[1] = d => p \in Sentences(d)
        BY DEF Selected, Everything, Sentences
      <4>2. anchors(d) \subseteq loaded /\ \A p \in anchors(d) : p[1] = d
        BY RowsAtHand, Seen DEF OnTarget, InScope
      <4> HIDE DEF anchors
      <4> QED BY <4>1, <4>2
    <3>2. \A p \in anchors(d) : p[2] \in Nat
      <4> HIDE DEF anchors
      <4> QED BY <3>1, CorpusSeq, Seen DEF Sentences, TypeOK
    <3> DEFINE numbers == {p[2] : p \in anchors(d)}
    <3>3. numbers \subseteq Nat /\ numbers # {}
      <4> HIDE DEF anchors
      <4> QED BY <1>2, <3>2
    <3>4. PICK m \in numbers : \A n \in numbers : m <= n
      <4> HIDE DEF numbers
      <4> QED BY <3>3, LeastNat
    <3>5. \E a \in anchors(d) : \A b \in anchors(d) : a[2] <= b[2]
      <4> HIDE DEF anchors
      <4> QED BY <3>4
    <3> HIDE DEF anchors
    <3> QED BY <3>5
  <2>2. anchors(d) \subseteq {p \in View.loaded : p[1] = d /\ TermsIn(View, p) # {}}
    BY RowsAtHand, Seen DEF OnTarget, InScope
  <2> HIDE DEF anchors, first
  <2> QED BY <2>1, <2>2, Seen
<1>5. Sound(values(d))
  <2> SUFFICES ASSUME NEW p \in values(d) PROVE p \in loaded /\ Open(p) /\ Sits(p)
    BY DEF Sound
  <2>1. p \in InScope(View, Rows(View, {"label"})) /\ p[1] = d
    OBVIOUS
  <2>2. p \in loaded /\ Open(p)
    BY <2>1, RowsAtHand, Seen DEF InScope, Open
  <2> HIDE DEF first
  <2> QED BY <1>4, <2>1, <2>2, SitsBeside
<1>6. PICK e \in own(d) :
        /\ c.value = e.value /\ c.reason = e.reason /\ c.score = e.score
        /\ c.at = e.at \/ c.at = first(d)
  <2>1. CASE c \in own(d)
    BY <2>1
  <2>2. CASE c \notin own(d)
    <3>1. PICK e \in own(d) : c = [e EXCEPT !.at = first(d)]
      <4> HIDE DEF own, first
      <4> QED BY <1>2, <2>2
    <3>2. PICK p, v : e = Candidate(p, 65, v, "document_scoped_label")
      BY <3>1 DEF AsRelationOfAny, Bind
    <3> HIDE DEF first
    <3> QED BY <3>1, <3>2 DEF Candidate
  <2> QED BY <2>1, <2>2
<1> HIDE DEF values
<1>7. Due(e, "document_scoped_label")
  BY <1>5, <1>6, RelationOfAnyGives, ScoresIn
<1> HIDE DEF own, C, first
<1> QED BY <1>3, <1>4, <1>6, <1>7 DEF Seconded, Due, Scored

LEMMA DocumentRowsGrounded ==
  ASSUME TypeOK, Selected
  PROVE  /\ \A c \in DocumentScopedRows(View) : Due(c, "document_scoped_row")
         /\ \A c \in DocumentScopedConditions(View) :
              Due(c, "document_scoped_condition")
         /\ \A c \in DocumentScopedValues(View) :
              Due(c, "document_scoped_value")
<1>1. \A C : Unambiguous(C) \subseteq C
  BY DEF Unambiguous
<1>2. \A c \in DocumentScopedRows(View) : Due(c, "document_scoped_row")
  <2> DEFINE P == {p \in InScope(View, Fitting(View, {"cell"})) : p[1] \in TargetDocs(View)}
  <2>1. Sound(P)
    BY RowsAtHand, SoundRows
  <2>2. DocumentScopedRows(View) =
          Unambiguous(AsRelationOfAny(View, P, 130, "document_scoped_row"))
    BY DEF DocumentScopedRows
  <2> HIDE DEF P
  <2> QED BY <1>1, <2>1, <2>2, RelationOfAnyGives, ScoresIn
<1>3. \A c \in DocumentScopedConditions(View) :
        Due(c, "document_scoped_condition")
  <2> DEFINE all == {p \in InScope(View, Fitting(View, {"condition"})) :
                       p[1] \in TargetDocs(View)}
             P == {p \in InScope(View, Fitting(View, {"condition"})) :
                     /\ p[1] \in TargetDocs(View)
                     /\ View.q.kind = "state" => TermsIn(View, p) # {} \/ Named(At(View, p)) = {}}
  <2>1. Sound(all) /\ P \in SUBSET all
    BY RowsAtHand, SoundRows
  <2>2. DocumentScopedConditions(View) =
          Unambiguous(AsRelation(View, P, 69, "document_scoped_condition"))
    BY DEF DocumentScopedConditions
  <2> HIDE DEF P, all
  <2>3. Sound(P)
    BY <2>1, SoundPart
  <2> QED BY <1>1, <2>2, <2>3, RelationGives, ScoresIn
<1>4. \A c \in DocumentScopedValues(View) : Due(c, "document_scoped_value")
  <2>1. Sound({p \in InScope(View, Fitting(View, {"label", "cell"})) : p[1] \in TargetDocs(View)})
    BY RowsAtHand, SoundRows
  <2>2. DocumentScopedValues(View) \subseteq
          AsRelation(View,
            {p \in InScope(View, Fitting(View, {"label", "cell"})) : p[1] \in TargetDocs(View)},
            70, "document_scoped_value")
    BY DEF DocumentScopedValues
  <2> QED BY <2>1, <2>2, RelationGives, ScoresIn
<1> QED BY <1>2, <1>3, <1>4

LEMMA EdgesSound ==
  ASSUME TypeOK, Selected
  PROVE  Sound(Edges(View)) /\ Edges(View) \in SUBSET loaded
<1>1. Sound(OnTarget(View, InContext(View, Fitting(View, {"condition", "frame"}))))
  BY RowsAtHand, SoundRows
<1> QED BY <1>1 DEF Edges, Sound

LEMMA TemporalGrounded ==
  ASSUME TypeOK, Selected
  PROVE  \A c \in Temporal(View) : Grounded(c) /\ Scored(c) /\ c.reason # "document_scoped_label"
<1>1. ASSUME NEW c \in TemporalEdges(View) PROVE Due(c, "temporal")
  <2>1. PICK p \in Edges(View) : c = Candidate(p, 80, EdgeValue(View, p), "temporal")
    BY <1>1 DEF TemporalEdges, Boundary, Times
  <2>2. c.at = p /\ c.value = EdgeValue(View, p) /\ c.reason = "temporal" /\ c.score = 80
    BY <2>1 DEF Candidate
  <2>3. p \in loaded /\ Open(p) /\ Sits(p)
    BY EdgesSound DEF Sound
  <2> QED BY <2>2, <2>3, ScoresIn, Seen DEF EdgeValue, Grounded, Says, Scored, Due
<1>2. ASSUME NEW c \in TemporalFrames(View) PROVE Due(c, "temporal_frame")
  <2> DEFINE P == Boundary(View.q.scope, Times(View, Edges(View)))
  <2>1. c \in AsFrame(View, P, 110, "temporal_frame")
    BY <1>2 DEF TemporalFrames
  <2>2. P \in SUBSET Edges(View)
    BY DEF Boundary, Times
  <2> HIDE DEF P
  <2>3. Sound(P)
    BY <2>2, EdgesSound, SoundPart
  <2> QED BY <2>1, <2>3, FrameGives, ScoresIn
<1>3. ASSUME NEW c \in TemporalRelations(View) PROVE Due(c, "temporal_relation")
  <2> DEFINE all == OnTarget(View, InScope(View, Fitting(View, {"label", "cell", "condition"})))
             P == InContext(View, Boundary(View.q.scope, Stamps(View, all)))
  <2>1. c \in AsRelation(View, P, 90, "temporal_relation")
    BY <1>3 DEF TemporalRelations
  <2>2. Sound(all) /\ P \in SUBSET all
    BY RowsAtHand, SoundRows DEF InContext, Boundary, Stamps
  <2> HIDE DEF P, all
  <2>3. Sound(P)
    BY <2>2, SoundPart
  <2> QED BY <2>1, <2>3, RelationGives, ScoresIn
<1> QED BY <1>1, <1>2, <1>3 DEF Temporal, Due

LEMMA CandidatesGrounded ==
  ASSUME TypeOK, Selected, q.target \in terms, q.kind # "boolean", NEW c \in Candidates
  PROVE  \/ Seconded(c, Candidates)
         \/ (Grounded(c) /\ Scored(c) /\ c.reason # "document_scoped_label")
<1>1. Candidates = Bound(View) \cup Temporal(View)
  BY DEF Candidates
<1>2. CASE c \in DocumentScopedLabels(View)
  <2>1. Seconded(c, DocumentScopedLabels(View))
    BY <1>2, DocumentLabelsGrounded
  <2>2. DocumentScopedLabels(View) \subseteq Candidates
    BY <1>1 DEF Bound
  <2> QED BY <2>1, <2>2 DEF Seconded
<1>3. CASE c \in Temporal(View)
  BY <1>3, TemporalGrounded
<1>4. CASE c \in UNION {DirectLabelSlot(View), RelationLabelValue(View), BindRecordGroups(View),
         StructuralChain(View), BindFrameConditions(View), BindRelationConditions(View),
         DocumentScopedRows(View), DocumentScopedConditions(View), DocumentScopedValues(View)}
  BY <1>4, LabelsGrounded, GroupsGrounded, ChainGrounded, FramesGrounded, ConditionsGrounded,
     DocumentRowsGrounded DEF Due
<1> QED BY <1>1, <1>2, <1>3, <1>4 DEF Bound

(* A row that is counted is open and its document names the target.          *)
LEMMA CountedSound ==
  ASSUME TypeOK, Selected
  PROVE  Sound(CountedRows(View))
<1> SUFFICES ASSUME NEW p \in CountedRows(View) PROVE p \in loaded /\ Open(p) /\ Sits(p)
  BY DEF Sound
<1>1. p \in InContext(View, Rows(View, {"cell"}))
      /\ (TermsIn(View, p) # {} \/ p[1] \in TargetDocs(View))
  BY DEF CountedRows
<1>2. p \in loaded /\ Open(p)
  BY <1>1, RowsAtHand, Seen DEF InContext, Open
<1> QED BY <1>1, <1>2, SitsBeside, SitsInTarget

LEMMA ExtremeGrounded ==
  ASSUME TypeOK, Selected, NEW x \in ExtremeCounts(View)
  PROVE  \E p \in x.evidence : Says(p, x.value) /\ Open(p) /\ Sits(p)
<1> DEFINE of(v) == {p \in CountedRows(View) : v \in RelationValues(At(View, p), View.q, View.terms)}
<1>1. PICK v \in UNION {RelationValues(At(View, p), View.q, View.terms) : p \in CountedRows(View)} :
        x = [value |-> <<v>>, evidence |-> of(v)]
  BY DEF ExtremeCounts
<1>2. PICK p \in CountedRows(View) : v \in RelationValues(At(View, p), View.q, View.terms)
  BY <1>1
<1>3. p \in x.evidence /\ x.value = <<v>>
  BY <1>1, <1>2
<1>4. v = Sentence(p).value \/ v = Sentence(p).about
  BY <1>2, Seen DEF RelationValues
<1> QED BY <1>3, <1>4, CountedSound DEF Sound, Says
-----------------------------------------------------------------------------
(* What the choice keeps of them. *)

(* A set of candidates that gives no value but with a row that is grounded.  *)
Grounds(C) == \A c \in C : \E d \in C : d.value = c.value /\ Grounded(d)

LEMMA KeptGrounds ==
  ASSUME NEW C, Grounds(C)
  PROVE  Grounds(Eligible(View, C)) /\ Grounds(Preferred(View, C))
<1>1. Grounds(Eligible(View, C))
  BY DEF Grounds, Eligible
<1>2. ASSUME NEW c \in Preferred(View, C)
      PROVE  \E d \in Preferred(View, C) : d.value = c.value /\ Grounded(d)
  <2>1. PICK b \in C : \E x : c = Candidate(b.at, x, b.value, b.reason)
    BY DEF Preferred
  <2>2. PICK e \in C : e.value = b.value /\ Grounded(e)
    BY DEF Grounds
  <2>3. PICK d \in Preferred(View, C) : \E y : d = Candidate(e.at, y, e.value, e.reason)
    BY DEF Preferred
  <2>4. c.value = b.value /\ d.value = e.value /\ d.at = e.at
    BY <2>1, <2>3 DEF Candidate
  <2> QED BY <2>2, <2>4 DEF Grounded
<1> QED BY <1>1, <1>2 DEF Grounds

LEMMA EvidenceGrounded ==
  ASSUME NEW C, Grounds(C), NEW v \in ValuesIn(C)
  PROVE  \E p \in EvidenceOf(C, v) : Says(p, v) /\ Open(p) /\ Sits(p)
<1>1. PICK c \in C : c.value = v
  BY DEF ValuesIn
<1>2. PICK d \in C : d.value = v /\ Grounded(d)
  BY <1>1 DEF Grounds
<1>3. d.at \in EvidenceOf(C, v)
  BY <1>2 DEF EvidenceOf
<1> QED BY <1>2, <1>3 DEF Grounded

(* What the answer of the next state has. *)
Supported ==
  answer' = NoAnswer \/ \E p \in answer'.evidence : Says(p, answer'.value) /\ Open(p) /\ Sits(p)

LEMMA GiveSupported ==
  ASSUME NEW C, Grounds(C), NEW v \in ValuesIn(C), Give(v, EvidenceOf(C, v))
  PROVE  Supported
<1>1. answer'.value = v /\ answer'.evidence = EvidenceOf(C, v)
  BY DEF Give
<1> QED BY <1>1, EvidenceGrounded DEF Supported

LEMMA ChooseSupported ==
  ASSUME NEW C, Grounds(C), Choose(C)
  PROVE  Supported
<1>1. CASE C = {}
  BY <1>1 DEF Choose, Refuse, Supported
<1>2. CASE C # {}
  <2>1. PICK v \in Top(C, q) : Give(v, EvidenceOf(C, v))
    BY <1>2 DEF Choose
  <2>2. v \in ValuesIn(C)
    BY <2>1 DEF Top
  <2> QED BY <2>1, <2>2, GiveSupported
<1> QED BY <1>1, <1>2

LEMMA ChooseUnlessConflictSupported ==
  ASSUME NEW C, Grounds(C), ChooseUnlessConflict(C)
  PROVE  Supported
<1>1. CASE Cardinality(ValuesIn(C)) < 2
  BY <1>1, ChooseSupported DEF ChooseUnlessConflict
<1>2. CASE ~(Cardinality(ValuesIn(C)) < 2)
  <2>1. PICK v \in Top(C, q) : Refuse \/ Give(v, EvidenceOf(C, v))
    BY <1>2 DEF ChooseUnlessConflict
  <2>2. v \in ValuesIn(C)
    BY <2>1 DEF Top
  <2> QED BY <2>1, <2>2, GiveSupported DEF Refuse, Supported
<1> QED BY <1>1, <1>2

(* The binders, then the decision: the candidates stay what the binders      *)
(* gave, and the target stands for itself.                                   *)
Found ==
  /\ q.target \in terms
  /\ pc \in {"decide", "done"} => candidates = Candidates

LEMMA FoundStep == TypeOK /\ Selected /\ Found /\ [Next]_vars => Found'
<1> SUFFICES ASSUME TypeOK, Selected, Found, [Next]_vars PROVE Found'
  OBVIOUS
<1>1. UNCHANGED asked /\ terms \subseteq terms'
  BY DEF Next, vars, Rank, RankAll, ExpandDone, Expand, Binding, Decide
<1>2. (q.target \in terms)'
  BY <1>1 DEF Found, asked
<1>3. ASSUME UNCHANGED <<asked, scope, loaded, terms>> PROVE Candidates' = Candidates
  <2>1. View' = View /\ q' = q
    BY <1>3 DEF View, asked, scope
  <2> QED BY <2>1 DEF Candidates
<1>4. CASE Rank \/ RankAll \/ ExpandDone \/ Expand
  <2>1. pc' \notin {"decide", "done"}
    BY <1>4 DEF Rank, RankAll, ExpandDone, Expand
  <2> QED BY <1>2, <2>1 DEF Found
<1>5. CASE Binding
  BY <1>2, <1>3, <1>5 DEF Binding, Found
<1>6. CASE Decide
  BY <1>2, <1>3, <1>6 DEF Decide, Found
<1>7. CASE UNCHANGED vars
  BY <1>2, <1>3, <1>7 DEF vars, Found
<1> QED BY <1>4, <1>5, <1>6, <1>7 DEF Next

LEMMA DecisionSupported ==
  ASSUME TypeOK, Selected, Found, pc = "decide", Decision, ~DecideCount,
         q.kind \in {"value", "state", "most", "count"}
  PROVE  Supported
<1>1. \A c \in candidates :
        \/ Seconded(c, candidates)
        \/ (Grounded(c) /\ Scored(c) /\ c.reason # "document_scoped_label")
  BY CandidatesGrounded DEF Found
<1>2. Grounds(candidates)
  BY <1>1 DEF Grounds, Seconded
<1>3. Grounds(Kept)
  BY <1>2, KeptGrounds DEF Kept, Weighed
<1>4. Grounds(Eligible(View, Timed))
  <2>1. \A c \in Timed : Grounded(c)
    BY <1>1 DEF Timed, Seconded
  <2>2. Grounds(Timed)
    BY <2>1 DEF Grounds
  <2> QED BY <2>2, KeptGrounds
<1>5. CASE DecideExtreme
  <2>1. PICK x \in ExtremeCounts(View) : Give(x.value, x.evidence)
    BY <1>5 DEF DecideExtreme
  <2>2. answer'.value = x.value /\ answer'.evidence = x.evidence
    BY <2>1 DEF Give
  <2> QED BY <2>2, ExtremeGrounded DEF Supported
<1>6. CASE DecideScoped
  BY <1>4, <1>6, ChooseUnlessConflictSupported DEF DecideScoped
<1>7. CASE DecideUnclear
  BY <1>7 DEF DecideUnclear, Refuse, Supported
<1>8. CASE DecideUnscoped
  BY <1>3, <1>8, ChooseUnlessConflictSupported DEF DecideUnscoped
<1>9. CASE DecideOther
  BY <1>3, <1>9, ChooseSupported DEF DecideOther
<1> QED BY <1>5, <1>6, <1>7, <1>8, <1>9 DEF Decision, DecideBoolean, DecideList

LEMMA GroundedStep ==
  TypeOK /\ Selected /\ Found /\ AnswerIsGrounded /\ [Next]_vars => AnswerIsGrounded'
<1> SUFFICES ASSUME TypeOK, Selected, Found, AnswerIsGrounded, [Next]_vars, Answered',
                    (q.kind \in {"value", "state", "most"})'
             PROVE  (\E p \in answer.evidence : Says(p, answer.value) /\ Admits(Sentence(p)) /\ Sits(p))'
  BY DEF AnswerIsGrounded, Gives, Says, Sits
<1>1. UNCHANGED asked
  BY DEF Next, vars, Rank, RankAll, ExpandDone, Expand, Binding, Decide
<1>2. ASSUME UNCHANGED <<asked, terms>>
      PROVE  \A p : (Admits(Sentence(p))' <=> Admits(Sentence(p))) /\ (Sits(p)' <=> Sits(p))
                    /\ \A value : Says(p, value)' <=> Says(p, value)
  BY <1>2 DEF asked, Admits, WantsNegative, Sits, Says, Sentence, Sentences
<1>3. pc' = "done" /\ answer' # NoAnswer /\ q.kind \in {"value", "state", "most"}
  BY <1>1 DEF Answered, NoAnswer, asked
<1>4. CASE Decide
  <2>1. pc = "decide" /\ Decision /\ UNCHANGED <<asked, terms>>
    BY <1>4 DEF Decide
  <2>2. Supported
    BY <1>3, <2>1, DecisionSupported DEF DecideCount, Counts
  <2>3. PICK p \in answer'.evidence : Says(p, answer'.value) /\ Admits(Sentence(p)) /\ Sits(p)
    BY <1>3, <2>2, OpenAdmits DEF Supported
  <2> QED BY <1>2, <2>1, <2>3
<1>5. CASE UNCHANGED vars
  <2>1. UNCHANGED <<asked, terms>> /\ UNCHANGED <<answer, pc, q>>
    BY <1>5 DEF vars, asked
  <2>2. \E p \in answer.evidence : Says(p, answer.value) /\ Admits(Sentence(p)) /\ Sits(p)
    BY <1>3, <2>1 DEF AnswerIsGrounded, Answered, Gives, Says, Sits
  <2> QED BY <1>2, <2>1, <2>2
<1>6. CASE Rank \/ RankAll \/ ExpandDone \/ Expand \/ Binding
  BY <1>3, <1>6 DEF Rank, RankAll, ExpandDone, Expand, Binding
<1> QED BY <1>4, <1>5, <1>6 DEF Next

(* execute_bounded_query's answer to a question of a value: whatever is      *)
(* asked of whatever corpus, a row that is open to the question gives the    *)
(* answer, in a document that names the target or something linked to it.    *)
THEOREM AnswerIsGroundedHolds == Spec => []AnswerIsGrounded
<1>1. Init => Found /\ AnswerIsGrounded
  BY DEF Init, Found, AnswerIsGrounded, Answered
<1>2. Spec => [](TypeOK /\ Selected /\ Found /\ AnswerIsGrounded)
  BY <1>1, SelectedInit, SelectedStep, FoundStep, GroundedStep, PTL DEF Spec
<1> QED BY <1>2, PTL
-----------------------------------------------------------------------------
(* Weighing. *)

LEMMA MaxIn ==
  ASSUME NEW S \in SUBSET Nat, S # {}, NEW most \in Nat, \A x \in S : x <= most
  PROVE  Max(S) \in S /\ \A x \in S : Max(S) >= x
<1> DEFINE short == {most - x : x \in S}
<1>1. short \subseteq Nat /\ short # {}
  <2>1. PICK some \in S : most - some \in short
    OBVIOUS
  <2>2. \A s \in S : s \in Nat /\ s <= most
    OBVIOUS
  <2>3. \A s \in S : most - s \in Nat
    BY <2>2
  <2> QED BY <2>1, <2>3
<1>2. PICK m \in short : \A n \in short : m <= n
  <2> HIDE DEF short
  <2> QED BY <1>1, LeastNat
<1>3. PICK x \in S : m = most - x
  BY <1>2
<1>4. \A y \in S : x >= y
  <2> SUFFICES ASSUME NEW y \in S PROVE x >= y
    OBVIOUS
  <2>1. most - y \in short
    OBVIOUS
  <2> QED BY <1>2, <1>3, <2>1
<1> QED BY <1>3, <1>4 DEF Max

(* Candidates of the binders, preferred or not: none of them is without      *)
(* weight.                                                                   *)
Weighty(C) == \A c \in C : c.score \in 1..(Highest + 180) /\ c.at \in loaded

LEMMA BestPositive ==
  ASSUME NEW C, Weighty(C), NEW v, NEW p \in EvidenceOf(C, v)
  PROVE  BestAt(C, q, v, p) \in Nat \ {0}
<1> DEFINE S == {ChoiceScore(c, q) : c \in {x \in C : x.value = v /\ x.at = p}}
<1>1. Highest \in Nat
  BY BoundedQueryAssumption, FS_CardinalityType DEF Highest
<1>2. \A c \in C : ChoiceScore(c, q) \in 1..(Highest + 630)
  <2> SUFFICES ASSUME NEW c \in C PROVE ChoiceScore(c, q) \in 1..(Highest + 630)
    OBVIOUS
  <2>1. c.score \in 1..(Highest + 180)
    BY DEF Weighty
  <2> QED BY <1>1, <2>1 DEF ChoiceScore
<1>3. S # {}
  BY DEF EvidenceOf
<1>4. S \in SUBSET Nat /\ (\A x \in S : x <= Highest + 630 /\ x # 0) /\ Highest + 630 \in Nat
  BY <1>1, <1>2
<1>5. BestAt(C, q, v, p) = Max(S)
  BY DEF BestAt
<1> HIDE DEF S
<1>6. Max(S) \in S
  BY <1>3, <1>4, MaxIn
<1> QED BY <1>4, <1>5, <1>6

LEMMA KeptWeighty ==
  ASSUME TypeOK, Selected, Found, pc = "decide", q.kind # "boolean"
  PROVE  Weighty(Kept)
<1>1. \A c \in candidates : Scored(c)
  BY CandidatesGrounded DEF Found, Seconded
<1>2. Highest \in Nat
  BY BoundedQueryAssumption, FS_CardinalityType DEF Highest
<1>3. ASSUME NEW d \in Weighed PROVE d.score \in 1..(Highest + 180) /\ d.at \in loaded
  <2>1. PICK c \in candidates, more \in {0, 180} : d = Candidate(c.at, c.score + more, c.value, c.reason)
    BY DEF Weighed, Preferred
  <2>2. d.score = c.score + more /\ d.at = c.at
    BY <2>1 DEF Candidate
  <2>3. c.score \in 1..Highest /\ c.at \in loaded
    BY <1>1 DEF Scored
  <2> QED BY <1>2, <2>1, <2>2, <2>3
<1> QED BY <1>3 DEF Weighty, Kept, Eligible

(* The sum that is a bucket exists, and is of positive numbers.              *)
LEMMA BucketPositive ==
  ASSUME NEW C, Weighty(C), Selected, corpus \in Corpora, NEW v \in ValuesIn(C)
  PROVE  Bucket(C, q, v) \in Nat \ {0}
<1> DEFINE E == EvidenceOf(C, v)
           pick(s) == CHOOSE x \in s : TRUE
           weight(p) == BestAt(C, q, v, p)
           Is(f) == f = [s \in SUBSET E |-> IF s = {} THEN 0
                                            ELSE weight(pick(s)) + f[s \ {pick(s)}]]
           upTo(n) == {s \in SUBSET E : Cardinality(s) <= n}
           Part(f, n) == f = [s \in upTo(n) |-> IF s = {} THEN 0
                                                ELSE weight(pick(s)) + f[s \ {pick(s)}]]
<1>1. IsFiniteSet(E) /\ E # {} /\ Cardinality(E) \in Nat
  <2>1. E \subseteq Everything
    BY DEF EvidenceOf, Weighty, Selected
  <2>2. E # {}
    BY DEF EvidenceOf, ValuesIn
  <2> HIDE DEF E
  <2> QED BY <2>1, <2>2, EverythingFinite, FS_Subset, FS_CardinalityType
<1>2. \A p \in E : weight(p) \in Nat \ {0}
  BY BestPositive
<1>3. Bucket(C, q, v) = (CHOOSE f : Is(f))[E]
  BY DEF Bucket, MapThenSumSet, MapThenFoldSet
<1> HIDE DEF E, weight
<1>4. \A s \in SUBSET E :
        IsFiniteSet(s) /\ Cardinality(s) \in Nat /\ Cardinality(s) <= Cardinality(E)
  BY <1>1, FS_Subset, FS_CardinalityType
<1>5. \A s \in SUBSET E : s # {} => /\ pick(s) \in s /\ Cardinality(s) # 0
                                    /\ Cardinality(s \ {pick(s)}) = Cardinality(s) - 1
  BY <1>4, FS_RemoveElement, FS_EmptySet
<1> HIDE DEF pick
<1>6. \A n \in Nat : \E f : Part(f, n)
  <2> DEFINE S == {n \in Nat : \E f : Part(f, n)}
  <2>1. 0 \in S
    <3>1. Part([s \in upTo(0) |-> 0], 0)
      <4>1. ASSUME NEW s \in upTo(0) PROVE s = {}
        <5>1. s \in SUBSET E /\ Cardinality(s) = 0
          BY <1>4
        <5> QED BY <1>5, <5>1
      <4> QED BY <4>1
    <3> QED BY <3>1
  <2>2. ASSUME NEW n \in Nat, n \in S PROVE n + 1 \in S
    <3>1. PICK f : Part(f, n)
      BY <2>2
    <3> DEFINE value(s) == IF s = {} THEN 0 ELSE weight(pick(s)) + f[s \ {pick(s)}]
               g == [s \in upTo(n + 1) |-> value(s)]
    <3>2. \A s \in upTo(n) : f[s] = value(s)
      BY <3>1
    <3>3. \A s \in upTo(n + 1) : s # {} => s \ {pick(s)} \in upTo(n)
      BY <1>4, <1>5
    <3>4. \A s \in upTo(n) : s \in upTo(n + 1)
      BY <1>4
    <3> HIDE DEF upTo
    <3>5. \A s \in upTo(n) : g[s] = f[s]
      BY <3>2, <3>4
    <3>6. \A s \in upTo(n + 1) :
            g[s] = IF s = {} THEN 0 ELSE weight(pick(s)) + g[s \ {pick(s)}]
      BY <3>3, <3>5
    <3>7. Part(g, n + 1)
      <4>1. g = [s \in upTo(n + 1) |-> g[s]]
        OBVIOUS
      <4> HIDE DEF g
      <4> QED BY <3>6, <4>1
    <3> HIDE DEF g, Part
    <3> QED BY <3>7
  <2> HIDE DEF S
  <2>3. Nat \subseteq S
    BY <2>1, <2>2, NatSet
  <2> QED BY <2>3 DEF S
<1>7. upTo(Cardinality(E)) = SUBSET E
  BY <1>4
<1>8. \E f : Is(f)
  <2>1. PICK f : Part(f, Cardinality(E))
    BY <1>1, <1>6
  <2> QED BY <1>7, <2>1
<1> DEFINE sum == CHOOSE f : Is(f)
<1>9. Is(sum)
  BY <1>8
<1> HIDE DEF sum
<1>10. \A s \in SUBSET E : sum[s] = IF s = {} THEN 0 ELSE weight(pick(s)) + sum[s \ {pick(s)}]
  BY <1>9
<1> HIDE DEF Is, upTo
<1> DEFINE Good(s) == sum[s] \in Nat /\ (s # {} => sum[s] # 0)
           S == {n \in Nat : \A s \in SUBSET E : Cardinality(s) = n => Good(s)}
<1>11. 0 \in S
  <2>1. \A s \in SUBSET E : Cardinality(s) = 0 => s = {} /\ sum[s] = 0
    BY <1>5, <1>10
  <2> QED BY <2>1
<1>12. ASSUME NEW n \in Nat, n \in S PROVE n + 1 \in S
  <2> SUFFICES ASSUME NEW s \in SUBSET E, Cardinality(s) = n + 1 PROVE Good(s)
    OBVIOUS
  <2>1. s # {} /\ pick(s) \in s
    BY <1>5, FS_EmptySet
  <2>2. Cardinality(s \ {pick(s)}) = n /\ s \ {pick(s)} \in SUBSET E
    BY <1>5, <2>1
  <2>3. sum[s \ {pick(s)}] \in Nat
    BY <1>12, <2>2
  <2>4. weight(pick(s)) \in Nat \ {0}
    BY <1>2, <2>1
  <2>5. sum[s] = weight(pick(s)) + sum[s \ {pick(s)}]
    BY <1>10, <2>1
  <2> QED BY <2>3, <2>4, <2>5
<1>13. Nat \subseteq S
  <2> HIDE DEF S
  <2> QED BY <1>11, <1>12, NatSet
<1>14. Good(E)
  BY <1>1, <1>13
<1> QED BY <1>1, <1>3, <1>14 DEF sum

LEMMA CoverageIn ==
  ASSUME NEW P, P # {}
  PROVE  Coverage(View, P) \in Nat
<1> DEFINE S == {Hits(View, p) : p \in P}
<1>1. Cardinality(Names) \in Nat
  BY BoundedQueryAssumption, FS_CardinalityType
<1>2. S \in SUBSET Nat /\ S # {} /\ \A x \in S : x <= Cardinality(Names)
  <2>1. \A p : Hits(View, p) \in Nat /\ Hits(View, p) <= Cardinality(Names)
    BY <1>1, HitsIn
  <2> QED BY <2>1
<1>3. Coverage(View, P) = Max(S)
  BY DEF Coverage
<1> HIDE DEF S
<1> QED BY <1>1, <1>2, <1>3, MaxIn
-----------------------------------------------------------------------------
(* Rivals. *)
Silent ==
  \A v, w \in ValuesIn(Kept) :
    \/ v = w \/ ValuesIn(Kept) # {v, w} \/ Bucket(Kept, q, v) # Bucket(Kept, q, w)
    \/ EvidenceOf(Kept, v) \cap EvidenceOf(Kept, w) # {}
    \/ \E A \in Pieces(EvidenceOf(Kept, v)), B \in Pieces(EvidenceOf(Kept, w)) :
         Coverage(View, A) # Coverage(View, B)

LEMMA PiecesIn ==
  ASSUME NEW P, P # {}, NEW A \in Pieces(P)
  PROVE  A \in SUBSET P /\ A # {}
BY FS_EmptySet DEF Pieces

LEMMA EqualIsClose ==
  ASSUME NEW high \in Nat \ {0}
  PROVE  Close(high, high)
<1> DEFINE m == Max({10000, 5 * high})
<1>1. m \in {10000, 5 * high} /\ m >= 10000
  <2>1. 5 * high \in Nat
    OBVIOUS
  <2> DEFINE n == IF 5 * high > 10000 THEN 5 * high ELSE 10000
  <2>2. n \in {10000, 5 * high} /\ \A x \in {10000, 5 * high} : n >= x
    BY <2>1
  <2>3. m \in {10000, 5 * high} /\ \A x \in {10000, 5 * high} : m >= x
    <3> HIDE DEF n
    <3> QED BY <2>2 DEF Max
  <2> QED BY <2>3
<1> HIDE DEF m
<1>2. m \in Nat
  BY <1>1
<1>3. 0 < m /\ 100 * high >= 85 * high /\ 100 * (high - high) = 0
  BY <1>1, <1>2
<1> QED BY <1>3 DEF Close, m

LEMMA DecisionSilent ==
  ASSUME TypeOK, Selected, Found, pc = "decide", DecideUnscoped, answer' # NoAnswer
  PROVE  Silent
<1> SUFFICES ASSUME NEW v \in ValuesIn(Kept), NEW w \in ValuesIn(Kept), v # w,
                    ValuesIn(Kept) = {v, w}, Bucket(Kept, q, v) = Bucket(Kept, q, w),
                    EvidenceOf(Kept, v) \cap EvidenceOf(Kept, w) = {},
                    \A A \in Pieces(EvidenceOf(Kept, v)), B \in Pieces(EvidenceOf(Kept, w)) :
                      Coverage(View, A) = Coverage(View, B)
             PROVE  FALSE
  BY DEF Silent
<1>1. Weighty(Kept) /\ corpus \in Corpora
  BY KeptWeighty DEF TypeOK, DecideUnscoped, Competing
<1>2. Bucket(Kept, q, v) \in Nat \ {0}
  BY <1>1, BucketPositive
<1>3. EvidenceOf(Kept, v) # {} /\ EvidenceOf(Kept, w) # {}
  BY DEF EvidenceOf, ValuesIn
<1>4. ~(Cardinality(ValuesIn(Kept)) < 2)
  <2>1. IsFiniteSet({v}) /\ Cardinality({v}) = 1
    BY FS_Singleton
  <2>2. Cardinality({v} \cup {w}) = 2 /\ {v, w} = {v} \cup {w}
    BY <2>1, FS_AddElement
  <2> QED BY <2>2
<1>5. PICK t \in Top(Kept, q) : \E u \in Runners(Kept, q, t) :
        \E A \in Pieces(EvidenceOf(Kept, t)), B \in Pieces(EvidenceOf(Kept, u)) :
          ~ConflictOf(View, Bucket(Kept, q, t), Bucket(Kept, q, u), A, B)
  BY <1>4 DEF DecideUnscoped, ChooseUnlessConflict, Refuse
<1>6. PICK u \in Runners(Kept, q, t) :
        \E A \in Pieces(EvidenceOf(Kept, t)), B \in Pieces(EvidenceOf(Kept, u)) :
          ~ConflictOf(View, Bucket(Kept, q, t), Bucket(Kept, q, u), A, B)
  BY <1>5
<1>7. t \in {v, w} /\ u \in {v, w} /\ u # t
  <2>1. t \in ValuesIn(Kept)
    BY DEF Top
  <2>2. u \in ValuesIn({c \in Kept : c.value # t})
    BY DEF Runners, Top
  <2>3. u \in ValuesIn(Kept) /\ u # t
    BY <2>2 DEF ValuesIn
  <2> QED BY <2>1, <2>3
<1>8. PICK A \in Pieces(EvidenceOf(Kept, t)), B \in Pieces(EvidenceOf(Kept, u)) :
        ~ConflictOf(View, Bucket(Kept, q, v), Bucket(Kept, q, v), A, B)
  BY <1>6, <1>7
<1>9. A \cap B = {} /\ A # {}
  <2>1. A \in SUBSET EvidenceOf(Kept, t) /\ A # {} /\ B \in SUBSET EvidenceOf(Kept, u)
    BY <1>3, <1>7, PiecesIn
  <2> QED BY <1>7, <2>1
<1>10. Coverage(View, A) = Coverage(View, B) /\ Coverage(View, A) \in Nat
  BY <1>7, <1>9, CoverageIn
<1> QED BY <1>2, <1>8, <1>9, <1>10, EqualIsClose DEF ConflictOf

LEMMA SilentStep ==
  TypeOK /\ Selected /\ Found /\ EqualRivalsAreSilent /\ [Next]_vars => EqualRivalsAreSilent'
<1> SUFFICES ASSUME TypeOK, Selected, Found, EqualRivalsAreSilent, [Next]_vars, Answered',
                    (q.kind \in {"value", "state"} /\ q.scope = "none")'
             PROVE  Silent'
  BY DEF EqualRivalsAreSilent, Silent
<1>1. UNCHANGED asked
  BY DEF Next, vars, Rank, RankAll, ExpandDone, Expand, Binding, Decide
<1>2. pc' = "done" /\ answer' # NoAnswer /\ q.kind \in {"value", "state"} /\ q.scope = "none"
  BY <1>1 DEF Answered, NoAnswer, asked
<1>3. ASSUME UNCHANGED <<asked, scope, loaded, terms, candidates>>, Silent PROVE Silent'
  <2>1. View' = View /\ q' = q /\ Kept' = Kept
    BY <1>3 DEF View, asked, scope, Kept, Weighed
  <2> QED BY <1>3, <2>1 DEF Silent
<1>4. CASE Decide
  <2>1. pc = "decide" /\ Decision /\ UNCHANGED <<asked, scope, loaded, terms, candidates>>
    BY <1>4 DEF Decide
  <2>2. DecideUnscoped
    BY <1>2, <2>1 DEF Decision, DecideBoolean, DecideExtreme, Extreme, DecideScoped, Scoped,
       DecideCount, Counts, DecideUnclear, Refuse, DecideList, DecideOther
  <2> QED BY <1>2, <1>3, <2>1, <2>2, DecisionSilent
<1>5. CASE UNCHANGED vars
  <2>1. UNCHANGED <<asked, scope, loaded, terms, candidates>> /\ UNCHANGED <<answer, pc, q>>
    BY <1>5 DEF vars, asked
  <2>2. Silent
    BY <1>2, <2>1 DEF EqualRivalsAreSilent, Answered, Silent
  <2> QED BY <1>3, <2>1, <2>2
<1>6. CASE Rank \/ RankAll \/ ExpandDone \/ Expand \/ Binding
  BY <1>2, <1>6 DEF Rank, RankAll, ExpandDone, Expand, Binding
<1> QED BY <1>4, <1>5, <1>6 DEF Next

(* _answer_conflict_diagnostics: two values that the rows support equally,   *)
(* each with sentences of its own, are never both at hand when a question    *)
(* without a date is answered.                                               *)
THEOREM EqualRivalsAreSilentHolds == Spec => []EqualRivalsAreSilent
<1>1. Init => Found /\ EqualRivalsAreSilent
  BY DEF Init, Found, EqualRivalsAreSilent, Answered
<1>2. Spec => [](TypeOK /\ Selected /\ Found /\ EqualRivalsAreSilent)
  BY <1>1, SelectedInit, SelectedStep, FoundStep, SilentStep, PTL DEF Spec
<1> QED BY <1>2, PTL
-----------------------------------------------------------------------------
(* Completeness. *)

(* _requires_completeness: before any name was linked, all there is is at    *)
(* hand.                                                                     *)
Whole ==
  rounds = 0 =>
    /\ terms = {q.target}
    /\ RequiresCompleteness /\ pc # "rank" => Range(docs) = DOMAIN corpus /\ loaded = Everything

LEMMA WholeStep == TypeOK /\ Selected /\ Whole /\ [Next]_vars => Whole'
<1> SUFFICES ASSUME TypeOK, Selected, Whole, [Next]_vars, rounds' = 0
             PROVE  /\ terms' = {q'.target}
                    /\ (RequiresCompleteness /\ pc # "rank")' =>
                         Range(docs') = DOMAIN corpus' /\ loaded' = Everything'
  BY DEF Whole, Range
<1>1. /\ UNCHANGED asked /\ Everything' = Everything /\ q' = q /\ corpus' = corpus
      /\ (RequiresCompleteness' <=> RequiresCompleteness)
  BY DEF Next, vars, Rank, RankAll, ExpandDone, Expand, Binding, Decide, asked, Everything,
         Sentences, RequiresCompleteness
<1>2. CASE Rank
  BY <1>1, <1>2 DEF Rank, Whole
<1>3. CASE RankAll
  <2>1. AllDocs \in Seq(DOMAIN corpus) /\ Range(AllDocs) = DOMAIN corpus
    BY CorpusSeq DEF AllDocs, Range, TypeOK
  <2>2. AllChunks \in Seq(Everything) /\ Range(AllChunks) = Everything
    BY AllChunksSeq DEF TypeOK
  <2>3. loaded' = Load(AllDocs, AllChunks) /\ docs' = AllDocs
    BY <1>3 DEF RankAll
  <2>4. loaded' = Everything
    BY <2>1, <2>2, <2>3, LoadIn DEF Load
  <2> QED BY <1>1, <1>3, <2>1, <2>3, <2>4 DEF RankAll, Whole
<1>4. CASE ExpandDone
  <2>1. rounds = 0 /\ UNCHANGED <<scope, loaded, terms>> /\ pc = "expand"
    BY <1>4 DEF ExpandDone, TypeOK
  <2> QED BY <1>1, <2>1 DEF Whole, scope
<1>5. CASE Expand
  BY <1>5 DEF Expand, TypeOK
<1>6. CASE Binding
  BY <1>1, <1>6 DEF Binding, Whole, scope
<1>7. CASE Decide
  BY <1>1, <1>7 DEF Decide, Whole, scope
<1>8. CASE UNCHANGED vars
  BY <1>1, <1>8 DEF vars, Whole, scope
<1> QED BY <1>2, <1>3, <1>4, <1>5, <1>6, <1>7, <1>8 DEF Next

(* A row of the target alone, open to the question, gives its value.         *)
LEMMA PlainRowFound ==
  ASSUME TypeOK, Selected, terms = {q.target}, q.kind = "list", NEW p \in loaded, Plainly(p)
  PROVE  \E c \in Candidates : c.value = <<Sentence(p).value>>
<1> DEFINE s == Sentence(p)
<1>1. /\ s.about = q.target /\ s.fits /\ s.modality = "asserted" /\ Accessible(s.chain, q)
      /\ s.kind \in {"cell", "condition", "frame"} /\ s.value \notin {None, q.target}
  BY DEF Plainly
<1>2. TermsIn(View, p) # {} /\ At(View, p) = s /\ q.target \in Names
  <2>1. q.target \in Names
    BY BoundedQueryAssumption DEF TypeOK
  <2>2. q.target \in Named(s)
    BY <1>1, <2>1 DEF Named, Ends, Mentions
  <2> QED BY <2>1, <2>2, Seen DEF TermsIn
<1> HIDE DEF s
<1>3. s.value \in RelationValues(s, q, terms) \/ s.kind # "cell"
  BY <1>1 DEF RelationValues, Compatible
<1>4. s.value \in FrameValues(s, q, terms)
  BY <1>1 DEF FrameValues, Compatible
<1>5. ScopeAccessible(s, q)
  BY <1>1 DEF ScopeAccessible
<1>6. BindRecordGroups(View) \cup BindFrameConditions(View) \subseteq Candidates
  BY DEF Candidates, Bound
<1>7. CASE s.kind = "cell"
  <2> DEFINE P == OnTarget(View, InContext(View, Fitting(View, {"cell"})))
             score(r) == 50 + 50 * Hits(View, r) + 60 + 15
             c == Candidate(p, score(p), <<s.value>>, "record_group")
  <2>1. p \in P
    BY <1>1, <1>2, <1>7, Seen DEF OnTarget, InContext, Fitting, Rows
  <2>2. c \in AsRelation(View, {p}, score(p), "record_group")
    BY <1>2, <1>3, <1>7, Seen DEF AsRelation, Bind
  <2>3. BindRecordGroups(View) = UNION {AsRelation(View, {r}, score(r), "record_group") : r \in P}
    BY DEF BindRecordGroups, ByHits
  <2>4. c \in BindRecordGroups(View)
    <3> HIDE DEF c, P, score
    <3> QED BY <2>1, <2>2, <2>3
  <2>5. c.value = <<s.value>>
    BY DEF Candidate
  <2> HIDE DEF c
  <2>6. c \in Candidates
    BY <1>6, <2>4
  <2> QED BY <2>5, <2>6 DEF s
<1>8. CASE s.kind # "cell"
  <2> DEFINE P == OnTarget(View, InContext(View, Fitting(View, {"frame"}))
                                   \cup InScope(View, Fitting(View, {"condition"})))
             c == Candidate(p, MatchScore(View, p), <<s.value>>, "frame_argument")
  <2>1. p \in P
    BY <1>1, <1>2, <1>5, <1>8, Seen DEF OnTarget, InContext, InScope, Fitting, Rows
  <2>2. c \in AsFrame(View, {p}, MatchScore(View, p), "frame_argument")
    BY <1>2, <1>4, Seen DEF AsFrame, Bind
  <2>3. BindFrameConditions(View) =
          UNION {AsFrame(View, {r}, MatchScore(View, r), "frame_argument") : r \in P}
    BY DEF BindFrameConditions, ByHits
  <2>4. c \in BindFrameConditions(View)
    <3> HIDE DEF c, P
    <3> QED BY <2>1, <2>2, <2>3
  <2>5. c.value = <<s.value>>
    BY DEF Candidate
  <2> HIDE DEF c
  <2>6. c \in Candidates
    BY <1>6, <2>4
  <2> QED BY <2>5, <2>6 DEF s
<1> QED BY <1>7, <1>8 DEF s

Exact(given) ==
  given.value = <<"counted", Cardinality(given.evidence)>> /\ CountedRows(WholeView) # {} =>
    given.value = <<"counted", Cardinality(CountedRows(WholeView))>>
Lists(value) == \A p \in Everything : Plainly(p) => <<Sentence(p).value>> \in value[1]

(* What has a value that a row gives has not counted it. *)
LEMMA SaidIsNotCounted ==
  ASSUME NEW p, NEW n, NEW value, Says(p, value)
  PROVE  value # <<"counted", n>>
<1>1. Len(<<Sentence(p).value>>) = 1 /\ Len(<<Sentence(p).about>>) = 1 /\ Len(<<"counted", n>>) = 2
  OBVIOUS
<1>2. <<"text", p>>[1] = "text" /\ <<"counted", n>>[1] = "counted"
  OBVIOUS
<1> QED BY <1>1, <1>2 DEF Says

LEMMA WholeIsView ==
  ASSUME Whole, rounds = 0, pc = "decide", RequiresCompleteness
  PROVE  WholeView = View /\ loaded = Everything
<1>1. Range(docs) = DOMAIN corpus /\ loaded = Everything
  BY DEF Whole
<1>2. WholeView = [corpus |-> corpus, q |-> q, docs |-> DOMAIN corpus, loaded |-> Everything,
                   terms |-> terms]
  <2>1. /\ DOMAIN WholeView = {"corpus", "q", "docs", "loaded", "terms"}
        /\ WholeView = [x \in DOMAIN WholeView |-> WholeView[x]]
    BY DEF WholeView, View
  <2>2. /\ WholeView["corpus"] = corpus /\ WholeView["q"] = q /\ WholeView["terms"] = terms
        /\ WholeView["docs"] = DOMAIN corpus /\ WholeView["loaded"] = Everything
    BY DEF WholeView, View
  <2> QED BY <2>1, <2>2
<1> QED BY <1>1, <1>2 DEF View

LEMMA CountComplete ==
  ASSUME TypeOK, Selected, Found, Whole, rounds = 0, pc = "decide", Decision, answer' # NoAnswer,
         q.kind = "count"
  PROVE  Exact(answer')
<1>1. WholeView = View
  BY WholeIsView DEF RequiresCompleteness
<1>2. CASE DecideCount
  <2> SUFFICES ASSUME CountedRows(View) # {}
               PROVE  answer'.value = <<"counted", Cardinality(CountedRows(View))>>
    BY <1>1 DEF Exact
  <2>1. Counted = CountedRows(View) /\ Give(<<"counted", Cardinality(Counted)>>, Counted)
    BY <1>2 DEF DecideCount, Counted
  <2> QED BY <2>1 DEF Give
<1>3. CASE ~DecideCount
  <2>1. PICK p \in answer'.evidence : Says(p, answer'.value)
    BY <1>3, DecisionSupported DEF Supported
  <2> QED BY <2>1, SaidIsNotCounted DEF Exact
<1> QED BY <1>2, <1>3

LEMMA ListComplete ==
  ASSUME TypeOK, Selected, Found, Whole, rounds = 0, pc = "decide", Decision, answer' # NoAnswer,
         q.kind = "list", q.scope = "none"
  PROVE  Lists(answer'.value)
<1>1. terms = {q.target} /\ candidates = Candidates /\ loaded = Everything
  BY WholeIsView DEF Whole, Found, RequiresCompleteness
<1>2. Give(<<ValuesIn(Kept)>>, {c.at : c \in Kept})
  BY DEF Decision, DecideBoolean, DecideExtreme, Extreme, DecideScoped, Scoped, DecideCount, Counts,
         DecideUnclear, DecideList, DecideUnscoped, DecideOther, Refuse
<1>3. answer'.value[1] = ValuesIn(Kept)
  BY <1>2 DEF Give
<1> SUFFICES ASSUME NEW p \in Everything, Plainly(p)
             PROVE  <<Sentence(p).value>> \in ValuesIn(Kept)
  BY <1>3 DEF Lists
<1>4. PICK c \in candidates : c.value = <<Sentence(p).value>>
  BY <1>1, PlainRowFound
<1>5. PICK d \in Weighed : d.value = <<Sentence(p).value>>
  <2>1. PICK d \in Weighed : \E x : d = Candidate(c.at, x, c.value, c.reason)
    BY <1>4 DEF Weighed, Preferred
  <2> QED BY <1>4, <2>1 DEF Candidate
<1>6. <<Sentence(p).value>> # <<q.target>>
  BY DEF Plainly
<1>7. d \in Kept
  BY <1>1, <1>5, <1>6, Seen DEF Kept, Eligible
<1> QED BY <1>5, <1>7 DEF ValuesIn

LEMMA CompleteStep ==
  TypeOK /\ Selected /\ Found /\ Whole /\ CompleteMeansAll /\ [Next]_vars => CompleteMeansAll'
<1> DEFINE Complete == /\ q.kind = "count" => Exact(answer)
                       /\ q.kind = "list" /\ q.scope = "none" => Lists(answer.value)
<1> SUFFICES ASSUME TypeOK, Selected, Found, Whole, CompleteMeansAll, [Next]_vars, Answered',
                    rounds' = 0
             PROVE  Complete'
  BY DEF CompleteMeansAll, Enumerated, Exact, Lists
<1>1. UNCHANGED asked
  BY DEF Next, vars, Rank, RankAll, ExpandDone, Expand, Binding, Decide
<1>2. pc' = "done" /\ answer' # NoAnswer /\ q' = q
  BY <1>1 DEF Answered, NoAnswer, asked
<1>3. ASSUME UNCHANGED <<asked, scope, loaded, terms>>
      PROVE  \A x : (Exact(x)' <=> Exact(x)) /\ (Lists(x)' <=> Lists(x))
  <2>1. WholeView' = WholeView
    BY <1>3 DEF WholeView, View, asked, scope, Everything, Sentences
  <2>2. /\ Everything' = Everything
        /\ \A p : Sentence(p)' = Sentence(p) /\ (Plainly(p)' <=> Plainly(p))
    BY <1>3 DEF asked, Everything, Sentences, Sentence, Plainly
  <2> QED BY <2>1, <2>2 DEF Exact, Lists
<1>4. CASE Decide
  <2>1. pc = "decide" /\ Decision /\ UNCHANGED <<asked, scope, loaded, terms, rounds>>
    BY <1>4 DEF Decide
  <2>2. /\ q.kind = "count" => Exact(answer')
        /\ q.kind = "list" /\ q.scope = "none" => Lists(answer'.value)
    BY <1>2, <2>1, CountComplete, ListComplete
  <2> QED BY <1>2, <1>3, <2>1, <2>2 DEF Exact, Lists
<1>5. CASE UNCHANGED vars
  <2>1. UNCHANGED <<asked, scope, loaded, terms>> /\ UNCHANGED <<answer, pc, rounds>>
    BY <1>5 DEF vars
  <2>2. Complete
    BY <1>2, <2>1 DEF CompleteMeansAll, Answered, Enumerated, Exact, Lists
  <2> QED BY <1>2, <1>3, <2>1, <2>2 DEF Exact, Lists
<1>6. CASE Rank \/ RankAll \/ ExpandDone \/ Expand \/ Binding
  BY <1>2, <1>6 DEF Rank, RankAll, ExpandDone, Expand, Binding
<1> QED BY <1>4, <1>5, <1>6 DEF Next

(* _requires_completeness and the scan of the complete corpus: as long as no *)
(* name was linked, a count is that of all rows and a list holds the value   *)
(* of every open row of the target, whatever the limits.                     *)
THEOREM CompleteMeansAllHolds == Spec => []CompleteMeansAll
<1>1. Init => Found /\ Whole /\ CompleteMeansAll
  BY DEF Init, Found, Whole, CompleteMeansAll, Answered
<1>2. Spec => [](TypeOK /\ Selected /\ Found /\ Whole /\ CompleteMeansAll)
  BY <1>1, SelectedInit, SelectedStep, FoundStep, WholeStep, CompleteStep, PTL DEF Spec
<1> QED BY <1>2, PTL
-----------------------------------------------------------------------------
(* The latest. *)
DatesSort ==
  /\ \A p \in DatedRows : PlainlyDated(p)
  /\ SortedAlike([p \in DatedRows |-> Sentence(p).time])
  /\ \/ SortedAlike([p \in DatedRows |-> Sentence(p).stamp])
        /\ \A p \in DatedRows : Sentence(p).stamp # 0
     \/ \A p \in DatedRows : Sentence(p).stamp = 0

LEMMA Dates ==
  ASSUME TypeOK
  PROVE  \A p \in Everything :
           Sentence(p).time \in Nat /\ Sentence(p).stamp \in Nat /\ Sentence(p).day \in Nat
BY Places, BoundedQueryAssumption DEF Sentence, TypeOK

LEMMA EdgesIn ==
  ASSUME TypeOK, Selected
  PROVE  \A p \in Edges(View) : p \in DatedRows /\ p \in Everything
<1>1. \A p \in Edges(View) : p \in loaded /\ Sentence(p).time # 0
  BY RowsAtHand, Seen DEF Edges, OnTarget, InContext
<1> QED BY <1>1 DEF Selected, DatedRows

LEMMA BoundaryLatest ==
  ASSUME NEW P, NEW date \in [P -> Nat], NEW p \in Boundary("latest", date), NEW r \in P
  PROVE  p \in P /\ date[p] >= date[r]
<1>1. p \in P /\ ~(date[r] > date[p])
  BY DEF Boundary, Before
<1> QED BY <1>1

(* A latest one exists: among equals, the first in the order of paths.       *)
LEMMA LatestExists ==
  ASSUME TypeOK, NEW P \in SUBSET Everything, P # {}, NEW date \in [P -> Nat]
  PROVE  Boundary("latest", date) # {}
<1> DEFINE ahead(p, r) == date[p] > date[r] \/ (date[p] = date[r] /\ PathOrder(p, r))
           before == [p \in P |-> {r \in P : ahead(r, p)}]
           best == Ranked(before)[1]
<1>1. IsFiniteSet(P) /\ Cardinality(P) \in Nat /\ Cardinality(P) # 0
  <2>1. IsFiniteSet(P)
    BY EverythingFinite, FS_Subset DEF TypeOK
  <2> QED BY <2>1, FS_CardinalityType, FS_EmptySet
<1>2. /\ \A i \in P : i \notin before[i]
      /\ \A i, j \in P : i # j => i \in before[j] \/ j \in before[i]
      /\ \A i, j, k \in P : i \in before[j] /\ j \in before[k] => i \in before[k]
  BY PathOrdered DEF TypeOK
<1>3. before \in [P -> SUBSET P]
  OBVIOUS
<1>4. best \in P /\ Cardinality(before[best]) = 0
  <2> HIDE DEF before
  <2>1. \A n \in 1..Cardinality(P) :
          Ranked(before)[n] \in P /\ Cardinality(before[Ranked(before)[n]]) = n - 1
    BY <1>1, <1>2, <1>3, Ordering
  <2>2. 1 \in 1..Cardinality(P)
    BY <1>1
  <2> QED BY <2>1, <2>2
<1>5. before[best] = {}
  <2>1. IsFiniteSet(before[best])
    BY <1>1, <1>3, <1>4, FS_Subset
  <2> QED BY <1>4, <2>1, FS_EmptySet
<1>6. \A r \in P : ~(date[r] > date[best])
  BY <1>4, <1>5
<1>7. best \in Boundary("latest", date)
  BY <1>4, <1>6 DEF Boundary, Before
<1> QED BY <1>7

LEMMA DatedInScope ==
  ASSUME TypeOK, Selected, DatesSort, NEW p \in Edges(View)
  PROVE  /\ Sentence(p).kind = "condition"
         /\ p \in OnTarget(View, InScope(View, Fitting(View, {"label", "cell", "condition"})))
<1>1. /\ p \in Fitting(View, {"condition", "frame"}) /\ Accessible(Sentence(p).chain, q)
      /\ TermsIn(View, p) # {}
  BY Seen DEF Edges, OnTarget, InContext
<1>2. Sentence(p).modality = "asserted" /\ Sentence(p).kind = "condition"
  BY EdgesIn DEF DatesSort, PlainlyDated
<1>3. ScopeAccessible(Sentence(p), q)
  BY <1>1, <1>2 DEF ScopeAccessible
<1>4. p \in Fitting(View, {"label", "cell", "condition"})
  BY <1>1, <1>2, Seen DEF Fitting, Rows
<1> QED BY <1>1, <1>2, <1>3, <1>4, Seen DEF OnTarget, InScope

(* What sorts last by its text is of the last day.                           *)
LEMMA LastSorted ==
  ASSUME TypeOK, Selected, DatesSort, NEW P \in SUBSET Everything, NEW e \in Edges(View), e \in P,
         NEW p \in Boundary("latest", Times(View, P)), p \in DatedRows
  PROVE  Sentence(p).day >= Sentence(e).day
<1>1. Times(View, P) \in [P -> Nat] /\ \A r \in P : Times(View, P)[r] = Sentence(r).time
  BY Dates, Seen DEF Times
<1>2. p \in P /\ Times(View, P)[p] >= Times(View, P)[e]
  BY <1>1, BoundaryLatest
<1>3. ~(Sentence(e).time > Sentence(p).time)
  BY <1>1, <1>2, Dates
<1>4. e \in DatedRows /\ \A r, x \in DatedRows :
        Sentence(r).time > Sentence(x).time <=> Sentence(r).day > Sentence(x).day
  BY EdgesIn DEF DatesSort, SortedAlike
<1>5. ~(Sentence(e).day > Sentence(p).day)
  BY <1>3, <1>4
<1> QED BY <1>2, <1>5, Dates

(* Each of the readers of dated rows stops at the latest edge or later.      *)
LEMMA TemporalLatest ==
  ASSUME TypeOK, Selected, DatesSort, q.scope = "latest",
         NEW c \in Temporal(View), NEW e \in Edges(View)
  PROVE  Sentence(c.at).day >= Sentence(e).day
<1>1. Edges(View) \in SUBSET Everything /\ Edges(View) \in SUBSET DatedRows
  BY EdgesIn
<1>2. CASE c \in TemporalEdges(View)
  <2> DEFINE E == {p \in Edges(View) : At(View, p).kind = "condition"}
  <2>1. E = Edges(View)
    BY DatedInScope, Seen
  <2>2. PICK p \in Boundary("latest", Times(View, E)) :
          c = Candidate(p, 80, EdgeValue(View, p), "temporal")
    BY <1>2, Seen DEF TemporalEdges
  <2> HIDE DEF E
  <2>3. p \in DatedRows /\ c.at = p
    BY <1>1, <2>1, <2>2 DEF Boundary, Times, Candidate
  <2> QED BY <1>1, <2>1, <2>2, <2>3, LastSorted
<1>3. CASE c \in TemporalFrames(View)
  <2> DEFINE P == Boundary("latest", Times(View, Edges(View)))
  <2>1. c \in AsFrame(View, P, 110, "temporal_frame")
    BY <1>3, Seen DEF TemporalFrames
  <2>2. P \in SUBSET Edges(View)
    BY DEF Boundary, Times
  <2> HIDE DEF P
  <2>3. Sound(P)
    BY <2>2, EdgesSound, SoundPart
  <2>4. c.at \in P
    BY <2>1, <2>3, FrameGives, ScoresIn
  <2> QED BY <1>1, <2>2, <2>4, LastSorted DEF P
<1>4. CASE c \in TemporalRelations(View)
  <2> DEFINE all == OnTarget(View, InScope(View, Fitting(View, {"label", "cell", "condition"})))
             B == Boundary("latest", Stamps(View, all))
             P == InContext(View, B)
  <2>1. c \in AsRelation(View, P, 90, "temporal_relation")
    BY <1>4, Seen DEF TemporalRelations
  <2>2. Sound(all) /\ P \in SUBSET B /\ P \in SUBSET all
    BY RowsAtHand, SoundRows DEF InContext, Boundary, Stamps
  <2>3. e \in all
    BY DatedInScope
  <2>4. \A p \in B : p \in all /\ Sentence(p).stamp # 0
    BY Seen DEF Boundary, Stamps
  <2> HIDE DEF P, B, all
  <2>5. Sound(P) /\ all \in SUBSET Everything
    BY <2>2, SoundPart DEF Sound, Selected
  <2>6. c.at \in B
    BY <2>1, <2>2, <2>5, RelationGives, ScoresIn
  <2> DEFINE dated == {r \in all : Sentence(r).stamp # 0}
             date == Stamps(View, all)
             p == c.at
  <2>7. p \in DatedRows /\ e \in DatedRows /\ p \in Everything /\ e \in Everything
    BY <1>1, <2>4, <2>5, <2>6 DEF DatedRows
  <2>8. /\ \A r \in DatedRows : Sentence(r).stamp # 0
        /\ \A r, x \in DatedRows :
             Sentence(r).stamp > Sentence(x).stamp <=> Sentence(r).day > Sentence(x).day
    BY <2>4, <2>6, <2>7 DEF DatesSort, SortedAlike
  <2>9. date \in [dated -> Nat] /\ \A r \in dated : date[r] = Sentence(r).stamp
    BY <2>5, Dates, Seen DEF Stamps
  <2>10. e \in dated /\ p \in dated
    BY <2>3, <2>4, <2>6, <2>7, <2>8
  <2> HIDE DEF dated, date
  <2>11. p \in Boundary("latest", date)
    BY <2>6 DEF B, date
  <2> HIDE DEF p
  <2>12. date[p] >= date[e]
    BY <2>9, <2>10, <2>11, BoundaryLatest
  <2>13. ~(Sentence(e).stamp > Sentence(p).stamp)
    BY <2>7, <2>9, <2>10, <2>12, Dates
  <2>14. ~(Sentence(e).day > Sentence(p).day)
    BY <2>7, <2>8, <2>13
  <2> QED BY <2>7, <2>14, Dates DEF p
<1> QED BY <1>2, <1>3, <1>4 DEF Temporal

LEMMA TimedAreTemporal ==
  ASSUME TypeOK, Selected, Found, q.kind # "boolean", candidates = Candidates
  PROVE  Timed \subseteq Temporal(View)
<1> SUFFICES ASSUME NEW c \in Timed, c \notin Temporal(View) PROVE FALSE
  OBVIOUS
<1>1. c \in Bound(View) /\ c.reason \in {"temporal", "temporal_relation", "temporal_frame"}
  BY DEF Timed, Candidates
<1>2. CASE c \in DocumentScopedLabels(View)
  BY <1>1, <1>2, DocumentLabelsGrounded DEF Seconded
<1>3. CASE c \in UNION {DirectLabelSlot(View), RelationLabelValue(View), BindRecordGroups(View),
         StructuralChain(View), BindFrameConditions(View), BindRelationConditions(View),
         DocumentScopedRows(View), DocumentScopedConditions(View), DocumentScopedValues(View)}
  BY <1>1, <1>3, LabelsGrounded, GroupsGrounded, ChainGrounded, FramesGrounded,
     ConditionsGrounded, DocumentRowsGrounded DEF Due, Found
<1> QED BY <1>1, <1>2, <1>3 DEF Bound

LEMMA EdgeGivesTimed ==
  ASSUME TypeOK, Selected, DatesSort, q.scope = "latest", q.kind \in {"value", "state"},
         candidates = Candidates, Edges(View) # {}
  PROVE  Timed # {}
<1> DEFINE E == {p \in Edges(View) : At(View, p).kind = "condition"}
<1>1. E = Edges(View) /\ E \in SUBSET Everything
  BY DatedInScope, EdgesIn, Seen
<1>2. PICK p \in Boundary("latest", Times(View, E)) : TRUE
  <2> HIDE DEF E
  <2>1. Times(View, E) \in [E -> Nat]
    BY <1>1, Dates, Seen DEF Times
  <2> QED BY <1>1, <2>1, LatestExists
<1> DEFINE c == Candidate(p, 80, EdgeValue(View, p), "temporal")
<1>3. c \in TemporalEdges(View)
  BY <1>2, Seen DEF TemporalEdges
<1>4. c.reason = "temporal"
  BY DEF Candidate
<1> HIDE DEF c
<1>5. c \in Candidates
  BY <1>3, Seen DEF Candidates, Temporal
<1> QED BY <1>4, <1>5 DEF Timed

LEMMA ChooseQuotes ==
  ASSUME NEW C, ChooseUnlessConflict(C), answer' # NoAnswer
  PROVE  \E v \in ValuesIn(C) : answer'.evidence = EvidenceOf(C, v)
<1>1. \A v : Give(v, EvidenceOf(C, v)) => answer'.evidence = EvidenceOf(C, v)
  BY DEF Give
<1>2. CASE Cardinality(ValuesIn(C)) < 2
  BY <1>1, <1>2 DEF ChooseUnlessConflict, Choose, Refuse, Top
<1>3. CASE ~(Cardinality(ValuesIn(C)) < 2)
  BY <1>1, <1>3 DEF ChooseUnlessConflict, Refuse, Top
<1> QED BY <1>2, <1>3

Latest(evidence) ==
  \A p \in Edges(View), r \in evidence : Sentence(r).day >= Sentence(p).day

LEMMA DecisionLatest ==
  ASSUME TypeOK, Selected, Found, DatesSort, q.scope = "latest",
         q.kind \in {"value", "state"}, pc = "decide", Decision, answer' # NoAnswer
  PROVE  Latest(answer'.evidence)
<1> SUFFICES ASSUME NEW e \in Edges(View), NEW r \in answer'.evidence
             PROVE  Sentence(r).day >= Sentence(e).day
  BY DEF Latest
<1>1. candidates = Candidates
  BY DEF Found
<1>2. Timed # {}
  BY <1>1, EdgeGivesTimed
<1>3. ChooseUnlessConflict(Eligible(View, Timed))
  BY <1>2 DEF Decision, DecideBoolean, DecideExtreme, Extreme, DecideScoped, Scoped, DecideCount,
     Counts, Competing, DecideUnclear, DecideList, DecideUnscoped, DecideOther
<1>4. PICK v \in ValuesIn(Eligible(View, Timed)) :
        answer'.evidence = EvidenceOf(Eligible(View, Timed), v)
  BY <1>3, ChooseQuotes
<1>5. PICK c \in Timed : c.at = r
  BY <1>4 DEF EvidenceOf, Eligible
<1>6. c \in Temporal(View)
  BY <1>1, TimedAreTemporal
<1> QED BY <1>5, <1>6, TemporalLatest

LEMMA LatestStep ==
  TypeOK /\ Selected /\ Found /\ LatestIsLatest /\ [Next]_vars => LatestIsLatest'
<1> SUFFICES ASSUME TypeOK, Selected, Found, LatestIsLatest, [Next]_vars, Answered',
                    (q.kind \in {"value", "state"} /\ q.scope = "latest" /\ DatesSort)'
             PROVE  Latest(answer.evidence)'
  BY DEF LatestIsLatest, Latest, DatesSort
<1>1. UNCHANGED asked
  BY DEF Next, vars, Rank, RankAll, ExpandDone, Expand, Binding, Decide
<1>2. /\ pc' = "done" /\ answer' # NoAnswer /\ q' = q /\ q.kind \in {"value", "state"}
      /\ q.scope = "latest"
  BY <1>1 DEF Answered, NoAnswer, asked
<1>3. ASSUME UNCHANGED <<asked, scope, loaded, terms>>
      PROVE  (DatesSort' <=> DatesSort) /\ \A evidence : Latest(evidence)' <=> Latest(evidence)
  <2>1. View' = View /\ \A p : Sentence(p)' = Sentence(p)
    BY <1>3 DEF View, asked, scope, Sentence
  <2>2. DatedRows' = DatedRows
    BY <1>3, <2>1 DEF asked, Everything, Sentences, DatedRows
  <2>3. /\ \A p : PlainlyDated(p)' <=> PlainlyDated(p)
        /\ \A date : SortedAlike(date)' <=> SortedAlike(date)
    BY <1>3, <2>1, <2>2 DEF PlainlyDated, SortedAlike
  <2>4. /\ [p \in DatedRows |-> Sentence(p).time]' = [p \in DatedRows |-> Sentence(p).time]
        /\ [p \in DatedRows |-> Sentence(p).stamp]' = [p \in DatedRows |-> Sentence(p).stamp]
    BY <2>1, <2>2
  <2>5. \A evidence : Latest(evidence)' <=> Latest(evidence)
    BY <2>1 DEF Latest
  <2>6. DatesSort' <=> DatesSort
    BY <2>1, <2>2, <2>3, <2>4 DEF DatesSort
  <2> QED BY <2>5, <2>6
<1>4. CASE Decide
  <2>1. pc = "decide" /\ Decision /\ UNCHANGED <<asked, scope, loaded, terms>>
    BY <1>4 DEF Decide
  <2>2. Latest(answer'.evidence)
    BY <1>2, <1>3, <2>1, DecisionLatest
  <2> QED BY <1>3, <2>1, <2>2 DEF Latest
<1>5. CASE UNCHANGED vars
  <2>1. UNCHANGED <<asked, scope, loaded, terms>> /\ UNCHANGED <<answer, pc>>
    BY <1>5 DEF vars
  <2>2. Latest(answer.evidence)
    BY <1>2, <1>3, <2>1 DEF LatestIsLatest, Answered, Latest, DatesSort
  <2> QED BY <1>3, <2>1, <2>2 DEF Latest
<1>6. CASE Rank \/ RankAll \/ ExpandDone \/ Expand \/ Binding
  BY <1>2, <1>6 DEF Rank, RankAll, ExpandDone, Expand, Binding
<1> QED BY <1>4, <1>5, <1>6 DEF Next

(* The temporal binders and the choice among what they give: where all dates *)
(* are those of plain conditions that name what held, and their texts sort   *)
(* as their days, the answer to a question of the latest quotes no row that  *)
(* is older than a dated row of the target.                                  *)
THEOREM LatestIsLatestHolds == Spec => []LatestIsLatest
<1>1. Init => Found /\ LatestIsLatest
  BY DEF Init, Found, LatestIsLatest, Answered
<1>2. Spec => [](TypeOK /\ Selected /\ Found /\ LatestIsLatest)
  BY <1>1, SelectedInit, SelectedStep, FoundStep, LatestStep, PTL DEF Spec
<1> QED BY <1>2, PTL
=============================================================================
