----------------------------- MODULE PapersProofs -----------------------------
(***************************************************************************)
(* What merging and ranking give for every list of papers.  Dedupe and     *)
(* Score are folds: each is unfolded into the recursive function that the  *)
(* fold stands for, which exists because no number of steps is the least   *)
(* at which it would not, and what one step does then holds of all.        *)
(***************************************************************************)
EXTENDS Papers, WellFoundedInduction, FiniteSetTheorems, SequenceTheorems, TLAPS

\* A set of naturals that is not empty has a least one.
LEMMA LeastNatural ==
  ASSUME NEW T \in SUBSET Nat, T # {}
  PROVE \E m \in T : \A k \in T : m <= k
<1>1. PICK R : R = OpToRel(<, Nat)
  OBVIOUS
<1>2. IsWellFoundedOn(R, Nat)
  BY <1>1, NatLessThanWellFounded
<1>3. PICK m \in T : \A k \in T : ~(<<k, m>> \in R)
  BY <1>2, WFMin
<1>4. \A x, y \in Nat : <<y, x>> \in R <=> y < x
  BY <1>1 DEF OpToRel
<1>5. \A k \in T : k \in Nat /\ m \in Nat /\ ~(k < m)
  BY <1>3, <1>4
<1>6. \A k \in T : m <= k
  BY <1>5
<1> QED
  BY <1>6

\* The maximum of the numbers up to k is k.
LEMMA MaxOfInitial ==
  ASSUME NEW k \in Nat, NEW s \in SUBSET (1..k), k \in s
  PROVE Max(s) = k
<1>1. k \in s /\ \A y \in s : k >= y
  OBVIOUS
<1>2. Max(s) \in s /\ \A y \in s : Max(s) >= y
  BY <1>1 DEF Max
<1>3. Max(s) \in 1..k
  BY <1>2
<1>4. Max(s) >= k
  BY <1>1, <1>2
<1> QED
  BY <1>3, <1>4

\* g is the recursive function by which FoldLeft merges the first k papers.
Merging(g, papers, k) ==
  g = [s \in SUBSET (1..k) |->
         IF s = {} THEN <<>> ELSE Placed(g[s \ {Max(s)}], papers[Max(s)])]

\* That function exists, whatever the papers.
LEMMA MergingExists ==
  ASSUME NEW papers, NEW n \in Nat
  PROVE \E g : Merging(g, papers, n)
<1> SUFFICES ASSUME ~ \E g : Merging(g, papers, n) PROVE FALSE
  OBVIOUS
<1> DEFINE Bad == {k \in Nat : ~ \E g : Merging(g, papers, k)}
<1>1. PICK m \in Bad : \A k \in Bad : m <= k
  <2>1. Bad \in SUBSET Nat /\ Bad # {}
    OBVIOUS
  <2> HIDE DEF Bad
  <2> QED
    BY <2>1, LeastNatural
<1>2. m # 0
  <2> SUFFICES ASSUME m = 0 PROVE FALSE
    OBVIOUS
  <2> DEFINE g == [s \in SUBSET (1..0) |-> <<>>]
  <2>1. \A s \in SUBSET (1..0) : s = {}
    OBVIOUS
  <2>2. g = [s \in SUBSET (1..0) |->
               IF s = {} THEN <<>> ELSE Placed(g[s \ {Max(s)}], papers[Max(s)])]
    BY <2>1
  <2> QED
    BY <2>2, <1>1 DEF Merging
<1>3. PICK h : Merging(h, papers, m - 1)
  BY <1>1, <1>2
<1> DEFINE g == [s \in SUBSET (1..m) |->
                   IF m \in s THEN Placed(h[s \ {m}], papers[m]) ELSE h[s]]
<1>4. ASSUME NEW s \in SUBSET (1..m), m \notin s
      PROVE s \in SUBSET (1..(m - 1)) /\ g[s] = h[s]
  <2>1. \A i \in s : i \in 1..(m - 1)
    BY <1>1, <1>4
  <2>2. s \in SUBSET (1..(m - 1))
    BY <2>1
  <2>3. g[s] = h[s]
    BY <1>4
  <2> QED
    BY <2>2, <2>3
<1>5. ASSUME NEW s \in SUBSET (1..m)
      PROVE g[s] = IF s = {} THEN <<>> ELSE Placed(g[s \ {Max(s)}], papers[Max(s)])
  <2>1. CASE m \in s
    <3>1. Max(s) = m
      BY <2>1, <1>1, MaxOfInitial
    <3>2. g[s \ {m}] = h[s \ {m}]
      OBVIOUS
    <3>3. s # {} /\ g[s] = Placed(h[s \ {m}], papers[m])
      BY <2>1
    <3> HIDE DEF g
    <3> QED
      BY <3>1, <3>2, <3>3
  <2>2. CASE m \notin s
    <3>1. s \in SUBSET (1..(m - 1)) /\ g[s] = h[s]
      BY <2>2, <1>4
    <3>2. h[s] = IF s = {} THEN <<>> ELSE Placed(h[s \ {Max(s)}], papers[Max(s)])
      BY <1>3, <3>1 DEF Merging
    <3>3. g[s \ {Max(s)}] = h[s \ {Max(s)}]
      BY <2>2
    <3> HIDE DEF g
    <3> QED
      BY <3>1, <3>2, <3>3
  <2> QED
    BY <2>1, <2>2
<1>6. g = [s \in SUBSET (1..m) |->
             IF s = {} THEN <<>> ELSE Placed(g[s \ {Max(s)}], papers[Max(s)])]
  BY <1>5
<1> HIDE DEF g
<1> QED
  BY <1>6, <1>1 DEF Merging

\* What Dedupe returns is reached in steps, one for each paper.
LEMMA DedupeSteps ==
  ASSUME NEW papers, NEW n \in Nat, DOMAIN papers = 1..n
  PROVE \E run : /\ run[0] = <<>> /\ run[n] = Dedupe(papers)
                 /\ \A k \in 1..n : run[k] = Placed(run[k - 1], papers[k])
<1> DEFINE iter == CHOOSE g : Merging(g, papers, n)
<1>1. Merging(iter, papers, n)
  BY MergingExists
<1>2. Dedupe(papers) = iter[1..n]
  BY DEF Dedupe, FoldLeft, MapThenFoldSet, Merging
<1> HIDE DEF iter
<1>3. ASSUME NEW k \in 1..n PROVE iter[1..k] = Placed(iter[1..(k - 1)], papers[k])
  <2>1. (1..k) \in SUBSET (1..n) /\ 1..k # {} /\ (1..k) \ {k} = 1..(k - 1)
    OBVIOUS
  <2>2. Max(1..k) = k
    BY MaxOfInitial
  <2>3. iter[1..k] = Placed(iter[(1..k) \ {Max(1..k)}], papers[Max(1..k)])
    BY <1>1, <2>1 DEF Merging
  <2> QED
    BY <2>1, <2>2, <2>3
<1>4. iter[1..0] = <<>>
  <2>1. 1..0 = {} /\ {} \in SUBSET (1..n)
    OBVIOUS
  <2> QED
    BY <1>1, <2>1 DEF Merging
<1>5. PICK run : run = [k \in 0..n |-> iter[1..k]]
  OBVIOUS
<1>6. \A k \in 0..n : run[k] = iter[1..k]
  BY <1>5
<1>7. run[0] = <<>> /\ run[n] = Dedupe(papers)
  BY <1>2, <1>4, <1>6
<1>8. ASSUME NEW k \in 1..n PROVE run[k] = Placed(run[k - 1], papers[k])
  <2>1. k \in 0..n /\ k - 1 \in 0..n
    OBVIOUS
  <2> QED
    BY <1>3, <1>6, <2>1
<1> QED
  BY <1>7, <1>8

\* A paper as a source answers it, a record as Dedupe builds it: the fields it has.
PaperFields == {"source", "sid", "doi", "title", "abstract", "citations", "urls"}
IsPaper(p) == DOMAIN p = PaperFields /\ p.abstract \in Nat /\ p.citations \in Nat
IsRecord(r) ==
  /\ DOMAIN r = PaperFields \cup {"sources"} /\ r = [x \in DOMAIN r |-> r[x]]
  /\ r.abstract \in Nat /\ r.citations \in Nat
  /\ \E S : r.sources \in Seq(S)

\* Appending one element to a list that may have it already.
LEMMA AppendedOne ==
  ASSUME NEW list, NEW x, NEW S, list \in Seq(S)
  PROVE /\ Appended(list, <<x>>) \in Seq(S \cup {x})
        /\ ToSet(Appended(list, <<x>>)) = ToSet(list) \cup {x}
<1> DEFINE result == IF Contains(list, x) THEN list ELSE Append(list, x)
<1>1. Appended(list, <<x>>) = result
  <2> DEFINE body(g, s) == IF s = {} THEN list
                           ELSE IF Contains(g[s \ {Max(s)}], <<x>>[Max(s)]) THEN g[s \ {Max(s)}]
                                ELSE Append(g[s \ {Max(s)}], <<x>>[Max(s)])
  <2> DEFINE iter == CHOOSE g : g = [s \in SUBSET {1} |-> body(g, s)]
  <2>1. Max({1}) = 1 /\ <<x>>[1] = x /\ DOMAIN <<x>> = {1}
    BY MaxOfInitial
  <2>2. iter = [s \in SUBSET {1} |-> body(iter, s)]
    <3> DEFINE g == [s \in SUBSET {1} |-> IF s = {} THEN list ELSE result]
    <3>1. \A s \in SUBSET {1} : s = {} \/ s = {1}
      OBVIOUS
    <3>2. g[{}] = list /\ {1} \ {1} = {}
      OBVIOUS
    <3>3. g[{1}] = body(g, {1}) /\ g[{}] = body(g, {})
      BY <2>1, <3>2
    <3>4. \A s \in SUBSET {1} : g[s] = body(g, s)
      BY <3>1, <3>3
    <3>5. g = [s \in SUBSET {1} |-> body(g, s)]
      BY <3>4
    <3> QED
      BY <3>5
  <2>3. Appended(list, <<x>>) = iter[{1}]
    BY <2>1 DEF Appended, FoldLeft, MapThenFoldSet
  <2> HIDE DEF iter
  <2>4. iter[{}] = list /\ {1} \ {1} = {}
    BY <2>2
  <2> QED
    BY <2>1, <2>2, <2>3, <2>4
<1>2. Contains(list, x) <=> x \in ToSet(list)
  BY DEF Contains, ToSet
<1>3. CASE Contains(list, x)
  BY <1>1, <1>2, <1>3
<1>4. CASE ~Contains(list, x)
  <2>1. result = Append(list, x) /\ result \in Seq(S \cup {x})
    BY <1>4
  <2>2. ToSet(Append(list, x)) = ToSet(list) \cup {x}
    <3>1. /\ DOMAIN list = 1..Len(list) /\ Len(list) \in Nat
          /\ DOMAIN Append(list, x) = 1..(Len(list) + 1)
          /\ Append(list, x)[Len(list) + 1] = x
          /\ \A i \in 1..Len(list) : Append(list, x)[i] = list[i]
      OBVIOUS
    <3>2. \A i \in 1..(Len(list) + 1) : i \in 1..Len(list) \/ i = Len(list) + 1
      BY <3>1
    <3>3. \A i \in 1..Len(list) : i \in 1..(Len(list) + 1)
      BY <3>1
    <3>4. Len(list) + 1 \in 1..(Len(list) + 1)
      BY <3>1
    <3>5. \A y : y \in ToSet(Append(list, x)) <=> y \in ToSet(list) \cup {x}
      BY <3>1, <3>2, <3>3, <3>4 DEF ToSet
    <3> QED
      BY <3>5
  <2> QED
    BY <1>1, <2>1, <2>2
<1> QED
  BY <1>3, <1>4

\* Enriching a record keeps its key and adds what the paper brings.
LEMMA MergedFields ==
  ASSUME NEW kept, IsRecord(kept), NEW p, IsPaper(p)
  PROVE LET r == Merged(kept, p) IN
        /\ IsRecord(r) /\ MergeKey(r) = MergeKey(kept)
        /\ ToSet(r.sources) = ToSet(kept.sources) \cup {p.source}
        /\ r.abstract = Larger(kept.abstract, p.abstract)
        /\ r.citations = Larger(kept.citations, p.citations)
<1> DEFINE r == Merged(kept, p)
<1>1. /\ DOMAIN r = PaperFields \cup {"sources"} /\ r = [x \in DOMAIN r |-> r[x]]
      /\ r.abstract = Larger(kept.abstract, p.abstract)
      /\ r.citations = Larger(kept.citations, p.citations)
      /\ r.sources = Appended(kept.sources, <<p.source>>)
      /\ r.source = kept.source /\ r.sid = kept.sid /\ r.doi = kept.doi /\ r.title = kept.title
  BY DEF Merged, IsRecord, PaperFields
<1>2. MergeKey(r) = MergeKey(kept)
  BY <1>1 DEF MergeKey
<1>3. r.abstract \in Nat /\ r.citations \in Nat
  BY <1>1 DEF Larger, IsRecord, IsPaper
<1>4. PICK S : kept.sources \in Seq(S)
  BY DEF IsRecord
<1> HIDE DEF r
<1>5. r.sources \in Seq(S \cup {p.source}) /\ ToSet(r.sources) = ToSet(kept.sources) \cup {p.source}
  <2>1. /\ Appended(kept.sources, <<p.source>>) \in Seq(S \cup {p.source})
        /\ ToSet(Appended(kept.sources, <<p.source>>)) = ToSet(kept.sources) \cup {p.source}
    BY <1>4, AppendedOne
  <2> QED
    BY <1>1, <2>1
<1>6. IsRecord(r)
  BY <1>1, <1>3, <1>5 DEF IsRecord
<1> QED
  BY <1>1, <1>2, <1>5, <1>6 DEF r

\* A record of its own.
LEMMA FirstSeenFields ==
  ASSUME NEW p, IsPaper(p)
  PROVE LET r == FirstSeen(p) IN
        /\ IsRecord(r) /\ MergeKey(r) = MergeKey(p)
        /\ ToSet(r.sources) = {p.source} /\ r.abstract = p.abstract /\ r.citations = p.citations
<1> DEFINE r == FirstSeen(p)
<1>1. /\ DOMAIN r = PaperFields \cup {"sources"} /\ r = [x \in DOMAIN r |-> r[x]]
      /\ r.abstract = p.abstract /\ r.citations = p.citations /\ r.sources = <<p.source>>
      /\ r.source = p.source /\ r.sid = p.sid /\ r.doi = p.doi /\ r.title = p.title
  BY DEF FirstSeen, PaperFields
<1>2. MergeKey(r) = MergeKey(p)
  BY <1>1 DEF MergeKey
<1>3. r.sources \in Seq({p.source}) /\ ToSet(r.sources) = {p.source}
  BY <1>1 DEF ToSet
<1> HIDE DEF r
<1>4. IsRecord(r)
  BY <1>1, <1>3 DEF IsRecord, IsPaper
<1> QED
  BY <1>1, <1>2, <1>3, <1>4 DEF r
-----------------------------------------------------------------------------
\* The first k papers that have a key.
Sharing(papers, k, key) == {papers[i] : i \in {j \in 1..k : MergeKey(papers[j]) = key}}
IsGreatest(v, S) == v \in S /\ \A w \in S : w <= v

\* What a record says of the papers that share its key.
RecordFaithful(r, papers, k) ==
  LET group == Sharing(papers, k, MergeKey(r)) IN
  /\ ToSet(r.sources) = {p.source : p \in group}
  /\ IsGreatest(r.citations, {p.citations : p \in group})
  /\ IsGreatest(r.abstract, {p.abstract : p \in group})

\* No paper with the key of a later record comes before all those with the key of an earlier one.
InOrder(out, papers, k) ==
  \A i, j \in DOMAIN out : i < j =>
    \A b \in 1..k : MergeKey(papers[b]) = MergeKey(out[j]) =>
      \E a \in 1..(b - 1) : MergeKey(papers[a]) = MergeKey(out[i])

\* What is merged of the first k papers.
FaithfulTo(out, papers, k) ==
  /\ \E S : out \in Seq(S)
  /\ \A i \in DOMAIN out : IsRecord(out[i]) /\ RecordFaithful(out[i], papers, k)
  /\ \A j \in 1..k : \E i \in DOMAIN out : MergeKey(out[i]) = MergeKey(papers[j])
  /\ \A i \in DOMAIN out : \E j \in 1..k : MergeKey(out[i]) = MergeKey(papers[j])
  /\ InOrder(out, papers, k)

\* One paper more belongs to those that share its key and to no others.
LEMMA SharingStep ==
  ASSUME NEW papers, NEW k \in Nat \ {0}, NEW key
  PROVE /\ MergeKey(papers[k]) = key =>
             Sharing(papers, k, key) = Sharing(papers, k - 1, key) \cup {papers[k]}
        /\ MergeKey(papers[k]) # key => Sharing(papers, k, key) = Sharing(papers, k - 1, key)
<1>1. \A j : j \in 1..k <=> (j \in 1..(k - 1) \/ j = k)
  OBVIOUS
<1>2. MergeKey(papers[k]) = key =>
        {j \in 1..k : MergeKey(papers[j]) = key} = {j \in 1..(k - 1) : MergeKey(papers[j]) = key} \cup {k}
  BY <1>1
<1>3. MergeKey(papers[k]) # key =>
        {j \in 1..k : MergeKey(papers[j]) = key} = {j \in 1..(k - 1) : MergeKey(papers[j]) = key}
  BY <1>1
<1>4. \A A : {papers[i] : i \in A \cup {k}} = {papers[i] : i \in A} \cup {papers[k]}
  OBVIOUS
<1> QED
  BY <1>2, <1>3, <1>4 DEF Sharing

\* The larger of the greatest and a newcomer is the greatest.
LEMMA GreatestStep ==
  ASSUME NEW v \in Nat, NEW w \in Nat, NEW S \in SUBSET Nat, IsGreatest(v, S)
  PROVE IsGreatest(Larger(v, w), S \cup {w})
BY DEF IsGreatest, Larger

\* A record is enriched with a paper that has its key.
LEMMA EnrichedFaithful ==
  ASSUME NEW papers, NEW k \in Nat \ {0}, NEW r, IsRecord(r), RecordFaithful(r, papers, k - 1),
         \A j \in 1..k : IsPaper(papers[j]), MergeKey(papers[k]) = MergeKey(r)
  PROVE RecordFaithful(Merged(r, papers[k]), papers, k)
<1> DEFINE p == papers[k]  m == Merged(r, p)
           group == Sharing(papers, k - 1, MergeKey(r))
<1>1. IsPaper(p)
  OBVIOUS
<1>2. /\ MergeKey(m) = MergeKey(r) /\ ToSet(m.sources) = ToSet(r.sources) \cup {p.source}
      /\ m.abstract = Larger(r.abstract, p.abstract)
      /\ m.citations = Larger(r.citations, p.citations)
  BY <1>1, MergedFields
<1>3. Sharing(papers, k, MergeKey(m)) = group \cup {p}
  BY <1>2, SharingStep
<1>4. \A q \in group : IsPaper(q)
  BY DEF Sharing
<1>5. /\ r.abstract \in Nat /\ p.abstract \in Nat /\ {q.abstract : q \in group} \in SUBSET Nat
      /\ r.citations \in Nat /\ p.citations \in Nat /\ {q.citations : q \in group} \in SUBSET Nat
  BY <1>1, <1>4 DEF IsPaper, IsRecord
<1>6. /\ ToSet(r.sources) = {q.source : q \in group}
      /\ IsGreatest(r.citations, {q.citations : q \in group})
      /\ IsGreatest(r.abstract, {q.abstract : q \in group})
  BY DEF RecordFaithful
<1> HIDE DEF p, m, group
<1>7. /\ {q.source : q \in group \cup {p}} = {q.source : q \in group} \cup {p.source}
      /\ {q.citations : q \in group \cup {p}} = {q.citations : q \in group} \cup {p.citations}
      /\ {q.abstract : q \in group \cup {p}} = {q.abstract : q \in group} \cup {p.abstract}
  OBVIOUS
<1>8. /\ IsGreatest(m.citations, {q.citations : q \in group} \cup {p.citations})
      /\ IsGreatest(m.abstract, {q.abstract : q \in group} \cup {p.abstract})
  BY <1>2, <1>5, <1>6, GreatestStep
<1>9. RecordFaithful(m, papers, k)
  BY <1>2, <1>3, <1>6, <1>7, <1>8 DEF RecordFaithful
<1> QED
  BY <1>9 DEF m, p

\* A record is left alone by a paper that has another key.
LEMMA OtherFaithful ==
  ASSUME NEW papers, NEW k \in Nat \ {0}, NEW r, RecordFaithful(r, papers, k - 1),
         MergeKey(papers[k]) # MergeKey(r)
  PROVE RecordFaithful(r, papers, k)
<1>1. Sharing(papers, k, MergeKey(r)) = Sharing(papers, k - 1, MergeKey(r))
  BY SharingStep
<1> QED
  BY <1>1 DEF RecordFaithful

\* A record of its own speaks of the one paper that has its key.
LEMMA NewFaithful ==
  ASSUME NEW papers, NEW k \in Nat \ {0}, IsPaper(papers[k]),
         \A j \in 1..(k - 1) : MergeKey(papers[j]) # MergeKey(papers[k])
  PROVE RecordFaithful(FirstSeen(papers[k]), papers, k)
<1> DEFINE p == papers[k]  r == FirstSeen(p)
<1>1. /\ MergeKey(r) = MergeKey(p) /\ ToSet(r.sources) = {p.source}
      /\ r.abstract = p.abstract /\ r.citations = p.citations
  BY FirstSeenFields
<1>2. Sharing(papers, k - 1, MergeKey(p)) = {}
  BY DEF Sharing
<1>3. Sharing(papers, k, MergeKey(r)) = {p}
  BY <1>1, <1>2, SharingStep
<1>4. p.abstract \in Nat /\ p.citations \in Nat
  BY DEF IsPaper
<1> HIDE DEF p, r
<1>5. RecordFaithful(r, papers, k)
  BY <1>1, <1>3, <1>4 DEF RecordFaithful, IsGreatest
<1> QED
  BY <1>5 DEF r, p

\* A paper that shares the key of a record leaves as many records, with the same keys.
LEMMA EnrichedStep ==
  ASSUME NEW out, NEW papers, NEW k \in Nat \ {0}, FaithfulTo(out, papers, k - 1),
         \A j \in 1..k : IsPaper(papers[j]),
         \E i \in DOMAIN out : MergeKey(out[i]) = MergeKey(papers[k])
  PROVE FaithfulTo(Placed(out, papers[k]), papers, k)
<1> DEFINE p == papers[k]  new == Placed(out, p)
<1>1. new = [i \in DOMAIN out |-> IF MergeKey(out[i]) = MergeKey(p) THEN Merged(out[i], p) ELSE out[i]]
  BY DEF Placed
<1>2. DOMAIN new = DOMAIN out
  BY <1>1
<1>3. ASSUME NEW i \in DOMAIN out
      PROVE IsRecord(new[i]) /\ RecordFaithful(new[i], papers, k) /\ MergeKey(new[i]) = MergeKey(out[i])
  <2> IsPaper(p)
    OBVIOUS
  <2>1. IsRecord(out[i]) /\ RecordFaithful(out[i], papers, k - 1)
    BY DEF FaithfulTo
  <2>2. CASE MergeKey(out[i]) = MergeKey(p)
    <3>1. new[i] = Merged(out[i], p)
      BY <1>1, <2>2
    <3>2. IsRecord(Merged(out[i], p)) /\ MergeKey(Merged(out[i], p)) = MergeKey(out[i])
      BY <2>1, MergedFields
    <3>3. RecordFaithful(Merged(out[i], p), papers, k)
      BY <2>1, <2>2, EnrichedFaithful
    <3> QED
      BY <3>1, <3>2, <3>3
  <2>3. CASE MergeKey(out[i]) # MergeKey(p)
    <3>1. new[i] = out[i]
      BY <1>1, <2>3
    <3>2. RecordFaithful(out[i], papers, k)
      BY <2>1, <2>3, OtherFaithful
    <3> QED
      BY <2>1, <3>1, <3>2
  <2> QED
    BY <2>2, <2>3
<1>4. \E S : new \in Seq(S)
  <2>1. PICK S : out \in Seq(S)
    BY DEF FaithfulTo
  <2>2. Len(out) \in Nat /\ DOMAIN out = 1..Len(out)
    BY <2>1
  <2>3. new \in [1..Len(out) -> {new[i] : i \in DOMAIN out}]
    BY <1>1, <2>2
  <2>4. new \in Seq({new[i] : i \in DOMAIN out})
    <3> HIDE DEF new
    <3> QED
      BY <2>2, <2>3, SeqDef
  <2> QED
    BY <2>4
<1> HIDE DEF new
<1>5. \A j \in 1..k : \E i \in DOMAIN new : MergeKey(new[i]) = MergeKey(papers[j])
  <2> SUFFICES ASSUME NEW j \in 1..k PROVE \E i \in DOMAIN new : MergeKey(new[i]) = MergeKey(papers[j])
    OBVIOUS
  <2>1. j \in 1..(k - 1) \/ j = k
    OBVIOUS
  <2>2. \E i \in DOMAIN out : MergeKey(out[i]) = MergeKey(papers[j])
    BY <2>1 DEF FaithfulTo
  <2> QED
    BY <1>2, <1>3, <2>2
<1>6. \A i \in DOMAIN new : \E j \in 1..k : MergeKey(new[i]) = MergeKey(papers[j])
  <2> SUFFICES ASSUME NEW i \in DOMAIN out PROVE \E j \in 1..k : MergeKey(new[i]) = MergeKey(papers[j])
    BY <1>2
  <2>1. PICK j \in 1..(k - 1) : MergeKey(out[i]) = MergeKey(papers[j])
    BY DEF FaithfulTo
  <2> QED
    BY <1>3, <2>1
<1>7. InOrder(new, papers, k)
  <2> SUFFICES ASSUME NEW i \in DOMAIN out, NEW j \in DOMAIN out, i < j,
                      NEW b \in 1..k, MergeKey(papers[b]) = MergeKey(out[j])
               PROVE \E a \in 1..(b - 1) : MergeKey(papers[a]) = MergeKey(out[i])
    BY <1>2, <1>3 DEF InOrder
  <2>1. CASE b \in 1..(k - 1)
    BY <2>1 DEF FaithfulTo, InOrder
  <2>2. CASE b = k
    <3>1. PICK c \in 1..(k - 1) : MergeKey(out[j]) = MergeKey(papers[c])
      BY DEF FaithfulTo
    <3>2. PICK a \in 1..(c - 1) : MergeKey(papers[a]) = MergeKey(out[i])
      BY <3>1 DEF FaithfulTo, InOrder
    <3>3. a \in 1..(b - 1)
      BY <2>2, <3>1, <3>2
    <3> QED
      BY <3>2, <3>3
  <2> QED
    BY <2>1, <2>2
<1>8. FaithfulTo(new, papers, k)
  BY <1>2, <1>3, <1>4, <1>5, <1>6, <1>7 DEF FaithfulTo
<1> QED
  BY <1>8 DEF new

\* A paper with a key of its own comes last.
LEMMA AppendedStep ==
  ASSUME NEW out, NEW papers, NEW k \in Nat \ {0}, FaithfulTo(out, papers, k - 1),
         \A j \in 1..k : IsPaper(papers[j]),
         \A i \in DOMAIN out : MergeKey(out[i]) # MergeKey(papers[k])
  PROVE FaithfulTo(Placed(out, papers[k]), papers, k)
<1> DEFINE p == papers[k]  r == FirstSeen(p)  new == Append(out, r)  n == Len(out)
<1>1. Placed(out, p) = new
  BY DEF Placed
<1>2. PICK S : out \in Seq(S)
  BY DEF FaithfulTo
<1>3. /\ n \in Nat /\ DOMAIN out = 1..n /\ DOMAIN new = 1..(n + 1)
      /\ new[n + 1] = r /\ \A i \in 1..n : new[i] = out[i]
  BY <1>2
<1>4. \E T : new \in Seq(T)
  <2>1. new \in Seq(S \cup {r})
    BY <1>2
  <2> QED
    BY <2>1
<1>5. IsRecord(r) /\ MergeKey(r) = MergeKey(p)
  BY FirstSeenFields
<1>6. \A j \in 1..(k - 1) : MergeKey(papers[j]) # MergeKey(p)
  BY DEF FaithfulTo
<1>7. RecordFaithful(r, papers, k)
  BY <1>6, NewFaithful
<1>8. \A i \in 1..n : IsRecord(out[i]) /\ RecordFaithful(out[i], papers, k)
  <2> SUFFICES ASSUME NEW i \in 1..n PROVE IsRecord(out[i]) /\ RecordFaithful(out[i], papers, k)
    OBVIOUS
  <2>1. IsRecord(out[i]) /\ RecordFaithful(out[i], papers, k - 1) /\ MergeKey(papers[k]) # MergeKey(out[i])
    BY <1>3 DEF FaithfulTo
  <2> QED
    BY <2>1, OtherFaithful
<1> HIDE DEF new, r, n
<1>9. \A i \in DOMAIN new : i \in 1..n \/ i = n + 1
  BY <1>3
<1>10. \A i \in DOMAIN new : IsRecord(new[i]) /\ RecordFaithful(new[i], papers, k)
  BY <1>3, <1>5, <1>7, <1>8, <1>9
<1>11. \A j \in 1..k : \E i \in DOMAIN new : MergeKey(new[i]) = MergeKey(papers[j])
  <2> SUFFICES ASSUME NEW j \in 1..k PROVE \E i \in DOMAIN new : MergeKey(new[i]) = MergeKey(papers[j])
    OBVIOUS
  <2>1. CASE j = k
    <3>1. n + 1 \in DOMAIN new
      BY <1>3
    <3> QED
      BY <1>3, <1>5, <2>1, <3>1
  <2>2. CASE j \in 1..(k - 1)
    <3>1. PICK i \in DOMAIN out : MergeKey(out[i]) = MergeKey(papers[j])
      BY <2>2 DEF FaithfulTo
    <3>2. i \in DOMAIN new /\ new[i] = out[i]
      BY <1>3, <3>1
    <3> QED
      BY <3>1, <3>2
  <2> QED
    BY <2>1, <2>2
<1>12. \A i \in DOMAIN new : \E j \in 1..k : MergeKey(new[i]) = MergeKey(papers[j])
  <2> SUFFICES ASSUME NEW i \in DOMAIN new PROVE \E j \in 1..k : MergeKey(new[i]) = MergeKey(papers[j])
    OBVIOUS
  <2>1. CASE i = n + 1
    BY <1>3, <1>5, <2>1
  <2>2. CASE i \in 1..n
    <3>1. PICK j \in 1..(k - 1) : MergeKey(out[i]) = MergeKey(papers[j])
      BY <1>3, <2>2 DEF FaithfulTo
    <3> QED
      BY <1>3, <2>2, <3>1
  <2> QED
    BY <1>9, <2>1, <2>2
<1>13. InOrder(new, papers, k)
  <2> SUFFICES ASSUME NEW i \in DOMAIN new, NEW j \in DOMAIN new, i < j,
                      NEW b \in 1..k, MergeKey(papers[b]) = MergeKey(new[j])
               PROVE \E a \in 1..(b - 1) : MergeKey(papers[a]) = MergeKey(new[i])
    BY DEF InOrder
  <2>1. i \in 1..n /\ i \in DOMAIN out /\ new[i] = out[i]
    BY <1>3, <1>9
  <2>2. CASE j = n + 1
    <3>1. b = k
      BY <1>3, <1>5, <1>6, <2>2
    <3>2. PICK a \in 1..(k - 1) : MergeKey(out[i]) = MergeKey(papers[a])
      BY <2>1 DEF FaithfulTo
    <3> QED
      BY <2>1, <3>1, <3>2
  <2>3. CASE j \in 1..n
    <3>1. j \in DOMAIN out /\ new[j] = out[j] /\ MergeKey(out[j]) # MergeKey(p)
      BY <1>3, <2>3
    <3>2. b \in 1..(k - 1)
      BY <3>1
    <3> QED
      BY <2>1, <3>1, <3>2 DEF FaithfulTo, InOrder
  <2> QED
    BY <1>9, <2>2, <2>3
<1>14. FaithfulTo(new, papers, k)
  BY <1>4, <1>10, <1>11, <1>12, <1>13 DEF FaithfulTo
<1> QED
  BY <1>1, <1>14

\* dedupe is faithful to any list of papers, however long.
THEOREM DedupeIsFaithful ==
  ASSUME NEW papers, NEW n \in Nat, DOMAIN papers = 1..n, \A j \in 1..n : IsPaper(papers[j])
  PROVE FaithfulTo(Dedupe(papers), papers, n)
<1>1. PICK run : /\ run[0] = <<>> /\ run[n] = Dedupe(papers)
                 /\ \A k \in 1..n : run[k] = Placed(run[k - 1], papers[k])
  BY DedupeSteps
<1>2. FaithfulTo(<<>>, papers, 0)
  <2>1. <<>> \in Seq({}) /\ DOMAIN <<>> = {} /\ 1..0 = {}
    OBVIOUS
  <2> QED
    BY <2>1 DEF FaithfulTo, InOrder
<1> DEFINE Bad == {k \in 0..n : ~FaithfulTo(run[k], papers, k)}
<1>3. Bad = {}
  <2> SUFFICES ASSUME Bad # {} PROVE FALSE
    OBVIOUS
  <2>1. Bad \in SUBSET Nat
    OBVIOUS
  <2>2. PICK m \in Bad : \A k \in Bad : m <= k
    <3> HIDE DEF Bad
    <3> QED
      BY <2>1, LeastNatural
  <2>3. m # 0 /\ m \in 1..n
    BY <1>1, <1>2, <2>2
  <2>4. m - 1 \notin Bad /\ m - 1 \in 0..n
    BY <2>2, <2>3
  <2>5. FaithfulTo(run[m - 1], papers, m - 1) /\ \A j \in 1..m : IsPaper(papers[j])
    BY <2>3, <2>4
  <2>6. FaithfulTo(Placed(run[m - 1], papers[m]), papers, m)
    <3>1. PICK out : out = run[m - 1]
      OBVIOUS
    <3>2. m \in Nat \ {0} /\ FaithfulTo(out, papers, m - 1)
      BY <2>3, <2>5, <3>1
    <3>3. CASE \E i \in DOMAIN out : MergeKey(out[i]) = MergeKey(papers[m])
      BY <2>5, <3>1, <3>2, <3>3, EnrichedStep
    <3>4. CASE \A i \in DOMAIN out : MergeKey(out[i]) # MergeKey(papers[m])
      BY <2>5, <3>1, <3>2, <3>4, AppendedStep
    <3> QED
      BY <3>3, <3>4
  <2>7. FaithfulTo(run[m], papers, m)
    BY <1>1, <2>3, <2>6
  <2> QED
    BY <2>2, <2>7
<1>4. n \in 0..n /\ n \notin Bad
  BY <1>3
<1>5. FaithfulTo(run[n], papers, n)
  BY <1>4
<1> QED
  BY <1>1, <1>5
-----------------------------------------------------------------------------
\* g is the recursive function by which Product multiplies the values of f over the
\* sets of at most k elements of S.
Taken(s) == CHOOSE x \in s : TRUE
UpTo(S, k) == {s \in SUBSET S : Cardinality(s) <= k}
Multiplying(g, f, S, k) ==
  g = [s \in UpTo(S, k) |-> IF s = {} THEN 1 ELSE f[Taken(s)] * g[s \ {Taken(s)}]]

\* Taking an element from a set of elements of a finite set.
LEMMA Smaller ==
  ASSUME NEW S, IsFiniteSet(S), NEW s \in SUBSET S, NEW x \in s
  PROVE /\ IsFiniteSet(s) /\ IsFiniteSet(s \ {x}) /\ s \ {x} \in SUBSET S
        /\ Cardinality(s) \in Nat \ {0} /\ Cardinality(s \ {x}) = Cardinality(s) - 1
<1>1. IsFiniteSet(s) /\ Cardinality(s) \in Nat
  BY FS_Subset, FS_CardinalityType
<1>2. IsFiniteSet(s \ {x}) /\ Cardinality(s \ {x}) = Cardinality(s) - 1
  BY <1>1, FS_RemoveElement
<1>3. Cardinality(s \ {x}) \in Nat
  BY <1>2, FS_CardinalityType
<1> QED
  BY <1>1, <1>2, <1>3

\* That function exists for every finite set.
LEMMA MultiplyingExists ==
  ASSUME NEW S, IsFiniteSet(S), NEW f, NEW n \in Nat
  PROVE \E g : Multiplying(g, f, S, n)
<1> SUFFICES ASSUME ~ \E g : Multiplying(g, f, S, n) PROVE FALSE
  OBVIOUS
<1> DEFINE Bad == {k \in Nat : ~ \E g : Multiplying(g, f, S, k)}
<1>1. PICK m \in Bad : \A k \in Bad : m <= k
  <2>1. Bad \in SUBSET Nat /\ Bad # {}
    OBVIOUS
  <2> HIDE DEF Bad
  <2> QED
    BY <2>1, LeastNatural
<1>2. \A s \in SUBSET S : IsFiniteSet(s) /\ Cardinality(s) \in Nat /\ (s = {} <=> Cardinality(s) = 0)
  BY FS_Subset, FS_CardinalityType, FS_EmptySet
<1>3. \A s \in SUBSET S : s # {} => Taken(s) \in s
  BY DEF Taken
<1>4. m # 0
  <2> SUFFICES ASSUME m = 0 PROVE FALSE
    OBVIOUS
  <2> DEFINE g == [s \in UpTo(S, 0) |-> 1]
  <2>1. \A s \in UpTo(S, 0) : s = {}
    BY <1>2 DEF UpTo
  <2>2. g = [s \in UpTo(S, 0) |-> IF s = {} THEN 1 ELSE f[Taken(s)] * g[s \ {Taken(s)}]]
    BY <2>1
  <2> HIDE DEF g
  <2> QED
    BY <2>2, <1>1 DEF Multiplying
<1>5. PICK h : Multiplying(h, f, S, m - 1)
  BY <1>1, <1>4
<1>6. m \in Nat \ {0}
  BY <1>1, <1>4
<1> DEFINE g == [s \in UpTo(S, m) |-> IF s \in UpTo(S, m - 1) THEN h[s] ELSE f[Taken(s)] * h[s \ {Taken(s)}]]
<1>7. \A s \in UpTo(S, m) : s # {} => s \ {Taken(s)} \in UpTo(S, m - 1)
  <2> SUFFICES ASSUME NEW s \in UpTo(S, m), s # {} PROVE s \ {Taken(s)} \in UpTo(S, m - 1)
    OBVIOUS
  <2>1. s \in SUBSET S /\ Cardinality(s) <= m
    BY DEF UpTo
  <2>2. Taken(s) \in s
    BY <1>3, <2>1
  <2>3. /\ s \ {Taken(s)} \in SUBSET S /\ Cardinality(s) \in Nat
        /\ Cardinality(s \ {Taken(s)}) = Cardinality(s) - 1
    BY <2>1, <2>2, Smaller
  <2>4. Cardinality(s \ {Taken(s)}) <= m - 1
    BY <1>6, <2>1, <2>3
  <2> QED
    BY <2>3, <2>4 DEF UpTo
<1>8. \A s \in UpTo(S, m - 1) : s \in UpTo(S, m) /\ g[s] = h[s]
  <2>1. \A s \in UpTo(S, m - 1) : s \in UpTo(S, m)
    BY <1>2, <1>6 DEF UpTo
  <2> QED
    BY <2>1
<1>9. ASSUME NEW s \in UpTo(S, m)
      PROVE g[s] = IF s = {} THEN 1 ELSE f[Taken(s)] * g[s \ {Taken(s)}]
  <2>1. CASE s = {}
    <3>1. s \in UpTo(S, m - 1)
      BY <1>2, <1>6, <2>1 DEF UpTo
    <3>2. h[s] = 1
      BY <1>5, <2>1, <3>1 DEF Multiplying
    <3> HIDE DEF g
    <3> QED
      BY <1>8, <2>1, <3>1, <3>2
  <2>2. CASE s # {}
    <3>1. s \ {Taken(s)} \in UpTo(S, m - 1) /\ g[s \ {Taken(s)}] = h[s \ {Taken(s)}]
      BY <1>7, <1>8, <2>2
    <3>2. CASE s \in UpTo(S, m - 1)
      <4>1. h[s] = f[Taken(s)] * h[s \ {Taken(s)}]
        BY <1>5, <2>2, <3>2 DEF Multiplying
      <4>2. g[s] = h[s]
        BY <1>8, <3>2
      <4> HIDE DEF g
      <4> QED
        BY <2>2, <3>1, <4>1, <4>2
    <3>3. CASE s \notin UpTo(S, m - 1)
      <4>1. g[s] = f[Taken(s)] * h[s \ {Taken(s)}]
        BY <3>3
      <4> HIDE DEF g
      <4> QED
        BY <2>2, <3>1, <4>1
    <3> QED
      BY <3>2, <3>3
  <2> QED
    BY <2>1, <2>2
<1>10. g = [s \in UpTo(S, m) |-> IF s = {} THEN 1 ELSE f[Taken(s)] * g[s \ {Taken(s)}]]
  BY <1>9
<1> HIDE DEF g
<1> QED
  BY <1>1, <1>10 DEF Multiplying

\* g multiplies the values of f over the subsets of S.
Multiplies(g, f, S) ==
  \A s \in SUBSET S : g[s] = IF s = {} THEN 1 ELSE f[Taken(s)] * g[s \ {Taken(s)}]

\* The product over a finite set of naturals, unfolded at the element CHOOSE takes.
LEMMA ProductUnfolds ==
  ASSUME NEW S, IsFiniteSet(S), NEW f
  PROVE \E g : Multiplies(g, f, S) /\ g[S] = Product(f, S)
<1> DEFINE n == Cardinality(S)  iter == CHOOSE g : Multiplying(g, f, S, n)
<1>1. n \in Nat
  BY FS_CardinalityType
<1>2. Multiplying(iter, f, S, n)
  BY <1>1, MultiplyingExists
<1>3. UpTo(S, n) = SUBSET S
  <2>1. \A s \in SUBSET S : Cardinality(s) <= n
    BY FS_Subset
  <2> QED
    BY <2>1 DEF UpTo
<1>4. Product(f, S) = iter[S]
  BY <1>3 DEF Product, FoldFunctionOnSet, MapThenFoldSet, Multiplying, Taken
<1> HIDE DEF iter
<1>5. Multiplies(iter, f, S)
  BY <1>2, <1>3 DEF Multiplying, Multiplies
<1> QED
  BY <1>4, <1>5

\* Two functions that multiply agree where both do.
LEMMA OneProduct ==
  ASSUME NEW S, IsFiniteSet(S), NEW f, NEW g, Multiplies(g, f, S), NEW h, Multiplies(h, f, S)
  PROVE g[S] = h[S]
<1> SUFFICES ASSUME g[S] # h[S] PROVE FALSE
  OBVIOUS
<1> DEFINE Bad == {k \in Nat : \E s \in SUBSET S : Cardinality(s) = k /\ g[s] # h[s]}
<1>1. Cardinality(S) \in Bad
  BY FS_CardinalityType
<1>2. PICK m \in Bad : \A k \in Bad : m <= k
  <2>1. Bad \in SUBSET Nat /\ Bad # {}
    BY <1>1
  <2> HIDE DEF Bad
  <2> QED
    BY <2>1, LeastNatural
<1>3. PICK s \in SUBSET S : Cardinality(s) = m /\ g[s] # h[s]
  BY <1>2
<1>4. s # {}
  BY <1>3 DEF Multiplies
<1>5. Taken(s) \in s
  BY <1>4 DEF Taken
<1>6. s \ {Taken(s)} \in SUBSET S /\ Cardinality(s \ {Taken(s)}) = m - 1 /\ m - 1 \in Nat
  <2>1. /\ Cardinality(s) \in Nat \ {0} /\ s \ {Taken(s)} \in SUBSET S
        /\ Cardinality(s \ {Taken(s)}) = Cardinality(s) - 1
    BY <1>5, Smaller
  <2> QED
    BY <1>3, <2>1
<1>7. m - 1 \notin Bad
  BY <1>2, <1>6
<1>8. g[s \ {Taken(s)}] = h[s \ {Taken(s)}]
  BY <1>6, <1>7
<1>9. g[s] = f[Taken(s)] * g[s \ {Taken(s)}] /\ h[s] = f[Taken(s)] * h[s \ {Taken(s)}]
  BY <1>4 DEF Multiplies
<1> QED
  BY <1>3, <1>8, <1>9

\* One function gives the products over all the subsets of a finite set.
LEMMA ProductOfSubsets ==
  ASSUME NEW S, IsFiniteSet(S), NEW f
  PROVE \E g : Multiplies(g, f, S) /\ \A s \in SUBSET S : g[s] = Product(f, s)
<1>1. PICK g : Multiplies(g, f, S)
  BY ProductUnfolds
<1>2. ASSUME NEW s \in SUBSET S PROVE g[s] = Product(f, s)
  <2>1. IsFiniteSet(s)
    BY FS_Subset
  <2>2. PICK h : Multiplies(h, f, s) /\ h[s] = Product(f, s)
    BY <2>1, ProductUnfolds
  <2>3. Multiplies(g, f, s)
    BY <1>1 DEF Multiplies
  <2> QED
    BY <2>1, <2>2, <2>3, OneProduct
<1> QED
  BY <1>1, <1>2

Positive == Nat \ {0}

\* Multiplication may be done in any order.
LEMMA AnyOrder ==
  ASSUME NEW a \in Positive, NEW b \in Positive, NEW c \in Positive
  PROVE a * (b * c) = b * (a * c) /\ a * b \in Positive
BY DEF Positive

\* The product over a set that has x is f[x] times the product over the rest,
\* whichever element CHOOSE takes first.
LEMMA ProductTakes ==
  ASSUME NEW S, IsFiniteSet(S), NEW f, \A w \in S : f[w] \in Positive,
         NEW g, Multiplies(g, f, S)
  PROVE \A s \in SUBSET S : g[s] \in Positive /\ \A x \in s : g[s] = f[x] * g[s \ {x}]
<1> DEFINE Good(s) == g[s] \in Positive /\ \A x \in s : g[s] = f[x] * g[s \ {x}]
           Bad == {k \in Nat : \E s \in SUBSET S : Cardinality(s) = k /\ ~Good(s)}
<1> SUFFICES ASSUME NEW b \in SUBSET S, ~Good(b) PROVE FALSE
  OBVIOUS
<1>1. \A s \in SUBSET S : Cardinality(s) \in Nat
  BY FS_Subset, FS_CardinalityType
<1>2. PICK m \in Bad : \A k \in Bad : m <= k
  <2>1. Bad \in SUBSET Nat /\ Bad # {}
    BY <1>1
  <2> HIDE DEF Bad
  <2> QED
    BY <2>1, LeastNatural
<1>3. PICK s \in SUBSET S : Cardinality(s) = m /\ ~Good(s)
  BY <1>2
<1>4. ASSUME NEW t \in SUBSET S, Cardinality(t) = m - 1, m - 1 \in Nat PROVE Good(t)
  <2>1. m - 1 \notin Bad
    BY <1>2, <1>4
  <2> HIDE DEF Good
  <2> QED
    BY <1>4, <2>1
<1>5. s # {}
  <2> SUFFICES ASSUME s = {} PROVE FALSE
    OBVIOUS
  <2>1. g[s] = 1
    BY DEF Multiplies
  <2> QED
    BY <1>3, <2>1 DEF Positive
<1> DEFINE c == Taken(s)  rest == s \ {c}
<1>6. c \in s
  BY <1>5 DEF Taken
<1>7. g[s] = f[c] * g[rest]
  BY <1>5 DEF Multiplies
<1> HIDE DEF c
<1>8. rest \in SUBSET S /\ Cardinality(rest) = m - 1 /\ m - 1 \in Nat
  <2>1. /\ Cardinality(s) \in Nat \ {0} /\ s \ {c} \in SUBSET S
        /\ Cardinality(s \ {c}) = Cardinality(s) - 1
    BY <1>6, Smaller
  <2> QED
    BY <1>3, <2>1
<1> HIDE DEF rest
<1>9. Good(rest)
  BY <1>4, <1>8
<1>10. g[s] \in Positive
  BY <1>6, <1>7, <1>9, AnyOrder
<1>11. ASSUME NEW x \in s PROVE g[s] = f[x] * g[s \ {x}]
  <2>1. CASE x = c
    BY <1>7, <2>1 DEF rest
  <2>2. CASE x # c
    <3>1. x \in rest /\ c \in s \ {x} /\ rest \ {x} = (s \ {x}) \ {c}
      BY <1>6, <2>2 DEF rest
    <3>2. g[rest] = f[x] * g[rest \ {x}]
      BY <1>9, <3>1
    <3>3. s \ {x} \in SUBSET S /\ Cardinality(s \ {x}) = m - 1
      BY <1>3, Smaller
    <3>4. Good(s \ {x})
      BY <1>4, <1>8, <3>3
    <3>5. g[s \ {x}] = f[c] * g[rest \ {x}]
      BY <3>1, <3>4
    <3>6. rest \ {x} \in SUBSET S /\ IsFiniteSet(rest)
      BY <1>8, FS_Subset
    <3>7. g[rest \ {x}] \in Positive
      <4>1. CASE m - 1 = 0
        BY <1>8, <3>1, <3>6, <4>1, FS_EmptySet
      <4>2. CASE m - 1 # 0
        <5>1. Cardinality(rest \ {x}) = m - 2 /\ m - 2 \in Nat
          BY <1>8, <3>1, <4>2, Smaller
        <5>2. m - 2 \notin Bad
          BY <1>2, <5>1
        <5> HIDE DEF Good
        <5>3. Good(rest \ {x})
          BY <3>6, <5>1, <5>2
        <5> QED
          BY <5>3 DEF Good
      <4> QED
        BY <4>1, <4>2
    <3>8. f[x] \in Positive /\ f[c] \in Positive
      BY <1>6
    <3> HIDE DEF Good
    <3>9. f[c] * (f[x] * g[rest \ {x}]) = f[x] * (f[c] * g[rest \ {x}])
      BY <3>7, <3>8, AnyOrder
    <3>10. f[c] * g[rest] = f[x] * g[s \ {x}]
      BY <3>2, <3>5, <3>9
    <3> QED
      BY <1>7, <3>10
  <2> QED
    BY <2>1, <2>2
<1> QED
  BY <1>3, <1>10, <1>11

\* A factor above one makes a fraction larger.
LEMMA LargerFraction ==
  ASSUME NEW a \in Positive, NEW b \in Positive, NEW c \in Positive, NEW d \in Positive,
         NEW o \in Positive, NEW u \in Positive, a * b >= c * d, o > u
  PROVE (o * a) * b > c * (u * d)
<1>1. a * b \in Positive /\ c * d \in Positive
  BY AnyOrder
<1>2. \A x, y \in Positive : x >= y => o * x > u * y
  <2> SUFFICES ASSUME NEW x \in Positive, NEW y \in Positive, x >= y PROVE o * x > u * y
    OBVIOUS
  <2>1. o * x >= o * y
    BY DEF Positive
  <2>2. o * y > u * y
    BY DEF Positive
  <2>3. o * x \in Int /\ o * y \in Int /\ u * y \in Int
    BY DEF Positive
  <2> QED
    BY <2>1, <2>2, <2>3
<1>3. o * (a * b) > u * (c * d)
  BY <1>1, <1>2
<1>4. (o * a) * b = o * (a * b) /\ u * (c * d) = c * (u * d)
  BY DEF Positive
<1> QED
  BY <1>3, <1>4

\* A text that hits what another one hits and more scores higher.
LEMMA RicherProduct ==
  ASSUME NEW S, IsFiniteSet(S), NEW over, NEW under,
         \A w \in S : over[w] \in Positive /\ under[w] \in Positive /\ over[w] > under[w],
         NEW C \in SUBSET S, NEW H \in SUBSET S, C \subseteq H, C # H
  PROVE Product(over, H) * Product(under, C) > Product(over, C) * Product(under, H)
<1>1. PICK O : Multiplies(O, over, S) /\ \A s \in SUBSET S : O[s] = Product(over, s)
  BY ProductOfSubsets
<1>2. PICK U : Multiplies(U, under, S) /\ \A s \in SUBSET S : U[s] = Product(under, s)
  BY ProductOfSubsets
<1>3. \A s \in SUBSET S : O[s] \in Positive /\ \A x \in s : O[s] = over[x] * O[s \ {x}]
  <2>1. Multiplies(O, over, S) /\ \A w \in S : over[w] \in Positive
    BY <1>1
  <2> QED
    BY ONLY <2>1, IsFiniteSet(S), ProductTakes
<1>4. \A s \in SUBSET S : U[s] \in Positive /\ \A x \in s : U[s] = under[x] * U[s \ {x}]
  <2>1. Multiplies(U, under, S) /\ \A w \in S : under[w] \in Positive
    BY <1>2
  <2> QED
    BY ONLY <2>1, IsFiniteSet(S), ProductTakes
<1> DEFINE Good(s) == O[s] * U[C] > O[C] * U[s]
           Bad == {k \in Nat : \E s \in SUBSET S :
                                 Cardinality(s) = k /\ C \subseteq s /\ C # s /\ ~Good(s)}
<1> SUFFICES ASSUME ~Good(H) PROVE FALSE
  BY <1>1, <1>2
<1>5. \A s \in SUBSET S : Cardinality(s) \in Nat
  BY FS_Subset, FS_CardinalityType
<1>6. PICK m \in Bad : \A k \in Bad : m <= k
  <2>1. Bad \in SUBSET Nat /\ Bad # {}
    BY <1>5
  <2> HIDE DEF Bad
  <2> QED
    BY <2>1, LeastNatural
<1>7. PICK s \in SUBSET S : Cardinality(s) = m /\ C \subseteq s /\ C # s /\ ~Good(s)
  BY <1>6
<1>8. PICK x \in s : x \notin C
  BY <1>7
<1>9. PICK rest : rest = s \ {x}
  OBVIOUS
<1>10. rest \in SUBSET S /\ C \subseteq rest /\ Cardinality(rest) = m - 1 /\ m - 1 \in Nat
  <2>1. /\ Cardinality(s) \in Nat \ {0} /\ s \ {x} \in SUBSET S
        /\ Cardinality(s \ {x}) = Cardinality(s) - 1
    BY <1>8, Smaller
  <2> QED
    BY <1>7, <1>8, <1>9, <2>1
<1>11. m - 1 \notin Bad
  <2>1. m \in Nat
    BY <1>6
  <2>2. ~(m <= m - 1)
    BY <2>1
  <2> HIDE DEF Bad
  <2> QED
    BY <1>6, <2>2
<1>12. C = rest \/ Good(rest)
  <2> HIDE DEF Good
  <2> QED
    BY <1>10, <1>11
<1>13. /\ O[rest] \in Positive /\ U[rest] \in Positive /\ O[C] \in Positive /\ U[C] \in Positive
       /\ over[x] \in Positive /\ under[x] \in Positive /\ over[x] > under[x]
  BY <1>3, <1>4, <1>8, <1>10
<1>14. O[rest] * U[C] >= O[C] * U[rest]
  <2>1. O[rest] * U[C] \in Int /\ O[C] * U[rest] \in Int
    BY <1>13 DEF Positive
  <2>2. CASE C = rest
    BY <2>1, <2>2
  <2>3. CASE Good(rest)
    BY <2>1, <2>3
  <2> QED
    BY <1>12, <2>2, <2>3
<1>15. (over[x] * O[rest]) * U[C] > O[C] * (under[x] * U[rest])
  BY <1>13, <1>14, LargerFraction
<1>16. O[s] = over[x] * O[rest] /\ U[s] = under[x] * U[rest]
  BY <1>3, <1>4, <1>7, <1>8, <1>9
<1>17. Good(s)
  BY <1>15, <1>16
<1> QED
  BY <1>7, <1>17
-----------------------------------------------------------------------------
\* R orders D: of two elements one comes before the other.
Orders(R, D) ==
  /\ \A x, y \in D : x # y => <<x, y>> \in R \/ <<y, x>> \in R
  /\ \A x, y, z \in D : <<x, y>> \in R /\ <<y, z>> \in R => <<x, z>> \in R

\* A finite set that is ordered has a last element.
LEMMA LastExists ==
  ASSUME NEW S, IsFiniteSet(S), NEW R, Orders(R, S), S # {}
  PROVE \E e \in S : \A x \in S \ {e} : <<x, e>> \in R
<1> DEFINE Good(D) == \E e \in D : \A x \in D \ {e} : <<x, e>> \in R
           Bad == {k \in Nat : \E D \in SUBSET S : Cardinality(D) = k /\ D # {} /\ ~Good(D)}
<1> SUFFICES ASSUME ~Good(S) PROVE FALSE
  OBVIOUS
<1>1. PICK m \in Bad : \A k \in Bad : m <= k
  <2>1. Bad \in SUBSET Nat /\ Bad # {}
    BY FS_CardinalityType
  <2> HIDE DEF Bad
  <2> QED
    BY <2>1, LeastNatural
<1>2. PICK D \in SUBSET S : Cardinality(D) = m /\ D # {} /\ ~Good(D)
  BY <1>1
<1>3. PICK d \in D : TRUE
  BY <1>2
<1>4. PICK rest : rest = D \ {d}
  OBVIOUS
<1>5. rest \in SUBSET S /\ Cardinality(rest) = m - 1 /\ m - 1 \in Nat
  <2>1. /\ Cardinality(D) \in Nat \ {0} /\ D \ {d} \in SUBSET S
        /\ Cardinality(D \ {d}) = Cardinality(D) - 1
    BY Smaller
  <2> QED
    BY <1>2, <1>4, <2>1
<1>6. m - 1 \notin Bad
  <2>1. m \in Nat
    BY <1>1
  <2>2. ~(m <= m - 1)
    BY <2>1
  <2> HIDE DEF Bad
  <2> QED
    BY <1>1, <2>2
<1>7. rest = {} \/ Good(rest)
  <2> HIDE DEF Good
  <2> QED
    BY <1>5, <1>6
<1>8. CASE rest = {}
  <2>1. \A x \in D \ {d} : <<x, d>> \in R
    BY <1>4, <1>8
  <2> QED
    BY <1>2, <2>1
<1>9. CASE Good(rest)
  <2>1. PICK e \in rest : \A x \in rest \ {e} : <<x, e>> \in R
    BY <1>9
  <2>2. d # e /\ d \in S /\ e \in S /\ e \in D /\ (<<d, e>> \in R \/ <<e, d>> \in R)
    BY <1>4, <2>1 DEF Orders
  <2>3. CASE <<d, e>> \in R
    <3>1. \A x \in D \ {e} : <<x, e>> \in R
      BY <1>4, <2>1, <2>3
    <3> QED
      BY <1>2, <2>2, <3>1
  <2>4. CASE <<e, d>> \in R
    <3>1. \A x \in D \ {d} : x \in S /\ (x = e \/ <<x, e>> \in R)
      BY <1>4, <2>1
    <3>2. \A x \in D \ {d} : <<x, d>> \in R
      BY <2>2, <2>4, <3>1 DEF Orders
    <3> QED
      BY <1>2, <3>2
  <2> QED
    BY <2>2, <2>3, <2>4
<1> QED
  BY <1>7, <1>8, <1>9

\* A finite set that is ordered can be listed in its order.
LEMMA SortedExists ==
  ASSUME NEW S, IsFiniteSet(S), NEW R, Orders(R, S)
  PROVE \E o \in SetToSeqs(S) : \A a, b \in DOMAIN o : a < b => <<o[a], o[b]>> \in R
<1> DEFINE Sorts(o, D, k) == /\ o \in [1..k -> D] /\ \A a, b \in 1..k : a # b => o[a] # o[b]
                             /\ \A a, b \in 1..k : a < b => <<o[a], o[b]>> \in R
           Bad == {k \in Nat : \E D \in SUBSET S : Cardinality(D) = k /\ ~ \E o : Sorts(o, D, k)}
<1>1. Bad = {}
  <2> SUFFICES ASSUME Bad # {} PROVE FALSE
    OBVIOUS
  <2>1. PICK m \in Bad : \A k \in Bad : m <= k
    <3>1. Bad \in SUBSET Nat
      OBVIOUS
    <3> HIDE DEF Bad
    <3> QED
      BY <3>1, LeastNatural
  <2>2. PICK D \in SUBSET S : Cardinality(D) = m /\ ~ \E o : Sorts(o, D, m)
    BY <2>1
  <2>3. IsFiniteSet(D) /\ m \in Nat
    BY <2>2, FS_Subset, FS_CardinalityType
  <2>4. D # {}
    <3> SUFFICES ASSUME D = {} PROVE FALSE
      OBVIOUS
    <3>1. m = 0
      BY <2>2, FS_EmptySet
    <3>2. Sorts([i \in 1..0 |-> 0], D, 0)
      OBVIOUS
    <3> HIDE DEF Sorts
    <3> QED
      BY <2>2, <3>1, <3>2
  <2>5. PICK e \in D : \A x \in D \ {e} : <<x, e>> \in R
    <3>1. Orders(R, D)
      BY DEF Orders
    <3> QED
      BY <2>3, <2>4, <3>1, LastExists
  <2>6. D \ {e} \in SUBSET S /\ Cardinality(D \ {e}) = m - 1 /\ m - 1 \in Nat
    <3>1. /\ Cardinality(D) \in Nat \ {0} /\ D \ {e} \in SUBSET S
          /\ Cardinality(D \ {e}) = Cardinality(D) - 1
      BY Smaller
    <3> QED
      BY <2>2, <3>1
  <2>7. m - 1 \notin Bad
    BY <2>1, <2>6
  <2>8. PICK h : Sorts(h, D \ {e}, m - 1)
    <3> HIDE DEF Sorts
    <3> QED
      BY <2>6, <2>7
  <2>9. PICK o : o = [i \in 1..m |-> IF i = m THEN e ELSE h[i]]
    OBVIOUS
  <2>10. \A i \in 1..m : i = m \/ i \in 1..(m - 1)
    BY <2>3
  <2>11. \A i \in 1..(m - 1) : h[i] \in D /\ h[i] # e /\ <<h[i], e>> \in R
    BY <2>5, <2>8
  <2>12. \A i \in 1..m : o[i] \in D /\ (i = m => o[i] = e) /\ (i # m => o[i] = h[i])
    BY <2>9, <2>10, <2>11
  <2>13. o \in [1..m -> D]
    BY <2>9, <2>12
  <2>14. ASSUME NEW a \in 1..m, NEW b \in 1..m, a # b PROVE o[a] # o[b]
    BY <2>8, <2>10, <2>11, <2>12, <2>14
  <2>15. ASSUME NEW a \in 1..m, NEW b \in 1..m, a < b PROVE <<o[a], o[b]>> \in R
    <3>1. a \in 1..(m - 1) /\ a # m
      BY <2>3, <2>15
    <3> QED
      BY <2>8, <2>10, <2>11, <2>12, <2>15, <3>1
  <2>16. Sorts(o, D, m)
    BY <2>13, <2>14, <2>15
  <2> HIDE DEF Sorts
  <2> QED
    BY <2>2, <2>16
<1>2. PICK o : Sorts(o, S, Cardinality(S))
  <2>1. Cardinality(S) \in Nat /\ Cardinality(S) \notin Bad
    BY <1>1, FS_CardinalityType
  <2> HIDE DEF Sorts
  <2> QED
    BY <2>1
<1>3. o \in SetToSeqs(S) /\ DOMAIN o = 1..Cardinality(S)
  BY <1>2 DEF SetToSeqs
<1> QED
  BY <1>2, <1>3

\* Multiplying by a positive number keeps an inequality.
LEMMA Scaled ==
  ASSUME NEW x \in Positive, NEW y \in Positive, NEW z \in Positive
  PROVE /\ (x >= y) => (x * z >= y * z)
        /\ (x > y) => (x * z > y * z)
        /\ (x < y) => (x * z < y * z)
<1>1. x \in Nat /\ y \in Nat /\ z \in Nat /\ z > 0
  BY DEF Positive
<1> QED
  BY <1>1

\* Fractions compare transitively.
LEMMA FractionsOrder ==
  ASSUME NEW a \in Positive, NEW b \in Positive, NEW c \in Positive, NEW d \in Positive,
         NEW e \in Positive, NEW f \in Positive, a * d >= c * b, c * f >= e * d
  PROVE /\ a * f >= e * b
        /\ (a * d > c * b \/ c * f > e * d) => a * f > e * b
<1>1. /\ a * d \in Positive /\ c * b \in Positive /\ c * f \in Positive /\ e * d \in Positive
      /\ a * f \in Positive /\ e * b \in Positive
  BY AnyOrder
<1>3. (a * d) * f >= (c * b) * f /\ (a * d > c * b => (a * d) * f > (c * b) * f)
  BY <1>1, Scaled, Zenon
<1>4. (c * f) * b >= (e * d) * b /\ (c * f > e * d => (c * f) * b > (e * d) * b)
  BY <1>1, Scaled, Zenon
<1>5. PICK p \in Int, q \in Int, r \in Int :
        /\ p = (a * f) * d /\ p = (a * d) * f
        /\ q = (c * b) * f /\ q = (c * f) * b
        /\ r = (e * b) * d /\ r = (e * d) * b
  BY DEF Positive
<1>6. p >= r /\ ((a * d > c * b \/ c * f > e * d) => p > r)
  <2>1. p >= q /\ (a * d > c * b => p > q)
    BY <1>3, <1>5
  <2>2. q >= r /\ (c * f > e * d => q > r)
    BY <1>4, <1>5
  <2> QED
    BY <2>1, <2>2
<1>7. PICK x \in Positive, y \in Positive : x = a * f /\ y = e * b
  BY <1>1
<1>8. p = x * d /\ r = y * d
  BY <1>5, <1>7
<1>9. x < y => p < r
  BY <1>8, Scaled, Zenon
<1>10. x \in Int /\ y \in Int
  BY DEF Positive
<1>11. x >= y /\ (p > r => x > y)
  <2>1. p >= r => ~(x < y)
    BY <1>9
  <2>2. x = y => p = r
    BY <1>8
  <2> QED
    BY <1>6, <1>10, <2>1, <2>2
<1> QED
  BY <1>6, <1>7, <1>11

IsScore(s) == s.over \in Positive /\ s.under \in Positive

\* Of two texts one comes before the other, and the order is transitive.
LEMMA BeforeOrders ==
  ASSUME NEW n \in Nat, NEW score, \A i \in 1..n : IsScore(score[i])
  PROVE Orders({ij \in (1..n) \X (1..n) : Before(score, ij[1], ij[2])}, 1..n)
<1> DEFINE R == {ij \in (1..n) \X (1..n) : Before(score, ij[1], ij[2])}
<1>1. \A i, j \in 1..n : <<i, j>> \in R <=> Before(score, i, j)
  OBVIOUS
<1>2. ASSUME NEW i \in 1..n, NEW j \in 1..n, i # j PROVE Before(score, i, j) \/ Before(score, j, i)
  <2>1. IsScore(score[i]) /\ IsScore(score[j])
    OBVIOUS
  <2>2. score[i].over * score[j].under \in Int /\ score[j].over * score[i].under \in Int
    BY <2>1 DEF IsScore, Positive
  <2> QED
    BY <1>2, <2>2 DEF Before
<1>3. ASSUME NEW i \in 1..n, NEW j \in 1..n, NEW k \in 1..n, Before(score, i, j), Before(score, j, k)
      PROVE Before(score, i, k)
  <2>1. PICK a, b, c, d, e, f : /\ a = score[i].over /\ b = score[i].under /\ c = score[j].over
                                /\ d = score[j].under /\ e = score[k].over /\ f = score[k].under
    OBVIOUS
  <2>2. /\ a \in Positive /\ b \in Positive /\ c \in Positive
        /\ d \in Positive /\ e \in Positive /\ f \in Positive
    BY <2>1 DEF IsScore
  <2>3. /\ a * d > c * b \/ (a * d = c * b /\ i < j)
        /\ c * f > e * d \/ (c * f = e * d /\ j < k)
    BY <1>3, <2>1 DEF Before
  <2>4. /\ a * d \in Int /\ c * b \in Int /\ c * f \in Int /\ e * d \in Int
        /\ a * f \in Int /\ e * b \in Int
    BY <2>2 DEF Positive
  <2>5. a * d >= c * b /\ c * f >= e * d
    BY <2>3, <2>4
  <2>6. a * f >= e * b /\ ((a * d > c * b \/ c * f > e * d) => a * f > e * b)
    BY <2>2, <2>5, FractionsOrder
  <2>7. a * f > e * b \/ (a * f = e * b /\ i < k)
    BY <2>3, <2>4, <2>6
  <2> QED
    BY <2>1, <2>7 DEF Before
<1> HIDE DEF R
<1>4. Orders(R, 1..n)
  BY <1>1, <1>2, <1>3 DEF Orders
<1> QED
  BY <1>4 DEF R

\* Both factors a term contributes to a score are positive, and it raises the score.
LEMMA TermRaises ==
  ASSUME NEW T, NEW texts \in Seq(T), texts # <<>>, NEW w
  PROVE /\ Frequency(texts, w) \in Positive /\ Len(texts) + Frequency(texts, w) \in Positive
        /\ Len(texts) + Frequency(texts, w) > Frequency(texts, w)
<1>1. Len(texts) \in Nat \ {0} /\ DOMAIN texts = 1..Len(texts)
  OBVIOUS
<1>2. IsFiniteSet(1..Len(texts))
  BY <1>1, FS_Interval
<1>3. IsFiniteSet({i \in DOMAIN texts : w \in texts[i]})
  BY <1>1, <1>2, FS_Subset
<1>4. Cardinality({i \in DOMAIN texts : w \in texts[i]}) \in Nat
  BY <1>3, FS_CardinalityType
<1>5. Frequency(texts, w) \in Positive
  BY <1>4 DEF Frequency, Larger, Positive
<1> QED
  BY <1>1, <1>5 DEF Positive

\* A text that hits what another one hits, and more, has the higher score.
LEMMA RicherScore ==
  ASSUME NEW T, NEW texts \in Seq(T), NEW terms, IsFiniteSet(terms),
         NEW i \in DOMAIN texts, NEW j \in DOMAIN texts
  PROVE /\ IsScore(Score(texts, terms, i))
        /\ (/\ HitTerms(texts[i], terms) \subseteq HitTerms(texts[j], terms)
            /\ HitTerms(texts[i], terms) # HitTerms(texts[j], terms)) =>
              Score(texts, terms, j).over * Score(texts, terms, i).under
                > Score(texts, terms, i).over * Score(texts, terms, j).under
<1> DEFINE over == [w \in terms |-> Len(texts) + Frequency(texts, w)]
           under == [w \in terms |-> Frequency(texts, w)]
           hits(k) == HitTerms(texts[k], terms)
<1>1. texts # <<>>
  OBVIOUS
<1>2. \A w \in terms : over[w] \in Positive /\ under[w] \in Positive /\ over[w] > under[w]
  BY <1>1, TermRaises
<1>3. hits(i) \in SUBSET terms /\ hits(j) \in SUBSET terms
  BY DEF HitTerms
<1>4. /\ Score(texts, terms, i) = [over |-> Product(over, hits(i)), under |-> Product(under, hits(i))]
      /\ Score(texts, terms, j) = [over |-> Product(over, hits(j)), under |-> Product(under, hits(j))]
  BY DEF Score
<1> HIDE DEF over, under, hits
<1>5. Product(over, hits(i)) \in Positive
  <2>1. PICK g : Multiplies(g, over, terms) /\ \A s \in SUBSET terms : g[s] = Product(over, s)
    BY ProductOfSubsets
  <2>2. \A s \in SUBSET terms : g[s] \in Positive
    BY <1>2, <2>1, ProductTakes
  <2> QED
    BY <1>3, <2>1, <2>2
<1>6. Product(under, hits(i)) \in Positive
  <2>1. PICK g : Multiplies(g, under, terms) /\ \A s \in SUBSET terms : g[s] = Product(under, s)
    BY ProductOfSubsets
  <2>2. \A s \in SUBSET terms : g[s] \in Positive
    BY <1>2, <2>1, ProductTakes
  <2> QED
    BY <1>3, <2>1, <2>2
<1>7. IsScore(Score(texts, terms, i))
  BY <1>4, <1>5, <1>6 DEF IsScore
<1>8. (hits(i) \subseteq hits(j) /\ hits(i) # hits(j)) =>
        Product(over, hits(j)) * Product(under, hits(i)) > Product(over, hits(i)) * Product(under, hits(j))
  BY <1>2, <1>3, RicherProduct
<1> QED
  BY <1>4, <1>7, <1>8 DEF hits

\* rank_by_idf lists every text once, each before those it outscores.
LEMMA RankIsSorted ==
  ASSUME NEW T, NEW texts \in Seq(T), NEW terms, IsFiniteSet(terms), NEW score,
         score = [i \in DOMAIN texts |-> Score(texts, terms, i)]
  PROVE /\ Rank(texts, terms) \in SetToSeqs(DOMAIN texts)
        /\ \A a, b \in DOMAIN Rank(texts, terms) : a < b =>
             Before(score, Rank(texts, terms)[a], Rank(texts, terms)[b])
<1> DEFINE n == Len(texts)  R == {ij \in (1..n) \X (1..n) : Before(score, ij[1], ij[2])}
<1>1. n \in Nat /\ DOMAIN texts = 1..n /\ IsFiniteSet(1..n)
  BY FS_Interval
<1>2. \A i \in 1..n : IsScore(score[i])
  BY <1>1, RicherScore
<1>3. Orders(R, 1..n)
  BY <1>1, <1>2, BeforeOrders
<1>4. PICK o \in SetToSeqs(1..n) : \A a, b \in DOMAIN o : a < b => <<o[a], o[b]>> \in R
  BY <1>1, <1>3, SortedExists
<1>5. \A a, b \in DOMAIN o : a < b => Before(score, o[a], o[b])
  BY <1>4
<1>6. Rank(texts, terms) = CHOOSE order \in SetToSeqs(DOMAIN texts) :
                             \A a, b \in DOMAIN order : a < b => Before(score, order[a], order[b])
  BY DEF Rank
<1> QED
  BY <1>1, <1>4, <1>5, <1>6

\* ranking.py: a text that hits all the terms another one hits, and one more, ranks
\* before it, however many texts there are and whatever their frequencies.
THEOREM RicherTextsRankFirst ==
  ASSUME NEW T, NEW texts \in Seq(T), NEW terms, IsFiniteSet(terms),
         NEW order, order = Rank(texts, terms), NEW a \in DOMAIN order, NEW b \in DOMAIN order,
         HitTerms(texts[order[a]], terms) \subseteq HitTerms(texts[order[b]], terms),
         HitTerms(texts[order[a]], terms) # HitTerms(texts[order[b]], terms)
  PROVE b < a
<1>1. PICK score : score = [i \in DOMAIN texts |-> Score(texts, terms, i)]
  OBVIOUS
<1>2. /\ order \in SetToSeqs(DOMAIN texts)
      /\ \A x, y \in DOMAIN order : x < y => Before(score, order[x], order[y])
  BY <1>1, RankIsSorted
<1>3. PICK n \in Nat : order \in [1..n -> DOMAIN texts]
  <2>1. IsFiniteSet(DOMAIN texts)
    BY FS_Interval
  <2>2. Cardinality(DOMAIN texts) \in Nat
    BY <2>1, FS_CardinalityType
  <2> QED
    BY <1>2, <2>2 DEF SetToSeqs
<1>4. PICK i \in DOMAIN texts, j \in DOMAIN texts : i = order[a] /\ j = order[b]
  BY <1>3
<1>5. score[j].over * score[i].under > score[i].over * score[j].under
  BY <1>1, <1>4, RicherScore
<1>6. IsScore(score[i]) /\ IsScore(score[j])
  BY <1>1, RicherScore
<1>7. score[i].over * score[j].under \in Int /\ score[j].over * score[i].under \in Int
  BY <1>6 DEF IsScore, Positive
<1>8. ~Before(score, i, j)
  BY <1>5, <1>7 DEF Before
<1>9. a # b
  OBVIOUS
<1>10. ~(a < b)
  BY <1>2, <1>4, <1>8
<1>11. a \in Nat /\ b \in Nat
  BY <1>3
<1> QED
  BY <1>9, <1>10, <1>11
=============================================================================
