--------------------------- MODULE LiteratureProofs ---------------------------
(***************************************************************************)
(* What holds of the literature search and of the dialogue for any corpus, *)
(* any vocabulary, any sources and whatever each answers, in any order.    *)
(***************************************************************************)
EXTENDS Literature, PapersProofs

Phases == {"idle", "fetch", "pool", "shown", "draft", "written", "gather"}
Legs == [is : {"unasked", "running", "done"}, papers : Seq(PaperRecords)]

TypeInv ==
  /\ corpus \in Seq(Materials) /\ phase \in Phases /\ legs \in [ToSet(Sources) -> Legs]
  /\ DOMAIN draft = {"items", "cites", "verdicts"}

\* While the archived search runs there is no draft; what it has merged stands, with
\* the answers it was merged from, until the next request begins.
MergeStands ==
  /\ phase = "gather" => draft = NoDraft
  /\ merged # <<>> => /\ phase = "idle" /\ merged = Dedupe(Combined)
                      /\ \A s \in DOMAIN legs : legs[s].is # "running"

LiteratureInv == TypeInv /\ MergeStands /\ ChecksAreHonest
-----------------------------------------------------------------------------
\* Whoever asks, asks each source at most once.
LEMMA AskedType == TypeInv => \A some : Asked(some) \in [ToSet(Sources) -> Legs]
<1> SUFFICES ASSUME TypeInv, NEW some PROVE Asked(some) \in [ToSet(Sources) -> Legs]
  OBVIOUS
<1>1. <<>> \in Seq(PaperRecords)
  OBVIOUS
<1> QED
  BY <1>1 DEF Asked, Leg, Legs, TypeInv

\* The first state.
LEMMA LiteratureInit == Init => LiteratureInv
<1> SUFFICES ASSUME Init PROVE LiteratureInv
  OBVIOUS
<1>1. corpus \in Seq(Materials)
  BY DEF Init
<1>2. legs \in [ToSet(Sources) -> Legs]
  <2>1. <<>> \in Seq(PaperRecords)
    OBVIOUS
  <2> QED
    BY <2>1 DEF Init, Unasked, Leg, Legs
<1> QED
  BY <1>1, <1>2 DEF Init, LiteratureInv, TypeInv, Phases, MergeStands, ChecksAreHonest, NoDraft

\* A step keeps the types.
LEMMA TypeStep == TypeInv /\ [Next]_vars => TypeInv'
<1> SUFFICES ASSUME TypeInv, [Next]_vars PROVE TypeInv'
  OBVIOUS
<1> USE DEF TypeInv, Phases, Forget, NoDraft
<1>0. <<>> \in Seq(PaperRecords) /\ Unasked \in [ToSet(Sources) -> Legs]
  BY DEF Unasked, Leg, Legs
<1>1. CASE \E m \in Materials : AddMaterial(m)
  BY <1>1 DEF AddMaterial, request
<1>2. ASSUME NEW terms \in SUBSET Words, NEW external \in BOOLEAN, Search(terms, external) PROVE TypeInv'
  <2>1. legs' \in [ToSet(Sources) -> Legs]
    BY <1>0, <1>2, AskedType DEF Search
  <2> QED
    BY <1>2, <2>1 DEF Search
<1>3. ASSUME NEW s \in ToSet(Sources), NEW papers \in Answers[s] \cup {<<>>}, Answer(s, papers) PROVE TypeInv'
  <2>1. papers \in Seq(PaperRecords)
    BY <1>0, SourcesAssumption
  <2>2. Leg("done", papers) \in Legs
    BY <2>1 DEF Leg, Legs
  <2> QED
    BY <1>3, <2>2 DEF Answer
<1>4. CASE ArxivTimeout
  <2>1. Leg("done", <<>>) \in Legs
    BY <1>0 DEF Leg, Legs
  <2> QED
    BY <1>4, <2>1 DEF ArxivTimeout
<1>5. CASE Gather
  BY <1>0, <1>5 DEF Gather
<1>6. CASE GiveUp
  BY <1>6 DEF GiveUp
<1>7. ASSUME NEW n \in 0..MaxResults, NEW results \in [1..n -> Named], Pick(results)
      PROVE TypeInv'
  BY <1>7 DEF Pick
<1>8. ASSUME NEW items \in SUBSET Selectable, Choose(items)
      PROVE TypeInv'
  BY <1>8 DEF Choose
<1>9. ASSUME NEW cites \in SUBSET Cites, Write(cites) PROVE TypeInv'
  BY <1>9 DEF Write
<1>10. ASSUME NEW judged \in SUBSET draft.cites, NEW verdicts \in [judged -> BOOLEAN], Check(verdicts) PROVE TypeInv'
  BY <1>10 DEF Check
<1>11. ASSUME NEW selected \in SUBSET ToSet(Sources), SearchAll(selected) PROVE TypeInv'
  <2>1. legs' \in [ToSet(Sources) -> Legs]
    BY <1>11, AskedType DEF SearchAll
  <2> QED
    BY <1>11, <2>1 DEF SearchAll
<1>12. CASE Merge
  BY <1>12 DEF Merge
<1>13. CASE UNCHANGED vars
  BY <1>13 DEF vars
<1> HIDE DEF TypeInv, Phases, Forget, NoDraft
<1> QED
  BY <1>1, <1>2, <1>3, <1>4, <1>5, <1>6, <1>7, <1>8, <1>9, <1>10, <1>11, <1>12, <1>13 DEF Next

\* A step keeps what was merged with what it was merged from.
LEMMA MergeStandsStep == TypeInv /\ MergeStands /\ [Next]_vars => MergeStands'
<1> SUFFICES ASSUME TypeInv, MergeStands, [Next]_vars PROVE MergeStands'
  OBVIOUS
<1>1. ASSUME UNCHANGED <<legs, merged>>, phase' = phase /\ draft' = draft PROVE MergeStands'
  BY <1>1 DEF MergeStands, Combined
<1>2. ASSUME merged = <<>>, merged' = merged, phase' # "gather" PROVE MergeStands'
  BY <1>2 DEF MergeStands
<1>3. CASE \E m \in Materials : AddMaterial(m)
  BY <1>1, <1>3 DEF AddMaterial, request
<1>4. ASSUME NEW terms \in SUBSET Words, NEW external \in BOOLEAN, Search(terms, external) PROVE MergeStands'
  BY <1>4 DEF Search, Forget, MergeStands
<1>5. ASSUME NEW s \in ToSet(Sources), NEW papers \in Answers[s] \cup {<<>>}, Answer(s, papers) PROVE MergeStands'
  BY <1>5 DEF Answer, MergeStands, TypeInv
<1>6. CASE ArxivTimeout
  BY <1>6 DEF ArxivTimeout, MergeStands
<1>7. CASE Gather
  BY <1>7 DEF Gather, MergeStands
<1>8. CASE GiveUp
  BY <1>8 DEF GiveUp, MergeStands
<1>9. ASSUME NEW n \in 0..MaxResults, NEW results \in [1..n -> Named], Pick(results)
      PROVE MergeStands'
  BY <1>9 DEF Pick, MergeStands
<1>10. ASSUME NEW items \in SUBSET Selectable, Choose(items)
       PROVE MergeStands'
  BY <1>10 DEF Choose, MergeStands
<1>11. ASSUME NEW cites \in SUBSET Cites, Write(cites) PROVE MergeStands'
  BY <1>11 DEF Write, MergeStands
<1>12. ASSUME NEW judged \in SUBSET draft.cites, NEW verdicts \in [judged -> BOOLEAN], Check(verdicts)
       PROVE MergeStands'
  BY <1>12 DEF Check, MergeStands
<1>13. ASSUME NEW selected \in SUBSET ToSet(Sources), SearchAll(selected) PROVE MergeStands'
  BY <1>13 DEF SearchAll, Forget, MergeStands
<1>14. CASE Merge
  BY <1>14 DEF Merge, MergeStands, Combined
<1>15. CASE UNCHANGED vars
  BY <1>1, <1>15 DEF vars
<1> QED
  BY <1>3, <1>4, <1>5, <1>6, <1>7, <1>8, <1>9, <1>10, <1>11, <1>12, <1>13, <1>14, <1>15 DEF Next

\* _check_citations reports every citation of the draft once, and only what the
\* checker said of it.
LEMMA CheckReports ==
  ASSUME TypeInv, NEW verdicts, Check(verdicts) PROVE ChecksAreHonest'
<1>1. /\ draft'.items = draft.items /\ draft'.cites = draft.cites /\ draft'.verdicts = verdicts
      /\ checks' = Checked(verdicts)
  BY DEF Check, TypeInv
<1> SUFFICES ASSUME NEW c \in draft.cites
    PROVE LET reports == {r \in checks'.of : r.cite = c} IN
          /\ ~Selected(c) => {r.verdict : r \in reports} = {"not_selected"}
          /\ \A r \in reports : r.verdict = "supported" => c \in DOMAIN verdicts /\ verdicts[c]
          /\ checks'.status = "ok" => Cardinality(reports) = 1
  BY <1>1 DEF ChecksAreHonest, Selected
<1> DEFINE reports == {r \in checks'.of : r.cite = c}
           judged == Report(c, IF verdicts[c] THEN "supported" ELSE "unsupported")
<1>2. CASE ~Selected(c)
  <2>1. c \in draft.cites \ Known /\ c \notin Known
    BY <1>2 DEF Known
  <2>2. Report(c, "not_selected") \in checks'.of
    BY <1>1, <2>1 DEF Checked, Flagged
  <2>3. \A r \in checks'.of : r.cite = c => r = Report(c, "not_selected")
    BY <1>1, <2>1 DEF Checked, Flagged, Report
  <2>4. reports = {Report(c, "not_selected")}
    BY <2>2, <2>3 DEF Report
  <2>5. Cardinality(reports) = 1
    BY <2>4, FS_Singleton
  <2> HIDE DEF reports
  <2>6. {r.verdict : r \in reports} = {"not_selected"}
    BY <2>4 DEF Report
  <2>7. \A r \in reports : r.verdict # "supported"
    BY <2>4 DEF Report
  <2> QED
    BY <2>5, <2>6, <2>7 DEF reports
<1>3. CASE Selected(c)
  <2>1. c \in Known /\ c \notin draft.cites \ Known
    BY <1>3 DEF Known
  <2>2. CASE Known \subseteq DOMAIN verdicts
    <3>1. checks'.of = Flagged \cup {Report(k, IF verdicts[k] THEN "supported" ELSE "unsupported") : k \in Known}
      BY <1>1, <2>2 DEF Checked
    <3>2. judged \in checks'.of
      BY <2>1, <3>1
    <3>3. \A r \in checks'.of : r.cite = c => r = judged
      BY <2>1, <3>1 DEF Flagged, Report
    <3>4. reports = {judged}
      BY <3>2, <3>3 DEF Report
    <3>5. Cardinality(reports) = 1
      BY <3>4, FS_Singleton
    <3>6. judged.verdict = "supported" => c \in DOMAIN verdicts /\ verdicts[c]
      BY <2>1, <2>2 DEF Report
    <3> HIDE DEF reports
    <3>7. \A r \in reports : r.verdict = "supported" => c \in DOMAIN verdicts /\ verdicts[c]
      BY <3>4, <3>6
    <3> QED
      BY <1>3, <3>5, <3>7 DEF reports
  <2>3. CASE ~(Known \subseteq DOMAIN verdicts)
    <3>1. checks'.of = Flagged /\ checks'.status = "unavailable"
      BY <1>1, <2>3 DEF Checked
    <3>2. \A r \in checks'.of : r.cite # c
      BY <2>1, <3>1 DEF Flagged, Report
    <3> QED
      BY <1>3, <3>1, <3>2
  <2> QED
    BY <2>2, <2>3
<1> QED
  BY <1>2, <1>3

\* A step keeps the checks honest: they change only with the draft they are about.
LEMMA ChecksStep == TypeInv /\ MergeStands /\ ChecksAreHonest /\ [Next]_vars => ChecksAreHonest'
<1> SUFFICES ASSUME TypeInv, MergeStands, ChecksAreHonest, [Next]_vars PROVE ChecksAreHonest'
  OBVIOUS
<1>1. ASSUME UNCHANGED <<draft, checks>>, phase' = "idle" => phase = "idle" PROVE ChecksAreHonest'
  BY <1>1 DEF ChecksAreHonest
<1>2. ASSUME phase' # "idle" \/ draft' = NoDraft PROVE ChecksAreHonest'
  BY <1>2 DEF ChecksAreHonest, NoDraft
<1>3. CASE \E m \in Materials : AddMaterial(m)
  BY <1>1, <1>3 DEF AddMaterial, request
<1>4. ASSUME NEW terms \in SUBSET Words, NEW external \in BOOLEAN, Search(terms, external) PROVE ChecksAreHonest'
  BY <1>2, <1>4 DEF Search, Forget
<1>5. ASSUME NEW s \in ToSet(Sources), NEW papers \in Answers[s] \cup {<<>>}, Answer(s, papers)
      PROVE ChecksAreHonest'
  BY <1>1, <1>5 DEF Answer
<1>6. CASE ArxivTimeout
  BY <1>1, <1>6 DEF ArxivTimeout
<1>7. CASE Gather
  BY <1>2, <1>7 DEF Gather
<1>8. CASE GiveUp
  BY <1>2, <1>8 DEF GiveUp
<1>9. ASSUME NEW n \in 0..MaxResults, NEW results \in [1..n -> Named], Pick(results)
      PROVE ChecksAreHonest'
  BY <1>2, <1>9 DEF Pick
<1>10. ASSUME NEW items \in SUBSET Selectable, Choose(items)
       PROVE ChecksAreHonest'
  BY <1>2, <1>10 DEF Choose
<1>11. ASSUME NEW cites \in SUBSET Cites, Write(cites) PROVE ChecksAreHonest'
  BY <1>2, <1>11 DEF Write
<1>12. ASSUME NEW judged \in SUBSET draft.cites, NEW verdicts \in [judged -> BOOLEAN], Check(verdicts)
       PROVE ChecksAreHonest'
  BY <1>12, CheckReports
<1>13. ASSUME NEW selected \in SUBSET ToSet(Sources), SearchAll(selected) PROVE ChecksAreHonest'
  BY <1>2, <1>13 DEF SearchAll, Forget
<1>14. CASE Merge
  BY <1>2, <1>14 DEF Merge, MergeStands
<1>15. CASE UNCHANGED vars
  BY <1>1, <1>15 DEF vars
<1> QED
  BY <1>3, <1>4, <1>5, <1>6, <1>7, <1>8, <1>9, <1>10, <1>11, <1>12, <1>13, <1>14, <1>15 DEF Next

\* The inductive invariant of the literature dialogue.
THEOREM LiteratureInvariance == Spec => []LiteratureInv
<1>1. Init => LiteratureInv
  BY LiteratureInit
<1>2. LiteratureInv /\ [Next]_vars => LiteratureInv'
  BY TypeStep, MergeStandsStep, ChecksStep DEF LiteratureInv
<1> QED
  BY <1>1, <1>2, PTL DEF Spec

\* Of a draft the researcher gets, a citation of what was not selected is flagged,
\* whatever became of the checker, and none is called supported that the checker did
\* not find supported.
THEOREM ChecksAreHonestAlways == Spec => []ChecksAreHonest
<1>1. LiteratureInv => ChecksAreHonest
  BY DEF LiteratureInv
<1> QED
  BY <1>1, LiteratureInvariance, PTL
-----------------------------------------------------------------------------
\* ranked_corpus_hits: a text with a term that is not common to all comes before those
\* that have only common ones, so the cut at the limit does not drop it for them.
THEOREM RareTermsRankAlways == Spec => []RareTermsRank
<1>1. LiteratureInv => RareTermsRank
  <2> SUFFICES ASSUME corpus \in Seq(Materials), NEW terms \in SUBSET Words PROVE
        LET texts == [k \in DOMAIN corpus |-> corpus[k].words]
            order == Rank(texts, terms)
            common == {w \in terms : \A k \in DOMAIN texts : w \in texts[k]}
        IN \A a, b \in DOMAIN order :
             texts[order[a]] \cap terms \subseteq common /\ ~(texts[order[b]] \cap terms \subseteq common)
               => b < a
    BY DEF LiteratureInv, TypeInv, RareTermsRank
  <2> DEFINE texts == [k \in DOMAIN corpus |-> corpus[k].words]
             order == Rank(texts, terms)
             common == {w \in terms : \A k \in DOMAIN texts : w \in texts[k]}
             T == {m.words : m \in Materials}
  <2>1. texts \in Seq(T) /\ DOMAIN texts = DOMAIN corpus
    <3>1. Len(corpus) \in Nat /\ DOMAIN corpus = 1..Len(corpus)
      OBVIOUS
    <3>2. texts \in [1..Len(corpus) -> T]
      BY <3>1
    <3> HIDE DEF texts, T
    <3> QED
      BY <3>1, <3>2, SeqDef
  <2>2. IsFiniteSet(terms)
    BY MaterialsAssumption, FS_Subset
  <2> HIDE DEF texts, T
  <2>3. order \in SetToSeqs(DOMAIN texts)
    <3>1. PICK score : score = [i \in DOMAIN texts |-> Score(texts, terms, i)]
      OBVIOUS
    <3> QED
      BY <2>1, <2>2, <3>1, RankIsSorted
  <2> HIDE DEF order, common
  <2>4. ASSUME NEW a \in DOMAIN order, NEW b \in DOMAIN order,
               texts[order[a]] \cap terms \subseteq common,
               ~(texts[order[b]] \cap terms \subseteq common)
        PROVE b < a
    <3>1. order[a] \in DOMAIN texts /\ order[b] \in DOMAIN texts
      BY <2>3 DEF SetToSeqs
    <3>2. \A i \in DOMAIN texts : common \subseteq texts[i] \cap terms
      BY DEF common
    <3>3. /\ HitTerms(texts[order[a]], terms) \subseteq HitTerms(texts[order[b]], terms)
          /\ HitTerms(texts[order[a]], terms) # HitTerms(texts[order[b]], terms)
      BY <2>4, <3>1, <3>2 DEF HitTerms
    <3>4. order = Rank(texts, terms)
      BY DEF order
    <3> QED
      BY <2>1, <2>2, <3>3, <3>4, RicherTextsRankFirst
  <2> QED
    BY <2>4 DEF order, common, texts
<1> QED
  BY <1>1, LiteratureInvariance, PTL
-----------------------------------------------------------------------------
\* MergeIsFaithful follows from what is proved of Dedupe.
LEMMA FaithfulMerge ==
  ASSUME NEW n \in Nat, DOMAIN Combined = 1..n, \A i \in 1..n : IsPaper(Combined[i]),
         merged = Dedupe(Combined)
  PROVE MergeIsFaithful
<1> DEFINE first(key) == CHOOSE i \in DOMAIN Combined :
                           MergeKey(Combined[i]) = key /\ \A j \in 1..i - 1 : MergeKey(Combined[j]) # key
           sharing(key) == {Combined[i] : i \in {j \in DOMAIN Combined : MergeKey(Combined[j]) = key}}
<1>1. FaithfulTo(merged, Combined, n)
  BY DedupeIsFaithful
<1>2. {MergeKey(merged[k]) : k \in DOMAIN merged} = {MergeKey(p) : p \in ToSet(Combined)}
  <2>1. {MergeKey(p) : p \in ToSet(Combined)} = {MergeKey(Combined[j]) : j \in 1..n}
    BY DEF ToSet
  <2>2. /\ \A j \in 1..n : \E i \in DOMAIN merged : MergeKey(merged[i]) = MergeKey(Combined[j])
        /\ \A i \in DOMAIN merged : \E j \in 1..n : MergeKey(merged[i]) = MergeKey(Combined[j])
    BY <1>1 DEF FaithfulTo
  <2>3. {MergeKey(merged[k]) : k \in DOMAIN merged} = {MergeKey(Combined[j]) : j \in 1..n}
    BY <2>2
  <2> QED
    BY <2>1, <2>3
<1>3. ASSUME NEW key, \E j \in 1..n : MergeKey(Combined[j]) = key
      PROVE /\ first(key) \in 1..n /\ MergeKey(Combined[first(key)]) = key
            /\ \A j \in 1..n : MergeKey(Combined[j]) = key => first(key) <= j
  <2> DEFINE Places == {j \in 1..n : MergeKey(Combined[j]) = key}
  <2>1. PICK m \in Places : \A j \in Places : m <= j
    <3>1. Places \in SUBSET Nat /\ Places # {}
      BY <1>3
    <3> HIDE DEF Places
    <3> QED
      BY <3>1, LeastNatural
  <2>2. m \in DOMAIN Combined /\ MergeKey(Combined[m]) = key /\ \A j \in 1..m - 1 : MergeKey(Combined[j]) # key
    BY <2>1
  <2>3. /\ first(key) \in DOMAIN Combined /\ MergeKey(Combined[first(key)]) = key
        /\ \A j \in 1..first(key) - 1 : MergeKey(Combined[j]) # key
    BY <2>2
  <2> HIDE DEF first
  <2>4. \A j \in 1..n : MergeKey(Combined[j]) = key => first(key) <= j
    BY <2>3
  <2> QED
    BY <2>3, <2>4
<1>4. \A k \in DOMAIN merged : \E j \in 1..n : MergeKey(Combined[j]) = MergeKey(merged[k])
  BY <1>1 DEF FaithfulTo
<1>5. ASSUME NEW j \in DOMAIN merged, NEW k \in DOMAIN merged, j < k
      PROVE first(MergeKey(merged[j])) < first(MergeKey(merged[k]))
  <2>1. PICK b \in 1..n : b = first(MergeKey(merged[k])) /\ MergeKey(Combined[b]) = MergeKey(merged[k])
    BY <1>3, <1>4
  <2>2. PICK a \in 1..(b - 1) : MergeKey(Combined[a]) = MergeKey(merged[j])
    <3>1. InOrder(merged, Combined, n)
      BY <1>1 DEF FaithfulTo
    <3> HIDE DEF first
    <3> QED
      BY <1>5, <2>1, <3>1 DEF InOrder
  <2>3. a \in 1..n
    BY <2>1, <2>2
  <2>4. first(MergeKey(merged[j])) \in 1..n /\ first(MergeKey(merged[j])) <= a
    BY <1>3, <1>4, <2>2, <2>3
  <2> HIDE DEF first
  <2> QED
    BY <2>1, <2>2, <2>4
<1>6. \A v, S : S \in SUBSET Nat /\ IsGreatest(v, S) => v = Max(S)
  <2> SUFFICES ASSUME NEW v, NEW S \in SUBSET Nat, IsGreatest(v, S) PROVE v = Max(S)
    OBVIOUS
  <2>1. v \in S /\ \A w \in S : v >= w
    BY DEF IsGreatest
  <2>2. Max(S) \in S /\ \A w \in S : Max(S) >= w
    BY <2>1 DEF Max
  <2>3. v \in Nat /\ Max(S) \in Nat /\ v >= Max(S) /\ Max(S) >= v
    BY <2>1, <2>2
  <2> QED
    BY <2>3
<1>7. ASSUME NEW k \in DOMAIN merged
      PROVE LET group == sharing(MergeKey(merged[k]))
            IN /\ ToSet(merged[k].sources) = {p.source : p \in group}
               /\ merged[k].citations = Max({p.citations : p \in group})
               /\ merged[k].abstract = Max({p.abstract : p \in group})
  <2> DEFINE group == sharing(MergeKey(merged[k]))
  <2>1. group = Sharing(Combined, n, MergeKey(merged[k]))
    BY DEF Sharing
  <2>2. \A p \in group : IsPaper(p)
    OBVIOUS
  <2> HIDE DEF group
  <2>3. {p.citations : p \in group} \in SUBSET Nat /\ {p.abstract : p \in group} \in SUBSET Nat
    BY <2>2 DEF IsPaper
  <2>4. /\ ToSet(merged[k].sources) = {p.source : p \in group}
        /\ IsGreatest(merged[k].citations, {p.citations : p \in group})
        /\ IsGreatest(merged[k].abstract, {p.abstract : p \in group})
    BY <1>1, <2>1 DEF FaithfulTo, RecordFaithful
  <2>5. /\ merged[k].citations = Max({p.citations : p \in group})
        /\ merged[k].abstract = Max({p.abstract : p \in group})
    BY <1>6, <2>3, <2>4
  <2> QED
    BY <2>4, <2>5 DEF group
<1> QED
  BY <1>2, <1>5, <1>7 DEF MergeIsFaithful

\* g is the recursive function by which FlattenSeq joins the first k lists.
Joining(g, lists, k) == g = [i \in 1..k |-> IF i = 1 THEN lists[i] ELSE g[i - 1] \o lists[i]]

\* That function exists.
LEMMA JoiningExists ==
  ASSUME NEW lists, NEW n \in Nat
  PROVE \E g : Joining(g, lists, n)
<1> SUFFICES ASSUME ~ \E g : Joining(g, lists, n) PROVE FALSE
  OBVIOUS
<1> DEFINE Bad == {k \in Nat : ~ \E g : Joining(g, lists, k)}
<1>1. PICK m \in Bad : \A k \in Bad : m <= k
  <2>1. Bad \in SUBSET Nat /\ Bad # {}
    OBVIOUS
  <2> HIDE DEF Bad
  <2> QED
    BY <2>1, LeastNatural
<1>2. m # 0
  <2> SUFFICES ASSUME m = 0 PROVE FALSE
    OBVIOUS
  <2> DEFINE g == [i \in 1..0 |-> lists[i]]
  <2>1. g = [i \in 1..0 |-> IF i = 1 THEN lists[i] ELSE g[i - 1] \o lists[i]]
    OBVIOUS
  <2> HIDE DEF g
  <2> QED
    BY <1>1, <2>1 DEF Joining
<1>3. m \in Nat \ {0} /\ m - 1 \in Nat /\ m - 1 \notin Bad
  BY <1>1, <1>2
<1>4. PICK h : Joining(h, lists, m - 1)
  BY <1>3
<1>5. \A i \in 1..(m - 1) : h[i] = IF i = 1 THEN lists[i] ELSE h[i - 1] \o lists[i]
  BY <1>4 DEF Joining
<1>6. PICK last : last = IF m = 1 THEN lists[m] ELSE h[m - 1] \o lists[m]
  OBVIOUS
<1>7. PICK g : g = [i \in 1..m |-> IF i = m THEN last ELSE h[i]]
  OBVIOUS
<1>8. /\ \A i \in 1..m : i = m \/ i \in 1..(m - 1)
      /\ \A i \in 1..(m - 1) : g[i] = h[i]
      /\ g[m] = last
  BY <1>3, <1>7
<1>9. ASSUME NEW i \in 1..m PROVE g[i] = IF i = 1 THEN lists[i] ELSE g[i - 1] \o lists[i]
  <2>1. i # 1 => i - 1 \in 1..(m - 1) /\ g[i - 1] = h[i - 1]
    BY <1>3, <1>8
  <2>2. CASE i = m
    BY <1>6, <1>8, <2>1, <2>2
  <2>3. CASE i \in 1..(m - 1)
    BY <1>5, <1>8, <2>1, <2>3
  <2> QED
    BY <1>8, <2>2, <2>3
<1>10. Joining(g, lists, m)
  BY <1>7, <1>9 DEF Joining
<1> QED
  BY <1>1, <1>10

\* Lists of elements of S are joined to such a list.
LEMMA JoiningType ==
  ASSUME NEW S, NEW n \in Nat, NEW lists \in [1..n -> Seq(S)], NEW g, Joining(g, lists, n)
  PROVE \A i \in 1..n : g[i] \in Seq(S)
<1> DEFINE Bad == {k \in 1..n : g[k] \notin Seq(S)}
<1> SUFFICES ASSUME Bad # {} PROVE FALSE
  OBVIOUS
<1>1. PICK m \in Bad : \A k \in Bad : m <= k
  <2>1. Bad \in SUBSET Nat
    OBVIOUS
  <2> HIDE DEF Bad
  <2> QED
    BY <2>1, LeastNatural
<1>2. g[m] = IF m = 1 THEN lists[m] ELSE g[m - 1] \o lists[m]
  BY <1>1 DEF Joining
<1>3. lists[m] \in Seq(S)
  BY <1>1
<1>4. CASE m = 1
  BY <1>1, <1>2, <1>3, <1>4
<1>5. CASE m # 1
  <2>1. m - 1 \in 1..n /\ m - 1 \notin Bad
    BY <1>1, <1>5
  <2>2. g[m - 1] \in Seq(S)
    BY <2>1
  <2>3. g[m - 1] \o lists[m] \in Seq(S)
    BY <1>3, <2>2, ConcatProperties
  <2> QED
    BY <1>1, <1>2, <1>5, <2>3
<1> QED
  BY <1>4, <1>5

\* The lists the sources answered, joined, are a list of papers.
LEMMA CombinedType == TypeInv => Combined \in Seq(PaperRecords)
<1> SUFFICES ASSUME TypeInv PROVE Combined \in Seq(PaperRecords)
  OBVIOUS
<1> DEFINE lists == [k \in DOMAIN Sources |-> legs[Sources[k]].papers]  n == Len(Sources)
<1>1. n \in Nat /\ DOMAIN Sources = 1..n
  BY SourcesAssumption
<1>2. lists \in [1..n -> Seq(PaperRecords)]
  BY <1>1 DEF TypeInv, Legs, ToSet
<1>3. Combined = FlattenSeq(lists)
  BY DEF Combined
<1> HIDE DEF lists, n
<1>4. Len(lists) = n
  BY <1>1, <1>2
<1>5. CASE n = 0
  <2>1. FlattenSeq(lists) = lists
    BY <1>4, <1>5 DEF FlattenSeq
  <2>2. lists \in [1..0 -> PaperRecords]
    BY <1>2, <1>5
  <2>3. lists \in Seq(PaperRecords)
    BY <2>2, SeqDef
  <2> QED
    BY <1>3, <2>1, <2>3
<1>6. CASE n # 0
  <2> DEFINE flatten == CHOOSE g : Joining(g, lists, n)
  <2>1. Joining(flatten, lists, n)
    BY <1>1, JoiningExists
  <2>2. FlattenSeq(lists) = flatten[n]
    BY <1>1, <1>4, <1>6 DEF FlattenSeq, Joining
  <2> HIDE DEF flatten
  <2>3. n \in 1..n
    BY <1>1, <1>6
  <2>4. flatten[n] \in Seq(PaperRecords)
    BY <1>1, <1>2, <2>1, <2>3, JoiningType
  <2> QED
    BY <1>3, <2>2, <2>4
<1> QED
  BY <1>5, <1>6

\* What the clients of the sources answer has the fields Dedupe reads.
LEMMA RecordsArePapers == \A p \in PaperRecords : IsPaper(p)
BY DEF IsPaper, PaperFields, PaperRecords

\* search_all: the answer has one record per key, in the order of first appearance, with
\* the longest abstract, the most citations and every source of the papers it stands for.
THEOREM MergeIsFaithfulAlways == Spec => []MergeIsFaithful
<1>1. LiteratureInv => MergeIsFaithful
  <2> SUFFICES ASSUME LiteratureInv PROVE MergeIsFaithful
    OBVIOUS
  <2>1. CASE merged = <<>>
    BY <2>1 DEF MergeIsFaithful
  <2>2. CASE merged # <<>>
    <3>1. Combined \in Seq(PaperRecords)
      BY CombinedType DEF LiteratureInv
    <3>2. Len(Combined) \in Nat /\ DOMAIN Combined = 1..Len(Combined)
      BY <3>1
    <3>3. \A i \in 1..Len(Combined) : IsPaper(Combined[i])
      BY <3>1, <3>2, RecordsArePapers
    <3>4. merged = Dedupe(Combined)
      BY <2>2 DEF LiteratureInv, MergeStands
    <3> QED
      BY <3>2, <3>3, <3>4, FaithfulMerge
  <2> QED
    BY <2>1, <2>2
<1> QED
  BY <1>1, LiteratureInvariance, PTL
=============================================================================
