------------------------------ MODULE Literature ------------------------------
(***************************************************************************)
(* The literature dialogue: a search over the corpus and two live sources, *)
(* the model's pick of what is relevant, and drafts whose citations are    *)
(* checked against what was selected (research_universe/api/slice9.py,     *)
(* slice7.py, dialogue_sources.py).  It stores nothing; the corpus grows   *)
(* meanwhile.  The archived search over all sources gathers the same way   *)
(* and merges what it gets (legacy_archive/search/multi.py).               *)
(*                                                                         *)
(* The sources and the model are external: a source answers papers, fails  *)
(* or never answers, the model says anything.                              *)
(***************************************************************************)
EXTENDS Papers

CONSTANTS
  Sources,       \* the registered sources, in the order of their selection
  Answers,       \* Answers[s]: the lists of papers source s may answer
  Materials,     \* the materials that may be added to the corpus
  Brought,       \* the locators of papers a request may bring along
  Words,         \* the terms of a query
  HitLimit, MaxPicks,   \* ranked_corpus_hits(.., 10), at most 8 picks
  MaxResults, MaxCites, \* bounds: the results the model lists, what a draft cites
  MaxCorpus             \* bound: the materials in the corpus

ASSUME SourcesAssumption ==
  /\ Sources \in Seq(STRING) /\ {"arxiv", "openalex"} \subseteq ToSet(Sources)
  /\ DOMAIN Answers = ToSet(Sources)
  /\ \A s \in DOMAIN Answers : Answers[s] \subseteq Seq(PaperRecords)
ASSUME LimitsAssumption == {HitLimit, MaxPicks, MaxResults, MaxCites, MaxCorpus} \subseteq Nat
ASSUME MaterialsAssumption ==
  /\ IsFiniteSet(Materials) /\ IsFiniteSet(Words)
  /\ \A m \in Materials : m.locator.kind \in Kinds /\ m.locator.spelling \in Spellings /\ m.words \subseteq Words
ASSUME BroughtAssumption == \A l \in Brought : l.kind \in Kinds /\ l.spelling \in Spellings

VARIABLES
  corpus,    \* the evidence materials of the corpus workspaces, in the order of their events
  phase,     \* where the request is
  legs,      \* what each source has answered so far
  found,     \* what the search has found: corpus hits, then papers
  picks,     \* the candidates shown to the researcher
  draft,     \* the selected items, what a draft cites, and the checker's verdicts
  checks,    \* what is reported about each citation
  merged     \* the answer of the archived search

vars == <<corpus, phase, legs, found, picks, draft, checks, merged>>
request == <<legs, found, picks, draft, checks, merged>>

NoDraft == [items |-> {}, cites |-> {}, verdicts |-> <<>>]
NoChecks == [status |-> "ok", of |-> {}]
Leg(is, papers) == [is |-> is, papers |-> papers]
Unasked == [s \in ToSet(Sources) |-> Leg("unasked", <<>>)]

Init ==
  /\ corpus = <<>> /\ phase = "idle" /\ legs = Unasked /\ found = <<>> /\ picks = <<>>
  /\ draft = NoDraft /\ checks = NoChecks /\ merged = <<>>

\* A request begins: what the one before it answered is gone.
Forget == picks' = <<>> /\ draft' = NoDraft /\ checks' = NoChecks /\ merged' = <<>>

Locators(list) == {list[i].locator : i \in DOMAIN list}

\* add_material or a capture, by somebody else.
AddMaterial(m) ==
  /\ m \notin ToSet(corpus) /\ Len(corpus) < MaxCorpus
  /\ corpus' = Append(corpus, m)
  /\ UNCHANGED <<phase, request>>
-----------------------------------------------------------------------------
\* ranked_corpus_hits: the best of the ranked texts that hit a term at all.
CorpusHits(terms) ==
  LET texts == [i \in DOMAIN corpus |-> corpus[i].words]
      best == FirstOf(Rank(texts, terms), HitLimit)
      hits == SelectSeq(best, LAMBDA i : HitTerms(texts[i], terms) # {})
  IN [k \in DOMAIN hits |-> [locator |-> corpus[hits[k]].locator, from |-> "corpus"]]

Asked(some) == [s \in DOMAIN legs |-> Leg(IF s \in some THEN "running" ELSE "unasked", <<>>)]

\* literature_search begins; a query in Chinese that cannot be translated has no terms.
Search(terms, external) ==
  /\ phase = "idle"
  /\ found' = CorpusHits(terms)
  /\ phase' = IF external THEN "fetch" ELSE "pool"
  /\ legs' = IF external THEN Asked({"arxiv", "openalex"}) ELSE Unasked
  /\ Forget
  /\ UNCHANGED corpus

\* A source answers, or raises and so contributes nothing.
Answer(s, papers) ==
  /\ legs[s].is = "running"
  /\ legs' = [legs EXCEPT ![s] = Leg("done", papers)]
  /\ UNCHANGED <<corpus, phase, found, picks, draft, checks, merged>>

\* Mistake: the wait for arXiv has no limit.
NoTimeout == FALSE /\ UNCHANGED vars

\* ARXIV_WALL_SECONDS: the search goes on without arXiv, and cancels it.
ArxivTimeout ==
  /\ phase = "fetch" /\ legs["arxiv"].is = "running"
  /\ legs' = [legs EXCEPT !["arxiv"] = Leg("done", <<>>)]
  /\ UNCHANGED <<corpus, phase, found, picks, draft, checks, merged>>

\* A paper that can be located and was not found before.
Extended(pool, p) ==
  IF Normalise(p) = Nowhere \/ Normalise(p) \in Locators(pool) THEN pool
  ELSE Append(pool, [locator |-> Normalise(p), from |-> p.source])

\* external_search is done: arXiv before OpenAlex, whichever answered first.
Gather ==
  /\ phase = "fetch"
  /\ legs["arxiv"].is # "running" /\ legs["openalex"].is # "running"
  /\ found' = FoldLeft(Extended, found, legs["arxiv"].papers \o legs["openalex"].papers)
  /\ phase' = "pool" /\ legs' = Unasked
  /\ UNCHANGED <<corpus, picks, draft, checks, merged>>

\* Nothing to choose from, the model fails, or the researcher leaves it there.
GiveUp ==
  /\ phase \in {"pool", "shown", "draft"}
  /\ phase' = "idle" /\ found' = <<>> /\ picks' = <<>> /\ draft' = NoDraft
  /\ UNCHANGED <<corpus, legs, checks, merged>>

\* What the model names is looked up by its canonical locator and dropped if it is
\* not in the pool.
InPool(results) == SelectSeq(results, LAMBDA l : Canonical(l) \in Locators(found))
Picked(results) == [k \in DOMAIN InPool(results) |-> Canonical(InPool(results)[k])]

Pick(results) ==
  /\ phase = "pool" /\ found # <<>>
  /\ picks' = FirstOf(Picked(results), MaxPicks)
  /\ phase' = "shown"
  /\ UNCHANGED <<corpus, legs, found, draft, checks, merged>>
-----------------------------------------------------------------------------
\* _chosen_items: materials are read from the store; papers come with the request, and
\* nothing compares them with what was shown.
Choose(items) ==
  /\ phase = "shown" /\ items # {}
  /\ draft' = [NoDraft EXCEPT !.items = items]
  /\ phase' = "draft" /\ found' = <<>> /\ picks' = <<>>
  /\ UNCHANGED <<corpus, legs, checks, merged>>

\* The model writes; a citation is a locator in brackets, each in its own sentence.
Write(cites) ==
  /\ phase = "draft"
  /\ draft' = [draft EXCEPT !.cites = cites]
  /\ phase' = "written"
  /\ UNCHANGED <<corpus, legs, found, picks, checks, merged>>

Selected(locator) == \E item \in draft.items : Canonical(item) = Canonical(locator)
Known == {c \in draft.cites : Selected(c)}

Report(cite, verdict) == [cite |-> cite, verdict |-> verdict]
Flagged == {Report(c, "not_selected") : c \in draft.cites \ Known}

\* Mistake: a pair the checker skipped passes for supported.
CheckedLeniently(verdicts) ==
  [status |-> "ok",
   of |-> Flagged \cup {Report(c, IF c \in DOMAIN verdicts /\ ~verdicts[c] THEN "unsupported" ELSE "supported")
                          : c \in Known}]

\* The checker must judge every pair it was shown, or the check is unavailable.
Checked(verdicts) ==
  IF Known \subseteq DOMAIN verdicts
  THEN [status |-> "ok",
        of |-> Flagged \cup {Report(c, IF verdicts[c] THEN "supported" ELSE "unsupported") : c \in Known}]
  ELSE [status |-> "unavailable", of |-> Flagged]

\* The draft is returned with its checks: nothing is blocked or rewritten.
Check(verdicts) ==
  /\ phase = "written"
  /\ draft' = [draft EXCEPT !.verdicts = verdicts]
  /\ checks' = Checked(verdicts)
  /\ phase' = "idle"
  /\ UNCHANGED <<corpus, legs, found, picks, merged>>
-----------------------------------------------------------------------------
\* search_all: every selected source at once, the answers in the order of selection.
SearchAll(selected) ==
  /\ phase = "idle" /\ selected # {}
  /\ legs' = Asked(selected)
  /\ phase' = "gather"
  /\ found' = <<>> /\ Forget
  /\ UNCHANGED corpus

\* A source that was not selected has answered nothing.
Combined == FlattenSeq([k \in DOMAIN Sources |-> legs[Sources[k]].papers])

Merge ==
  /\ phase = "gather"
  /\ \A s \in DOMAIN legs : legs[s].is # "running"
  /\ merged' = Dedupe(Combined)
  /\ phase' = "idle"
  /\ UNCHANGED <<corpus, legs, found, picks, draft, checks>>
-----------------------------------------------------------------------------
\* A locator the model makes up.
Invented == Locator("doi", 99, "upper")

\* The ways in which the model may write a locator it was given.
Written(l) == {l, Canonical(l), [l EXCEPT !.spelling = "url"]}

\* The citations a draft may hold: what is selected, and what is not.
Cites == UNION {Written(l) : l \in draft.items} \cup {Invented}

\* What the model may name of the pool, and what the researcher may select.
Named == UNION {Written(l) : l \in Locators(found)} \cup {Invented}
Selectable == ToSet(picks) \cup {m.locator : m \in ToSet(corpus)} \cup Brought

Next ==
  \/ \E m \in Materials : AddMaterial(m)
  \/ \E terms \in SUBSET Words, external \in BOOLEAN : Search(terms, external)
  \/ \E s \in ToSet(Sources) : \E papers \in Answers[s] \cup {<<>>} : Answer(s, papers)
  \/ ArxivTimeout \/ Gather \/ GiveUp
  \/ \E n \in 0..MaxResults : \E results \in [1..n -> Named] : Pick(results)
  \/ \E items \in SUBSET Selectable : Choose(items)
  \/ \E cites \in SUBSET Cites : Cardinality(cites) <= MaxCites /\ Write(cites)
  \/ \E judged \in SUBSET draft.cites : \E verdicts \in [judged -> BOOLEAN] : Check(verdicts)
  \/ \E selected \in SUBSET ToSet(Sources) : SearchAll(selected)
  \/ Merge

Spec == Init /\ [][Next]_vars

\* The event loop runs what is ready.  The clients of the sources have time limits of
\* their own, but arXiv retries until it is cut off: nothing is assumed of it.
Fairness ==
  /\ WF_vars(ArxivTimeout) /\ WF_vars(Gather)
  /\ WF_vars(\E papers \in Answers["openalex"] \cup {<<>>} : Answer("openalex", papers))
FairSpec == Spec /\ Fairness
-----------------------------------------------------------------------------
\* ranking.py: a text that carries nothing but what every text carries cannot
\* outrank one that carries a rarer term of the query, so the cut at the limit
\* never drops a text for the sake of a poorer one.
RareTermsRank ==
  \A terms \in SUBSET Words :
    LET texts == [k \in DOMAIN corpus |-> corpus[k].words]
        order == Rank(texts, terms)
        common == {w \in terms : \A k \in DOMAIN texts : w \in texts[k]}
    IN \A a, b \in DOMAIN order :
         texts[order[a]] \cap terms \subseteq common /\ ~(texts[order[b]] \cap terms \subseteq common)
           => b < a

\* _check_citations: a citation of what was not selected is flagged even when the
\* checker is unavailable; one is reported supported only if the checker said so of
\* that very pair; and an available check reports every citation, once.
ChecksAreHonest ==
  phase = "idle" =>
    \A c \in draft.cites :
      LET reports == {r \in checks.of : r.cite = c}
          selected == \E item \in draft.items : Canonical(item) = Canonical(c)
      IN /\ ~selected => {r.verdict : r \in reports} = {"not_selected"}
         /\ \A r \in reports : r.verdict = "supported" => c \in DOMAIN draft.verdicts /\ draft.verdicts[c]
         /\ checks.status = "ok" => Cardinality(reports) = 1

\* dedupe.py: the merged answer has one record for every key, in the order in which
\* the keys first appear, with the sources of all the papers that share it and the
\* most citations and the longest abstract any of them has.
MergeIsFaithful ==
  phase = "idle" /\ merged # <<>> =>
    LET all == Combined
        first(key) == CHOOSE i \in DOMAIN all :
                        MergeKey(all[i]) = key /\ \A j \in 1..i - 1 : MergeKey(all[j]) # key
        sharing(key) == {all[i] : i \in {j \in DOMAIN all : MergeKey(all[j]) = key}}
    IN /\ {MergeKey(merged[k]) : k \in DOMAIN merged} = {MergeKey(p) : p \in ToSet(all)}
       /\ \A j, k \in DOMAIN merged :
            j < k => first(MergeKey(merged[j])) < first(MergeKey(merged[k]))
       /\ \A k \in DOMAIN merged :
            LET group == sharing(MergeKey(merged[k]))
            IN /\ ToSet(merged[k].sources) = {p.source : p \in group}
               /\ merged[k].citations = Max({p.citations : p \in group})
               /\ merged[k].abstract = Max({p.abstract : p \in group})

\* dialogue_sources.py: a throttled arXiv cannot stall the search.
SearchReturns == phase = "fetch" ~> phase # "fetch"

\* The prompt of the search has the model copy the locator of a candidate as it is:
\* a result that does is kept.
VerbatimPickIsKept == \A i \in DOMAIN found : InPool(<<found[i].locator>>) # <<>>
=============================================================================
