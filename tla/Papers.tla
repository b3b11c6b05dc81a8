-------------------------------- MODULE Papers --------------------------------
(***************************************************************************)
(* Papers as the literature sources answer them, how they are told apart,  *)
(* and how texts are ranked: the pure part of the literature search.       *)
(*                                                                         *)
(* A paper has a source, the id it has there, a DOI, a title with its year *)
(* (a number), the length of its abstract, its citations and urls; 0 and   *)
(* NoDoi stand for what is missing.  The DOI of an arXiv preprint carries  *)
(* the arXiv id.  A locator is a kind, an id and the way it is written:    *)
(* "url" is the URL of the paper, its arXiv id with a version, or its bare *)
(* DOI.                                                                    *)
(***************************************************************************)
EXTENDS Integers, Sequences, FiniteSets, FiniteSetsExt, SequencesExt

Kinds == {"arxiv", "doi", "openalex", "other"}
Spellings == {"lower", "upper", "url"}
Locator(kind, id, spelling) == [kind |-> kind, id |-> id, spelling |-> spelling]
Nowhere == Locator("none", 0, "lower")
NoDoi == <<"none", 0>>

\* _canonical_locator: everything is written in lower case; the URLs of the three
\* registries and the version of an arXiv id are recognised, any other URL is kept.
Canonical(locator) ==
  [locator EXCEPT !.spelling =
     IF locator.kind = "other" /\ locator.spelling = "url" THEN "url" ELSE "lower"]

\* _normalise: where an answer is found.  An OpenAlex id keeps its capital W.
Normalise(p) ==
  IF p.title = 0 \/ p.abstract = 0 THEN Nowhere
  ELSE IF p.doi # NoDoi THEN Locator(p.doi[1], p.doi[2], "lower")
  ELSE IF p.sid = 0 THEN Nowhere
  ELSE IF p.source = "arxiv" THEN Locator("arxiv", p.sid, "lower")
  ELSE IF p.source = "openalex" THEN Locator("openalex", p.sid, "upper")
  ELSE Nowhere

\* What the clients of the sources answer.
PaperRecords ==
  [source : STRING, sid : Nat, doi : (Kinds \cup {"none"}) \X Nat, title : Nat,
   abstract : Nat, citations : Nat, urls : Seq(Nat)]
-----------------------------------------------------------------------------
\* search/dedupe.py: one record for the papers that share a key.
MergeKey(p) ==
  IF p.doi # NoDoi THEN <<"doi", p.doi>>
  ELSE IF p.sid # 0 THEN <<"sid", p.source, p.sid>>
  ELSE <<"title", p.title>>

FirstOf(list, n) == SubSeq(list, 1, IF n < Len(list) THEN n ELSE Len(list))
Larger(a, b) == IF a >= b THEN a ELSE b
\* What is new is appended, once.
Appended(list, new) ==
  FoldLeft(LAMBDA kept, x : IF Contains(kept, x) THEN kept ELSE Append(kept, x), list, new)

\* Mistake: the citations of the record seen last are kept.
MergedLast(kept, p) ==
  [kept EXCEPT !.abstract = Larger(kept.abstract, p.abstract),
               !.urls = Appended(kept.urls, p.urls),
               !.citations = p.citations,
               !.sources = Appended(kept.sources, <<p.source>>)]

\* The record seen first, enriched.
Merged(kept, p) ==
  [kept EXCEPT !.abstract = Larger(kept.abstract, p.abstract),
               !.urls = Appended(kept.urls, p.urls),
               !.citations = Larger(kept.citations, p.citations),
               !.sources = Appended(kept.sources, <<p.source>>)]

FirstSeen(p) ==
  [source |-> p.source, sid |-> p.sid, doi |-> p.doi, title |-> p.title, abstract |-> p.abstract,
   citations |-> p.citations, urls |-> p.urls, sources |-> <<p.source>>]

\* The next paper enriches the record with its key, or is a record of its own.
Placed(out, p) ==
  IF \E i \in DOMAIN out : MergeKey(out[i]) = MergeKey(p)
  THEN [i \in DOMAIN out |-> IF MergeKey(out[i]) = MergeKey(p) THEN Merged(out[i], p) ELSE out[i]]
  ELSE Append(out, FirstSeen(p))

Dedupe(papers) == FoldLeft(Placed, <<>>, papers)
-----------------------------------------------------------------------------
\* search/ranking.py over texts that are sets of words.  The score of a text is the
\* sum of log(1 + n/df) over the terms it hits; sums of logarithms are compared as
\* the products (n + df)/df they are the logarithms of.
\* Mistake: counting stops at the first term that is found.
FirstHit(text, terms) ==
  IF text \cap terms = {} THEN {} ELSE {CHOOSE w \in text \cap terms : TRUE}

HitTerms(text, terms) == text \cap terms

Frequency(texts, term) == Larger(1, Cardinality({i \in DOMAIN texts : term \in texts[i]}))

Product(f, S) == FoldFunctionOnSet(LAMBDA x, y : x * y, 1, f, S)

Score(texts, terms, i) ==
  [over |-> Product([w \in terms |-> Len(texts) + Frequency(texts, w)], HitTerms(texts[i], terms)),
   under |-> Product([w \in terms |-> Frequency(texts, w)], HitTerms(texts[i], terms))]

\* The higher score first, equal scores as they came.
Before(score, i, j) ==
  \/ score[i].over * score[j].under > score[j].over * score[i].under
  \/ score[i].over * score[j].under = score[j].over * score[i].under /\ i < j

\* rank_by_idf; texts that hit nothing score log 1 and come last.
Rank(texts, terms) ==
  LET score == [i \in DOMAIN texts |-> Score(texts, terms, i)]
  IN CHOOSE order \in SetToSeqs(DOMAIN texts) :
       \A a, b \in DOMAIN order : a < b => Before(score, order[a], order[b])
=============================================================================
