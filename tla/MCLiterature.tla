----------------------------- MODULE MCLiterature -----------------------------
(***************************************************************************)
(* A small instance of Literature: three sources with papers that share    *)
(* DOIs, one of them an arXiv preprint the corpus may hold.                *)
(***************************************************************************)
EXTENDS Literature

Paper(source, sid, doi, title, abstract, citations, urls) ==
  [source |-> source, sid |-> sid, doi |-> doi, title |-> title, abstract |-> abstract,
   citations |-> citations, urls |-> urls]

Preprint == Paper("arxiv", 1, NoDoi, 1, 2, 0, <<1>>)
SamePreprint == Paper("openalex", 5, <<"arxiv", 1>>, 1, 1, 3, <<1, 2>>)
NoDoiPaper == Paper("openalex", 6, NoDoi, 2, 1, 1, <<>>)
Untitled == Paper("arxiv", 2, NoDoi, 0, 1, 0, <<5>>)
Article == Paper("crossref", 7, <<"doi", 8>>, 3, 0, 5, <<3>>)
SameArticle == Paper("openalex", 9, <<"doi", 8>>, 3, 1, 2, <<4>>)

SourceOrder == <<"arxiv", "crossref", "openalex">>
MayAnswer ==
  [s \in {"arxiv", "crossref", "openalex"} |->
     CASE s = "arxiv" -> {<<Preprint>>, <<Preprint, Untitled>>}
       [] s = "crossref" -> {<<Article>>}
       [] s = "openalex" -> {<<SamePreprint, NoDoiPaper>>, <<SameArticle, SamePreprint>>}]

\* The article of the corpus, by its URL.
Links == {Locator("doi", 8, "url")}

Terms == {"robots", "grip", "soft"}
Material(locator, words) == [locator |-> locator, words |-> words]
Corpus ==
  {Material(Locator("other", 1, "lower"), {"robots"}),
   Material(Locator("arxiv", 1, "lower"), {"robots", "grip"}),
   Material(Locator("doi", 8, "upper"), {"soft", "grip"})}
=============================================================================
