SPECIFICATION FairSpec
CONSTANTS
  Sources <- SourceOrder
  Answers <- MayAnswer
  Materials <- Corpus
  Brought <- Links
  Words <- Terms
  HitLimit = 2
  MaxPicks = 2
  MaxResults = 2
  MaxCites = 2
  MaxCorpus = 3
INVARIANTS
  VerbatimPickIsKept
