SPECIFICATION Spec
CONSTANTS
  Apps = {"app"}
  Importers = {"import1", "import2"}
  Keys = {1, 2, 3, 4}
  Active = {2, 3}
  Rows <- Docs
  Extras <- Parsed
  ByHand <- Typed
  MaxStarts = 3
  MaxByHand = 1
INVARIANTS
  SoleLibrary
  SettledBoots
  ImportedOnce
  FilesFollowCorpus
  CleanRunIsComplete
CHECK_DEADLOCK FALSE
