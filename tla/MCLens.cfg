SPECIFICATION LensSpec
CONSTANTS
  t1 = t1
  t2 = t2
  Claims = {1, 2, 3}
  Materials = {11, 12}
  Threads = {t1, t2}
  OldLog <- Library
  Ops <- Sides
  Judged = {"survive", "builds_on", "silent"}
  Decided = {8, 13}
  Limit <- Limits
  Named = {10, 99}
  MaxTime = 13
  MaxEvents = 15
  Terms <- Words
  TopK = 2
  PrecedentBudget = 1
CHECK_DEADLOCK FALSE
INVARIANTS
  OnlySignedIsNamed
PROPERTIES
  OnlyRetractionTakesBack
