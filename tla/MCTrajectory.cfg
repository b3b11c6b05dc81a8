SPECIFICATION Spec
CONSTANTS
  Claims = {1, 2}
  Materials = {11, 12}
  t1 = t1
  t2 = t2
  Threads = {t1, t2}
  OldLog <- Grilled
  Judged = {"refuted", "contradicts"}
  Ops <- Sides
  Limit <- Limits
  Decided = {3, 5}
  Named = {99}
  MaxTime = 6
  MaxEvents = 8
CHECK_DEADLOCK FALSE
INVARIANTS
  CausesComeFirst
  ReportedContradictionIsChallenged
PROPERTIES
  VersionsReplayDoc
