SPECIFICATION Spec
CONSTANTS
  Commands = {"k1", "k2", "k3", "k4", "k5"}
  Threads = {t1, t2}
  Menu <- RivalMenu
SYMMETRY Symmetry
INVARIANTS
  PositionsFollowTransitions
  RephrasingsChain
  DetachedIsFinal
  NoOrphanDirection
  CrystalIsGrounded
