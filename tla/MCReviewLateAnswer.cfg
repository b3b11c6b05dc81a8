SPECIFICATION Spec
CONSTANTS
  Commands = {"k1", "k2", "k3", "k4"}
  Threads = {t1, t2}
  Materials = {"parsed", "failed"}
  Parsed = {"parsed"}
  Menu <- Mixed
SYMMETRY Symmetry
INVARIANTS
  NoAnswerAfterVerdict
