SPECIFICATION Spec
CONSTANTS
  Commands = {"k1", "k2", "k3", "k4"}
  Threads = {t1, t2}
  Workspaces = {"w1", "w2"}
  Locators = {"a", "b"}
  Menu <- Uses
SYMMETRY Symmetry
INVARIANTS
  CapturesReplay
