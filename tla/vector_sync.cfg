SPECIFICATION Spec
CONSTANTS
  MaxId = 2
  Hashes = {h1, h2}
  None = None
  Workers = {w1, w2}
  Ops = {"store", "version", "link", "retract", "forget", "delete", "gc"}
  Threshold = 1
  MaxFaults = 1
  Crashes = TRUE
SYMMETRY Symmetry
INVARIANTS
  LiveNeverHidden
  MissingHasCause
