SPECIFICATION Spec
CONSTANTS
  Workers = {w1, w2}
  Sections = {s1, s2}
  MaxWrites = 1
  MaxFailures = 1
  Ops = {"store", "retract", "forget", "get", "refresh", "beat"}
  Expiring = {"cache", "flag"}
  None = None
INVARIANTS
  RefreshIsFresh
  HonestAnswer
  LagIsFlagged
SYMMETRY Symmetry
