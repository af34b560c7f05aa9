SPECIFICATION Spec
CONSTANTS
  MaxId = 2
  Hashes = {h1, h2}
  Users = {u1}
  None = None
  Clients = {c1, c2}
  Ops = {"store", "link"}
  DedupSettings = {"on"}
  PurgeAllowed = FALSE
SYMMETRY Symmetry
INVARIANT HistoryTerminates
