SPECIFICATION Spec
CONSTANTS
  MaxId = 2
  Hashes = {h1, h2}
  Users = {u1, u2}
  None = None
  Clients = {c1, c2}
  Ops = {"store", "version", "link", "retract", "forget"}
  DedupSettings = {"on", "off"}
  PurgeAllowed = FALSE
SYMMETRY Symmetry
INVARIANT OneActivePerHash
PROPERTY ImplementsLedger
