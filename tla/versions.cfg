SPECIFICATION Spec
CONSTANTS
  MaxId = 3
  Hashes = {h1, h2}
  Users = {u1}
  None = None
  Clients = {c1, c2}
  Ops = {"store", "version", "retract", "freeze", "delete", "gc"}
  DedupSettings = {"on"}
  PurgeAllowed = TRUE
SYMMETRY Symmetry
INVARIANT VersionLinksAgree
PROPERTY PurgeIsSafe
