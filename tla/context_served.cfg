SPECIFICATION FairSpec
CONSTANTS
  Workers = {w1, w2}
  Sections = {s1}
  MaxWrites = 1
  MaxFailures = 1
  Ops = {"store", "retract", "get", "refresh", "beat"}
  Expiring = {"cache"}
  None = None
PROPERTY FlagIsServed
