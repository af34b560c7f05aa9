\* One client, two web processes, broken connections, a failed read.
CONSTANTS
  Procs = {p1, p2}
  Clients = {c1}
  Levels = {1, 2, 3}
  None = None
  Default <- Defaults
  Env <- AllButVerdict
  Puts <- Moves
  Profiles <- Tuned
  Ops = {"set", "reset", "apply", "resetAll"}
  Cuts = {p2}
  MaxWrites = 2
  MaxFailures = 1
  MaxBacklog = 1
SPECIFICATION FairSpec
INVARIANT WriterSeesOwnWrite
PROPERTIES NeverGoesBack CatchesUp
CHECK_DEADLOCK FALSE
