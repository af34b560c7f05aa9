CONSTANTS
  Scenes = {"process", "batch", "beat", "registry"}
  Callers = {c1, c2}
  Asked = {"runtimeSync", "memory", "linker", "embedding"}
  MaxAsks = 2
  MaxOutages = 1
  QdrantFaults = TRUE
  Nobody = Nobody
  Tasks = {"t1", "t2"}
  Workers = {w1, w2}
  Chunks = 1
  MaxFaults = 1
  NoTask = NoTask
  Batches <- MenuOfBatches
  Malformed = ""
  Near <- NearPairs
  Jobs = {"nightly", "often"}
  Crontabs = {"nightly"}
  Defaults <- BeatDefaults
  Day = 4
  SyncEvery = 1
  MaxChanges = 2
  MaxCuts = 2
  Slugs = {"a", "b"}
  Spaces = {"u"}
  Folders = {"x", "y"}
  Repos = {"r", "q"}
  Sources = {"f", "g"}
  Processes = {"w1", "w2"}
  Visitors = {"v1", "v2", "v3", "v4"}
  Errands <- MenuOfErrands
  Registers <- MenuOfRegisters
  Nothing = Nothing
  Page = 1
  MaxExpiries = 1
SPECIFICATION FairSpec
INVARIANTS
  OwnWriteSeen
  LostWakeupHasCause
  TaskKept
  BatchIsStored
  ResultsNameTheirRows
  MissedHasCause
PROPERTIES
  BindingKept
  GettersEnd
  CallsEnd
  BeatKeepsGoing
CHECK_DEADLOCK FALSE
