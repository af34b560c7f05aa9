SPECIFICATION Spec
CONSTANTS
  Granules = {1, 2, 3}
  Near <- NearPairs
  Grey <- GreyPairs
  Similar <- SimilarPairs
  NsOf <- OneNamespace
  CrossAllowed = {}
  Replies <- TwoReplies
  Workers = {"w1"}
  TopK = 2
  Batch = 2
  MaxAttempts = 2
  Cap = 1
  Rows = 1
  Menus <- AllMenus
INVARIANT PairsAccounted
PROPERTIES
  SettledByHand
  QueueDrains
  SessionsSettle
CHECK_DEADLOCK FALSE
