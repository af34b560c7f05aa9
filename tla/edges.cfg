SPECIFICATION HeritageSpec
CONSTANTS
  MaxId = 4
  MaxEdges = 2
  Born = 2
  n1 = n1
  None = None
  Names = {n1}
  NameOf <- EvenNames
  Types = {"related_to"}
  Frozen = {}
  Batch = 2
  Workers = {w1, w2}
  Menus <- AllMenus
  Parts = {"edges", "upkeep"}
  k1 = k1
  h1 = h1
  h2 = h2
  h3 = h3
  Keys = {k1, reason}
  Reason = reason
  NoKey = nokey
  Original = original
  Hands = {h1, h2, h3}
  Top = 2
  MaxRow = 3
  Losses = 1
  Plans <- AllPlans
SYMMETRY Symmetry
INVARIANTS
  LeftBehindHasCause
  LossHasCause
PROPERTY MovesFollowHeirs
CHECK_DEADLOCK FALSE
