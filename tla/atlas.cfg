SPECIFICATION AtlasSpec
CONSTANTS
  Nodes = {n1, n2}
  Hourly = hourly
  Nightly = nightly
  Galaxy = galaxy
  Requests = {r1, r2}
  Born = {n1}
  Menus <- AllMenus
  Members = {1, 2, 3, 4, 5}
  Home <- HomeOf
  Runs = {c1, c2}
  TopK = 2
  Chunk = 2
  MinMembers = 2
  Page = 2
  Worlds <- AllWorlds
  Grains = {1, 2, 3, 4, 5}
  Keys = {1, 2}
  Seaters = {s1, s2}
  TopSeated = 1
  Skies <- AllSkies
  Views = {"map", "clusters", "seats"}
INVARIANTS
  StaleHasCause
  LayoutAlone
  KinSitTogether
PROPERTIES
  NightPlaces
  SteadyTogether
  LeftoverHasCause
  CampaignExact
  HaloIsLonely
  CampaignEnds
CHECK_DEADLOCK FALSE
