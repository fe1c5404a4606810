\* A discussion whose rows are handed out by two counts.
CONSTANTS
  Cases = {"circle"}
  SharedPaths <- FewPaths
  ToolNames = {"shell", "other", "file"}
  Team = {"s1"}
  TreeLayers <- OnTheTree
  OwnLayers <- OnMyOwn
  Quick = {"proxy", "work"}
  Switches <- NarrowAndWide
  Places = {"p", "q"}
  Texts = {"x", "y", "blank"}
  Blanks = {"blank"}
  Unclears = {}
  Longs = {"y"}
  Disks <- OneOrTwo
  ToolCalls <- OneOfEach
  MaxBatch = 2
  MaxMeddling = 1
  Gate = TRUE
  Children = {"k1", "k2"}
  Talks = {"k2"}
  Wishes = {"r1"}
  ProxyCalls = 2
  UserActs = 2
  Falls = 1
  Chairs = 2
  Laps = 2
  Patience = 1
  Mishaps = 1
  Keep = Keep
  None = None
SPECIFICATION Spec
INVARIANTS RowsOnce
CHECK_DEADLOCK FALSE
