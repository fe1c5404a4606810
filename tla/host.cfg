\* Each component of the host in turn: one download, pinned and not, with crashes;
\* three dependencies ensured by three runners; the chain of a guest image broken
\* off anywhere; two builders, or one that dies, on one volume; three items of storage.
CONSTANTS
  tc = tc
  rootfs = rootfs
  runtime = runtime
  up = up
  mirror = mirror
  None = None
  Blank = Blank
  Bad = Bad
  r1 = r1
  b1 = b1
  Builders = {b1, b2}
  Roots = {r1}
  PairEdits = 0
  LoneEdits = 2
  MaxLocks = 3
  Procs = {"p1", "p2"}
  Leases = {"s1", "c1"}
  Calls = {"c1"}
  Paths = {"x1", "x2"}
  Fewer = {"x1"}
  Single = {"s1"}
  Inside = {"x1"}
  Baseline = "base"
  Common = {"x1"}
  Pids = {"n1", "n2"}
  MaxSerial = 3
  Stored = 3
  Kinds <- ThreeKinds
  Sweepers = {"auto", "user"}
  Limits = {2, 4}
  KeptLogs = 1
  Sources = {up, mirror}
  Chunks = 3
  MaxEditions = 2
  MaxRuns = 3
  Providers = {"p"}
  Models = {"m1", "m2"}
  Agents = {"a"}
  Urls = {"u1", "u2"}
  Capable = {"u2"}
  Levels = {"l1", "l2"}
  Drafts <- TwoDrafts
  Edits <- ThreeEdits
  Picks <- OneList
  Known = {"x"}
  OpenWorks <- ThreeWorks
  Clients = {"c1"}
  MaxWrites = 2
  Packs <- SixFolders
  Wishes <- TwoWishes
  Fixes <- ThreeFixes
  Offers <- ThreeOffers
  Brought <- TwoImages
  Basics = {"py"}
SPECIFICATION Spec
INVARIANTS TypesHold KeptWhole FencesHold
PROPERTIES JobsEnd BuildsAreSound CollectsWithCare LeftoversReclaimed
CHECK_DEADLOCK FALSE
