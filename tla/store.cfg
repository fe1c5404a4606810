\* One agent, one file, every operation that moves the shared line, crashes and
\* sandbox edits in the middle of an operation, under the fairness of a running
\* operation.
CONSTANTS
  Agents = {a1}
  Paths = {p1}
  Contents = {c1, c2}
  NoFile = NoFile
  User = User
  Outside = Outside
  External = FALSE
  Requests = {"pull", "commit", "resolve", "restore", "point", "discard", "gc", "restore_lost"}
  EditsMidOp = TRUE
  MaxId = 2
  MaxLine = 0
  MaxFaults = 1
SPECIFICATION FairSpec
INVARIANTS TypeOK ObjectsPresent ReplayCanComplete SharedIsHead
PROPERTIES ImplementsSharedLine PendingSettles
