\* An external file is edited while a logged transaction waits for its replay.
CONSTANTS
  Agents = {a1}
  Paths = {p1}
  Contents = {c1, c2}
  NoFile = NoFile
  User = User
  Outside = Outside
  External = TRUE
  Requests = {"sync", "pull", "commit"}
  EditsMidOp = FALSE
  MaxId = 2
  MaxLine = 0
  MaxFaults = 1
SPECIFICATION Spec
PROPERTIES ExternalEditsKept
SYMMETRY Permutes
