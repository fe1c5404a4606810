SPECIFICATION Spec
CONSTANTS
  MaxRows = 5
  MaxReplies = 3
  MaxMarks = 1
  MaxCommits = 0
  MaxTools = 1
  Scenarios = {{"archive", "restart"}}
INVARIANTS
  FreshIds
CHECK_DEADLOCK FALSE
