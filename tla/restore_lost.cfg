SPECIFICATION Spec
CONSTANTS
  MaxRows = 5
  MaxReplies = 3
  MaxMarks = 2
  MaxCommits = 1
  MaxTools = 1
  Scenarios = {{"archive"}}
PROPERTIES
  RestoreExact
CHECK_DEADLOCK FALSE
