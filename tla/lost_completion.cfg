CONSTANTS
  a = a
  b = b
  Agents = {a, b}
  Scenarios <- Ordinary
  MaxCalls = 2
  MaxThreads = 1
  MaxInputs = 1
SPECIFICATION Spec
PROPERTY EndMarksTheNode
CHECK_DEADLOCK FALSE
