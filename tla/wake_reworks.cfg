CONSTANTS
  a = a
  b = b
  Agents = {a, b}
  Scenarios <- WithSpeech
  MaxCalls = 2
  MaxThreads = 1
  MaxInputs = 1
SPECIFICATION Spec
PROPERTY ReworkIsTheUsers
CHECK_DEADLOCK FALSE
