CONSTANTS
  a = a
  b = b
  Agents = {a, b}
  Scenarios <- EveryScenario
  MaxCalls = 2
  MaxThreads = 1
  MaxInputs = 2
SPECIFICATION Spec
INVARIANTS
  TypeOK
  VerdictIsCurrent
  OneNodePerAgent
  StopReachesMain
  StoppedAsksNothing
PROPERTIES
  DispatchInOrder
  CompletionIsReviewed
CHECK_DEADLOCK FALSE
