\* Each part of a session's life in turn: every chain of up to three nodes, two
\* threads that ask, three requests about the machine of one tree, three
\* conversations on two, three requests about one service, two calls over
\* a channel that is late twice, two calls of a model with two endpoints.
CONSTANTS
  none = none
  Labels = {x, y, z}
  Workers = {a, b}
  Present = {a}
  Largest = 3
  Threads = {"t1", "t2"}
  Cards = 2
  Callers = {"t1", "t2", "t3"}
  Homes = {"a", "b"}
  Machines = 3
  Provided = {"s1"}
  Tenants = {"l1", "l2"}
  Processes = 2
  Delays = 2
  Calls = 2
  Offers <- TwoEndpoints
  Letters = {"a", "b"}
  Sayings <- OneOrBoth
  Length = 3
  Enough = 2
SPECIFICATION Spec
INVARIANTS TypesHold ChainIsSound OutcomeIsTheUsers NothingIsLost RightAnswer
PROPERTIES CardsAreNew NobodyHangs
CHECK_DEADLOCK FALSE
