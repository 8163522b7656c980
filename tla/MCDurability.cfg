SPECIFICATION Spec
CONSTANTS
  Queues = {"q1", "q2"}
  Exchanges = {"x1"}
  Publishers = {"p1", "p2"}
  MaxMessages = 2
  Oversized = {}
  Plans <- UseAndDeclare
INVARIANTS
  NothingOwedLost
  SettledStaysSettled
  TopologyRecovered
  ReplayCorrect
