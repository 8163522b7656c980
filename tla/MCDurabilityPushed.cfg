SPECIFICATION Spec
CONSTANTS
  Queues = {"q1"}
  Exchanges = {}
  Publishers = {"p1"}
  MaxMessages = 1
  Oversized = {}
  Plans <- Pushed
INVARIANTS
  AcksPersist
