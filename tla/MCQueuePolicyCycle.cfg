SPECIFICATION Spec
CONSTANTS
  a = a
  b = b
  Client = Client
  Tick = Tick
  Queues <- TwoQueues
  Ttl <- OneExpires
  Prioritised = {b}
  Dlx <- Cycle
  MAX_DLX_HOPS = 1
  Expirations <- ZeroTtl
  Priorities = {0, 1}
  Plans <- ThreePlans
  MaxNow = 1
INVARIANTS
  OnePlace
  NoEarlyExpiry
  NoLateDelivery
  PriorityOrder
