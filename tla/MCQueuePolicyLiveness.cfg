SPECIFICATION FairSpec
CONSTANTS
  a = a
  b = b
  Client = Client
  Tick = Tick
  Queues <- TwoQueues
  Ttl <- AtOnceOrLater
  Prioritised = {b}
  Dlx <- Cycle
  MAX_DLX_HOPS = 1
  Expirations <- ZeroTtl
  Priorities = {0, 1}
  Plans <- PutBack
  MaxNow = 1
PROPERTIES
  HandlersEnd
  HeadExpires
