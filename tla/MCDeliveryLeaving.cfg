CONSTANTS
  k1 = k1  k2 = k2  h1 = h1  h2 = h2  c1 = c1  c2 = c2  t1 = t1  t2 = t2
  Tick = Tick  None = None
  Conns = {k1, k2}
  Channels = {h1, h2}
  ConnOf <- MCConnOf
  Consumers = {c1, c2}
  ChanOf <- MCChanOf
  Tags = {t1, t2}
  TagOf <- MCTagOf
  MaxMessages = 2
  QosValues = {1}
  ConsumeFlags <- ManualAck
  Requests <- Leaving
  UintMod = 4
  RRMod = 2
SPECIFICATION FairSpec
INVARIANTS
  SubscriptionsAgree
PROPERTIES
  EventuallySettled ClosedChannelRequeues
