CONSTANTS
  k1 = k1  k2 = k2  h1 = h1  h2 = h2  c1 = c1  c2 = c2  t1 = t1  t2 = t2
  Tick = Tick  None = None
  Conns = {k1}
  Channels = {h1, h2}
  ConnOf <- MCOneConnOf
  Consumers = {c1, c2}
  ChanOf <- MCOneChanOf
  Tags = {t1}
  TagOf <- MCSharedTag
  MaxMessages = 2
  QosValues = {1}
  ConsumeFlags <- EitherFlag
  Requests <- OneStrand
  UintMod = 4
  RRMod = 2
SPECIFICATION Spec
INVARIANTS
  TypeOK GoneLeaveNone
PROPERTIES
  ImplementsLine
