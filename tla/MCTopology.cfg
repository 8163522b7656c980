SPECIFICATION Spec
CHECK_DEADLOCK FALSE
CONSTANTS
  c1 = c1  c2 = c2
  Conns = {c1, c2}
  Names = {m, n}
  Exchanges = {x}
  Default = Default
  None = None
  Kinds = {"plain", "exclusive", "auto"}
  Operations <- UserAndAdmin
  MaxObjects = 3
INVARIANTS
  ConsumersSubscribed
  ExclusiveOwned
  BindingsKeepQueue
PROPERTIES
  CleanupRemovesOwn
