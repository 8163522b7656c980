SPECIFICATION FairSpec
CONSTANTS
  MaxConnections = 2
INVARIANTS
  ConnectionsTracked
  StatsWhole
PROPERTIES
  StopQuiets
