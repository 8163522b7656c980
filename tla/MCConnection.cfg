SPECIFICATION FairSpec
CHECK_DEADLOCK FALSE
CONSTANTS
  Behaviours <- Some
  Strand = Strand
  Stopper = Stopper
  None = None
INVARIANTS
  FramesInOrder
  OneWriter
PROPERTIES
  SilentIsClosed
