SPECIFICATION FairSpec
CHECK_DEADLOCK FALSE
CONSTANTS
  Plans <- MCPlans
  MaxChannels = 2
  MaxCalls = 4
  MaxBody = 2
  None = None
INVARIANTS
  RepliesMatch
  DeliveriesReachCallback
  ConnectionSurvives
  ConfirmsCount
PROPERTIES
  CallsSettle
