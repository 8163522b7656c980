CONSTANTS
  Types = {"direct", "fanout", "topic", "headers"}
  Queues = {"q1", "q2"}
  Patterns <- FewPatterns
  Keys <- FewKeys
  TopicPatterns <- ShortPatterns
  TopicKeys <- ShortKeys
  Headers = {"h"}
  Matches = {"all", "any"}
  MaxBindings = 3
  Base = 4
  MaxDepth = 2
  FieldValues <- MCFieldValues
  PropertySets <- MCPropertySets
  Objects <- MCObjects
SPECIFICATION MCSpec
INVARIANTS
  TopicCorrect
  RouteOnce
  RoundTrip
  CutShortThrows
  HeadersReceived
