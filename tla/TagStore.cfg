SPECIFICATION Spec
CONSTANTS
  DEFAULT_TAGS_TO_RESERVE = 3
  GROWTH_FACTOR = 2
  ArrivalSide = "max"
  RequiredSide = "min"
  CounterLimit = 5
  SizeLimit = 64
  NodeTags <- SomeNodeTags
  SlackTags <- SomeSlackTags
  CaptureDomains <- TwoCaptures
  RequiredTimes = {4}
  MaxTags = 8
INVARIANTS
  SegmentsHoldTypes
PROPERTIES
  VisitorSeesContainer
  EveryArrivalRequired
