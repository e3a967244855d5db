SPECIFICATION FairSpec
CONSTANTS
  Celebration = 3
  MaxLen = 16
  Paces <- MCPaces
INVARIANTS
  TypeOK
  CompletedMeansAllDone
  CelebratesInsideOut
PROPERTIES
  OneThingAtATime
  EventuallyCompleted
