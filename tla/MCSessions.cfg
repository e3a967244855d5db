SPECIFICATION FairSpec
CONSTANTS
  p1 = p1
  p2 = p2
  Pages <- MCPages
  SimSpeeds <- MCSimSpeeds
  Step = 2
  Threshold = 2
  MaxCommands <- MCMaxCommands
  MaxTime = 1
INVARIANTS
  TypeOK
  CallbacksMatchRequests
  EventsBeforeAnswer
  TimeIsAccountedFor
PROPERTIES
  ServesRequests
  EveryCommandAnswered
CHECK_DEADLOCK FALSE
