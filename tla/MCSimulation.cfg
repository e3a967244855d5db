SPECIFICATION Spec
CONSTANTS
  d = d
  c = c
  r = r
  h = h
  NoEntity = NoEntity
  Drones <- MCDrones
  Robots <- MCRobots
  Others <- MCOthers
  Kind <- MCKind
  Natural <- MCNatural
  Duration = 2
  Warning = 1
  Steps = {1}
  Name <- MCName
  Mentions <- MCMentions
  Search <- MCSearch
  MaxLen = 3
  Detour = 1
  Celebration = 1
INVARIANTS
  TypeOK
  SpeedIsPace
  TripsSurviveTornado
PROPERTIES
  LoopServesFleet
