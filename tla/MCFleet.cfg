SPECIFICATION Spec
CONSTANTS
  d1 = d1
  d2 = d2
  r1 = r1
  r2 = r2
  NoEntity = NoEntity
  Drones <- TwoDrones
  Robots <- MCRobots
  Name <- SameName
  Mentions <- PlainNames
  Search <- MCSearch
  MaxLen = 3
  Detour = 1
  Celebration = 1
INVARIANTS
  TypeOK
  CarriedRobotIsSafe
  BookingFindsRobot
PROPERTIES
  DestinationFixedInFlight
  ServesTrips
