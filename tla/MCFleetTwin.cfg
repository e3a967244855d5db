SPECIFICATION Spec
CONSTANTS
  d1 = d1
  d2 = d2
  r1 = r1
  r2 = r2
  NoEntity = NoEntity
  Drones <- OneDrone
  Robots <- MCRobots
  Name <- SameName
  Mentions <- PlainNames
  Search <- MCSearch
  MaxLen = 2
  Detour = 1
  Celebration = 1
INVARIANT ConfirmedTripIsBooked
