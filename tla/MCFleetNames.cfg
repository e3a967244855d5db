SPECIFICATION FairSpec
CONSTANTS
  d1 = d1
  d2 = d2
  r1 = r1
  r2 = r2
  NoEntity = NoEntity
  Drones <- OneDrone
  Robots <- MCRobots
  Name <- DifferentNames
  Mentions <- OneNameMentions
  Search <- MCSearch
  MaxLen = 9
  Detour = 0
  Celebration = 2
INVARIANTS
  ConfirmedTripIsBooked
  PickupFitsWeather
  TripIsReported
PROPERTIES
  DeliveryFitsWeather
  EveryTripEnds
