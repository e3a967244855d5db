SPECIFICATION Spec
CONSTANTS
  d1 = d1
  d2 = d2
  r1 = r1
  r2 = r2
  NoEntity = NoEntity
  Drones <- OneDrone
  Robots <- MCRobots
  Name <- DifferentNames
  Mentions <- PlainNames
  Search <- MCSearch
  MaxLen = 9
  Detour = 1
  Celebration = 1
INVARIANT UserPathFollowed
