SPECIFICATION FairSpec
CONSTANTS
  e1 = e1
  s1 = s1
  t1 = t1
  NoId = NoId
  Entities <- MCEntities
  Models <- Tornado
  WeatherTypes <- MCWeatherTypes
  Moving <- MCMoving
  TypeOf <- OneTornado
  MaxInbox = 4
INVARIANTS
  TypeOK
  ViewFollowsServer
  CameraHasTarget
  SkyIsShown
  ThrowsOnlyIfEarly
PROPERTIES
  EventuallyDisplayed
