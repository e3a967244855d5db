SPECIFICATION Spec
CONSTANTS
  e1 = e1
  s1 = s1
  t1 = t1
  NoId = NoId
  Entities <- MCEntities
  Models <- SnowAndTornado
  WeatherTypes <- MCWeatherTypes
  Moving <- MCMoving
  TypeOf <- OneEach
  MaxInbox = 2
INVARIANT SkyMatchesCheckbox
