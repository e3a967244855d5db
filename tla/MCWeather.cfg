SPECIFICATION FairSpec
CONSTANTS
  d = d
  r = r
  h = h
  s = s
  NoEntity = NoEntity
  Entities <- MCEntities
  Kind <- MCKind
  Natural <- MCNatural
  Duration = 2
  Warning = 1
  Steps = {1, 2}
INVARIANTS
  TypeOK
  SpeedsDontPileUp
  HiddenOnlyBySevereWeather
  SkyMatchesForecast
  AnnouncedOnce
PROPERTIES
  HurricaneHidesEveryone
  FeedsPages
  HiddenComesBack
