SPECIFICATION FairSpec
CONSTANTS
  BUF = 2
  FrameLimits = {0, 1, 2}
  Stretching = {TRUE, FALSE}
  MaxSamples = 8
  MaxMenus = 1
  MaxGames = 2
INVARIANTS InOrder NoSampleLost
PROPERTIES Unparks
