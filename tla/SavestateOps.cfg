SPECIFICATION FairSpec
CONSTANTS
  Hotkeys = TRUE
  Deadlines = TRUE
  MaxRequests = 2
  MaxPauses = 2
  MaxGames = 2
INVARIANTS OwnAnswer FrozenBehindMenu
PROPERTIES DialogAnswered TeardownEnds
