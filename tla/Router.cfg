SPECIFICATION FairSpec
CONSTANTS
  NProviders = 4
  Keyless = {1, 3, 4}
  Offline = TRUE
  MaxRetries = 1
  Turns = {t1, t2}
INVARIANTS CallsBounded ChainHonoured AuthSurfacedOnce
PROPERTIES ImplementsTurnService TurnEnds
