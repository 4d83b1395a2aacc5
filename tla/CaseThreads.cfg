SPECIFICATION FairSpec
CONSTANTS
  NPhases = 2
  Mode = "guided"
  Coached = {0}
  Timed = {1}
  ex0 = ex0
  ex1 = ex1
  exAsk = exAsk
  Exhibits = {}
  OpensAt <- MCOpensAt
  Requests = {r1, r2, r3}
  Sequential = FALSE
  MaxInFlight = 2
  Dims <- MCDims
  HintCost = 1
  ShowScores = TRUE
INVARIANTS ConversationKept ScoringSound
PROPERTIES EveryRequestAnswered
