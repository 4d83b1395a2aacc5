SPECIFICATION Spec
CONSTANTS
  NPhases = 2
  Mode = "guided"
  Coached = {0, 1}
  Timed = {1}
  ex0 = ex0
  ex1 = ex1
  exAsk = exAsk
  Exhibits = {ex0, ex1, exAsk}
  OpensAt <- MCOpensAt
  Requests = {r1, r2, r3, r4, r5}
  Sequential = TRUE
  MaxInFlight = 1
  Dims <- MCDims
  HintCost = 1
  ShowScores = TRUE
INVARIANTS ScoredByTheLast TranscriptStored RevealIsEarned PhasesInOrder
PROPERTIES EndIsFinal ImplementsProtocol
