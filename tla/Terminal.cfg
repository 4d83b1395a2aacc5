SPECIFICATION Spec
CONSTANTS
  NPhases = 3
  Mode = "guided"
  Coached = {0, 2}
  Timed = {0, 1}
  data = data
  map = map
  Exhibits = {data, map}
  OpensAt <- MCOpensAt
  Requests = {1, 2, 3}
  MaxLines = 3
  NSections = 2
  NQuiz = 3
  NDims = 3
  NDrills = 2
INVARIANTS StoredAsSaid OutcomeIsSound
PROPERTIES ImplementsProtocol
