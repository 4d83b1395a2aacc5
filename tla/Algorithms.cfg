SPECIFICATION Spec
CONSTANTS
  MaxText = 6
  MaxToken = 2
  Units <- MCUnits
  Scales <- MCScales
  Homophone <- MCHomophone
  One = 200
  Figures = {0, 1, 4000}
  Expected = 50
  Tolerance = 1
  CommonErrors <- MCErrors
  MaxWords = 4
  MaxZeros = 5
  NDims = 3
  Budget = 4
  TurnLengths = {2, 5}
  HintCosts = {5, 10, 15}
  Rubrics <- MCRubrics
  Scores <- MCScores
  MaxTurns = 3
  MaxHints = 3
  Drills <- MCDrills
  Typed <- MCTyped
  MaxDrills = 2
  MaxAnswers = 3
  MaxSprints = 2
  CaseTopic <- MCCaseTopic
  Teaches <- MCTeaches
  Modes = {"standard", "cold"}
  Dimensions <- MCDimensions
  Given = {1, 4}
  Bar = 3
  MaxRows = 2
  Paths <- MCPaths
  Folder <- MCFolder
  Ids <- MCIds
  Refs <- MCRefs
  MaxFiles = 3
INVARIANTS TypeOK SpeechIsFaithful NumbersAgree CardIsFair SummaryCountsItems AdviceHolds LibraryIsSound
PROPERTIES ProgressOnlyGrows UnloadedByNamesake
CHECK_DEADLOCK FALSE
