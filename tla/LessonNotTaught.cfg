SPECIFICATION Spec
CONSTANTS
  Threads = {t1}
  MaxTurns = 0
  NSections = 1
  NQuiz = 1
INVARIANTS CompleteIsTaught
