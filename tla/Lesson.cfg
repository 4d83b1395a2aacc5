SPECIFICATION Spec
CONSTANTS
  Threads = {t1, t2}
  MaxTurns = 2
  NSections = 2
  NQuiz = 3
SYMMETRY ThreadSymmetry
INVARIANTS CompletionIsWhole GradedInTurn
