SPECIFICATION GuessSpec
CONSTANTS
  Threads = {t1, t2}
  MaxTurns = 2
  NSegments = 2
SYMMETRY ThreadSymmetry
INVARIANTS EstimationNotSkipped ConversationStored TreeWalkedInOrder
