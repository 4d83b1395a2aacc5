--------------------------- MODULE MCGuessSession ---------------------------
(* GuessSession for TLC: no definition tells the threads apart.             *)
EXTENDS GuessSession, TLC

ThreadSymmetry == Permutations(Threads)
=============================================================================
