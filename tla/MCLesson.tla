------------------------------ MODULE MCLesson ------------------------------
(* LessonSession for TLC: no definition tells the threads apart.            *)
EXTENDS LessonSession, TLC

ThreadSymmetry == Permutations(Threads)
=============================================================================
