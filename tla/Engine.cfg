\* Two worker threads, requests that overlap or wait, one restart.
CONSTANTS
  t1 = t1
  t2 = t2
  Threads = {t1, t2}
  NDims = 2
  MaxRequests = 4
  MaxStatements = 6
  MaxCrashes = 1
SPECIFICATION Spec
SYMMETRY Symmetry
INVARIANTS TypeOK NothingLeftOpen SprintGradedOnce SafeIfSequential
\* Users may stop sending requests.
CHECK_DEADLOCK FALSE
