\* Two requests that overlap share the connection.
CONSTANTS
  t1 = t1
  t2 = t2
  Threads = {t1, t2}
  NDims = 2
  MaxRequests = 3
  MaxStatements = 6
  MaxCrashes = 1
SPECIFICATION Spec
SYMMETRY Symmetry
INVARIANTS OwnRows
\* Users may stop sending requests.
CHECK_DEADLOCK FALSE
