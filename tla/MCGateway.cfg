SPECIFICATION FairSpec
CONSTANTS
  q1 = q1
  q2 = q2
  t1 = t1
  Direct = Direct
  Requests = {q1, q2}
  Tunnels = {t1}
  Via <- OneEach
  MaxControl = 3
CHECK_DEADLOCK FALSE
INVARIANTS ControlAgrees DrainedBeforeClose
PROPERTIES ShutdownCompletes
