SPECIFICATION FairSpec
CONSTANTS
  Starts = {s1, s2}
  Stops = {c1}
  None = None
  MaxCrashes = 1
CHECK_DEADLOCK FALSE
INVARIANTS AtMostOneDaemon ServingIsLocatable FailedIsGone
PROPERTIES StopReports CommandsEnd
