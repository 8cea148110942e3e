SPECIFICATION Spec
CONSTANTS
  MaxStarts = 2
  RestartWindow = 0
  MaxTime = 1
  MaxConfigures = 3
  MaxFaults = 1
  Nothing = Nothing
CHECK_DEADLOCK FALSE
INVARIANTS DaemonSupervised ShownIsWanted ConfigurationApplies
PROPERTIES WrappingKeyKept
