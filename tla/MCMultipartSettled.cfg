SPECIFICATION FairSpec
CONSTANTS
  LastPart = 3
  Calls = 1
  Aborters = {}
PROPERTIES InterruptedIsSettled
