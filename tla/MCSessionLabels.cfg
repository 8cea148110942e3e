SPECIFICATION FairLabelerSpec
CONSTANTS
  Keys = {k1, k2}
  Views <- RequestsAndClaims
  MaxSessions = 1
  MaxExchanges = 3
  MaxTroubles = 1
CHECK_DEADLOCK FALSE
INVARIANTS VerdictsAreRight CountsCarryOn QuietIsClosed
PROPERTIES LabellingEnds
