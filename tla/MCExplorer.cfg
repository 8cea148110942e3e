SPECIFICATION ExplorerSpec
CONSTANTS
  t1 = t1
  t2 = t2
  t3 = t3
  Traces = {t1, t2, t3}
  Inventories <- Listings
  Filters <- Texts
  NoTrace = NoTrace
  MaxStarted = 4
CHECK_DEADLOCK FALSE
INVARIANTS ShownUnderItsHeading ReviewedOrDoubled
PROPERTIES KeyboardReturns
