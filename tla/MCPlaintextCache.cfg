SPECIFICATION FairCacheSpec
CONSTANTS
  Traces = {t1, t2}
  Readers = {r1}
  Sweeps = {w1}
  Clears = {w1}
  None = None
  Bytes <- OneByteEach
  MaxBytes = 1
  MaxAge = 0
  MaxTime = 1
  MaxTroubles = 2
INVARIANTS ReadsAreGenuine PassesEnforce
PROPERTIES NothingLingers
