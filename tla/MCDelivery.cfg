SPECIFICATION FairSpec
CONSTANTS
  Traces = {t1, t2}
  Requested = 2
  Commits = {c1}
  Runs = {r1}
  Passes = {p1, p2}
  Lifetime = 1
  MaxTime = 3
INVARIANTS KeptUntilExpiry TrackedUntilGone CompleteDelivery
PROPERTIES RecordedIsDeleted
