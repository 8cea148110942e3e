SPECIFICATION Spec
CONSTANTS
  Commands = {c1, c2, c3}
  Repos = {a, b}
  Nothing = Nothing
SYMMETRY Symmetric
CHECK_DEADLOCK FALSE
INVARIANTS OneIdentity StackIsReachable LinksKept
