SPECIFICATION LaunchSpec
CONSTANTS
  i1 = i1
  i2 = i2
  i3 = i3
  r1 = r1
  r2 = r2
  r3 = r3
  Issuers = {i1, i2, i3}
  RouteIds = {r1, r2, r3}
  NoToken = NoToken
  RouteOf <- OwnRoutes
  Reveals = {i3}
  Ttl = 1
  MaxTime = 2
  MaxStops = 1
CHECK_DEADLOCK FALSE
INVARIANTS MapsAgree RouteEndsWithRun ChildIsRouted
