SPECIFICATION Spec
CONSTANTS
  p1 = p1
  p2 = p2
  Providers = {p1, p2}
  Requests = {r1}
  Checker = hc
  FailureThreshold = 1
  Cooldown = 1
  MaxTime = 1
  MaxFailures = 0
  Listings <- MCListings
  MaxListings = 0
  MaxDrains = 1
PROPERTIES StatusPreserved
CHECK_DEADLOCK FALSE
