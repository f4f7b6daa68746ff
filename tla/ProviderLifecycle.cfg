SPECIFICATION Spec
CONSTANTS
  p1 = p1
  p2 = p2
  Providers = {p1, p2}
  Requests = {r1, r2}
  Checker = hc
  FailureThreshold = 1
  Cooldown = 1
  MaxTime = 2
  MaxFailures = 0
  Listings <- MCListings
  MaxListings = 1
  MaxDrains = 1
INVARIANTS LifecycleTypeOK DrainedClean
PROPERTIES NeverEmptied FollowsListing
CHECK_DEADLOCK FALSE
