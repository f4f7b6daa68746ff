SPECIFICATION FocusSpec
CONSTANTS
  Providers = {p1}
  Requests = {r1, r2}
  Checker = hc
  FailureThreshold = 2
  Cooldown = 1
  MaxTime = 6
  MaxBreakerTime = 3
  MaxFailures = 2
  Placements = {pl}
  Sellers = {s1, s2}
  ProviderTTLs <- TTLs
  Absent = Absent
  DefaultTTL = 2
  MaxTTL = 1
  MaxEntries = 1
  Timeout = 1
  LastChange = 2
  None = None
SYMMETRY Symmetry
INVARIANTS TypeOK MatchTypeOK TripNotMissed OneProbe StaleBounded OwnAnswers
PROPERTIES CooldownHonoured OpensOnStreak
