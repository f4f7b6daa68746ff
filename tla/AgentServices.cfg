\* The key store, the replay store, the revocation checker and the configuration
\* service of an agent, each on its own.
SPECIFICATION ServicesSpec
CONSTANTS
  Lookups = {l1, l2}
  LastVersion = 2
  PositiveTTL = 1
  NegativeTTL = 1
  ServeStaleGrace = 1
  UnknownKidRefetchCooldown = 1
  FetchTimeout = 1
  MaxConcurrentFetches = 1
  MaxKeyTime = 5
  ChangeTimes = {1}
  NoEntry = NoEntry
  Verifiers = {v1, v2}
  Signatures = {s1, s2}
  Expires = {0}
  Profiles = {"adcp", "wba"}
  Skew = 1
  Ticks = 2
  CapPerKey = 2
  MaxReplayTime = 5
  NoTime = NoTime
  Checks = {c1}
  Key = k1
  Revocable = {{}, {k1}, {k2}}
  Discoverer = d
  Objects = {1, 2}
  Interval = 2
  MinInterval = 1
  MaxInterval = 1
  GraceMultiplier = 1
  Cooldown = 1
  DiscoveryTimeout = 0
  MaxLists = 2
  SignsBy = 1
  MaxListTime = 3
  Missing = Missing
  Starts = {1, 2}
  StartModes = {"failfast", "retry", "besteffort"}
  Packages = {p1}
  Rules = {r1, r2}
  MaxChanges = 2
  MaxLoadFailures = 1
  MaxStops = 2
  Nobody = Nobody
INVARIANTS
  RevocationBounded
  NewestCached
  OnceInWindow
  CountCovers
  CurrentIsRecent
  SnapshotAsOf
PROPERTIES
  NeverUnrevoked
  LookupsEnd
  CatchesUp
