SPECIFICATION EmitSpec
CONSTANTS
  Attempts = {a1, a2, a3}
  Keys = {k1, k2}
  Payloads = {p1}
  Backends = {"memory", "postgres"}
  TTL = 3
  ClockSkew = 0
  Grace = 0
  KeyRequired = TRUE
  MaxTime = 3
  MaxInFlight = 3
  NoEntry = NoEntry
  MaxAttempts = 2
  MaxElapsed = 2
  Backoffs = {1, 2}
  RetryAfters = {1}
CHECK_DEADLOCK FALSE
INVARIANTS EffectOnce DeliveredMeansHandled
PROPERTIES EmitEnds
