SPECIFICATION ToolSpec
CONSTANTS
  Attempts = {a1, a2}
  Keys = {k1, k2}
  Payloads = {p1, p2}
  Backends = {"memory", "postgres", "custom"}
  TTL = 1
  ClockSkew = 1
  Grace = 1
  KeyRequired = FALSE
  MaxTime = 3
  MaxInFlight = 2
  NoEntry = NoEntry
  Unstructured = {a1}
  NonObject = {}
  Unencodable = {a2}
SYMMETRY Symmetry
CHECK_DEADLOCK FALSE
INVARIANTS ReplaysAnswered
