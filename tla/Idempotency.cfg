SPECIFICATION Spec
CONSTANTS
  Attempts = {a1, a2, a3}
  Keys = {k1}
  Payloads = {p1, p2}
  Backends = {"postgres", "custom"}
  TTL = 1
  ClockSkew = 1
  Grace = 1
  KeyRequired = FALSE
  MaxTime = 3
  MaxInFlight = 2
  NoEntry = NoEntry
SYMMETRY Symmetry
CHECK_DEADLOCK FALSE
INVARIANTS TypeOK AtMostOnce AnswerFidelity AnswersAgree
PROPERTIES ClaimsFenced BindingLasts
