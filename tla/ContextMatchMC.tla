--------------------------- MODULE ContextMatchMC ---------------------------
(***************************************************************************)
(* Small instances of ContextMatch, breaker included, for TLC.  The breaker *)
(* is worth many failures and little time, the cache much time and no      *)
(* failures: a behaviour is bounded for one or for the other.              *)
(***************************************************************************)
EXTENDS ContextMatch, TLC

CONSTANT MaxBreakerTime   \* the clock's bound where providers fail

VARIABLE focus
focusVars == <<matchVars, focus>>

FocusInit == MatchInit /\ focus \in {"breaker", "cache"}

FocusNext ==
  /\ MatchNext /\ UNCHANGED focus
  /\ focus = "breaker" => clock' <= MaxBreakerTime /\ changedAt' = 0
  /\ focus = "cache" => streak' = streak /\ at'[Checker] = "idle"

FocusSpec == FocusInit /\ [][FocusNext]_focusVars

\* Requests are interchangeable, and so are sellers.
Symmetry == Permutations(Requests) \cup Permutations(Sellers)

\* The last one is over the ceiling and over the default.
TTLs == {Absent, -1, 0, 3}
=============================================================================
