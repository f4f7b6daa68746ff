--------------------------- MODULE CircuitBreaker ---------------------------
(***************************************************************************)
(* The router's per-provider circuit breaker and in-flight count           *)
(* (router/health.go), used concurrently by the fan-out goroutines of the  *)
(* router (fanOutContext, fanOutIdentity) and by the health checker.       *)
(*                                                                         *)
(* A request is one fan-out goroutine: one request and one provider.  The  *)
(* counters are Go atomics, so each Load, Store, Add and CompareAndSwap is *)
(* a step of its own; only the clock reading next to a Load or a Store is  *)
(* part of that step.  Metrics, and the totals only Snapshot reads, are    *)
(* left out.                                                               *)
(***************************************************************************)
EXTENDS Integers, FiniteSets

CONSTANTS
  Providers,
  Requests,          \* fan-out goroutines, reused once they have returned
  Checker,           \* the health checker's goroutine
  FailureThreshold,  \* HealthConfig.FailureThreshold
  Cooldown,          \* HealthConfig.CooldownSeconds
  MaxTime,           \* bound on the clock
  MaxFailures        \* bound on a provider's failures in a row

Workers == Requests \cup {Checker}

ASSUME BreakerConstantsOK ==
  /\ IsFiniteSet(Requests) /\ Checker \notin Requests
  /\ Providers # {}
  /\ FailureThreshold \in Nat \ {0} /\ Cooldown \in Nat
  /\ MaxTime \in Nat \ {0} /\ MaxFailures \in Nat

VARIABLES
  clock,
  consec,     \* consecutiveFailures
  openUntil,  \* circuitOpenUntil, 0 when closed
  inflight,
  at, on,     \* where each goroutine is, and its provider
  loaded,     \* the openUntil a goroutine read and found over
  streak,     \* history: failures recorded since the last success
  probes      \* history: the goroutines that reset the current opening

counters == <<consec, openUntil, inflight>>
breakerVars == <<clock, counters, at, on, loaded, streak, probes>>

\* gate, cas, reset: inside IsCircuitOpen.  tripping: the failure is counted
\* and the threshold reached, circuitOpenUntil not yet stored.
Labels == {"idle", "gate", "cas", "reset", "admitted", "calling", "tripping", "leaving"}

TypeOK ==
  /\ clock \in 1 .. MaxTime
  /\ consec \in [Providers -> Nat]
  /\ openUntil \in [Providers -> Nat]
  /\ inflight \in [Providers -> Nat]
  /\ at \in [Workers -> Labels] /\ on \in [Workers -> Providers]
  /\ loaded \in [Workers -> Nat]
  /\ streak \in [Providers -> Nat]
  /\ probes \in [Providers -> SUBSET Workers]

BreakerInit ==
  /\ clock = 1
  /\ consec = [p \in Providers |-> 0]
  /\ openUntil = [p \in Providers |-> 0]
  /\ inflight = [p \in Providers |-> 0]
  /\ at = [w \in Workers |-> "idle"]
  /\ on = [w \in Workers |-> CHOOSE p \in Providers : TRUE]
  /\ loaded = [w \in Workers |-> 0]
  /\ streak = [p \in Providers |-> 0]
  /\ probes = [p \in Providers |-> {}]

Goto(w, l) == at' = [at EXCEPT ![w] = l]

\* A request whose provider was in the active snapshot, or the health
\* checker's next provider.
Begin(w, p) ==
  /\ at[w] = "idle"
  /\ Goto(w, "gate")
  /\ on' = [on EXCEPT ![w] = p]
  /\ UNCHANGED <<clock, counters, loaded, streak, probes>>

-----------------------------------------------------------------------------
(* IsCircuitOpen.                                                          *)

\* The circuit is open: a request skips the provider; the health checker
\* only remembers it and probes all the same.
Excluded(w) == Goto(w, IF w = Checker THEN "admitted" ELSE "idle")

LoadOpenUntil(w) ==
  LET o == openUntil[on[w]] IN
  /\ at[w] = "gate"
  /\ \/ o = 0 /\ Goto(w, "admitted") /\ UNCHANGED loaded
     \/ o # 0 /\ clock < o /\ Excluded(w) /\ UNCHANGED loaded
     \/ o # 0 /\ clock >= o /\ Goto(w, "cas") /\ loaded' = [loaded EXCEPT ![w] = o]
  /\ UNCHANGED <<clock, counters, on, streak, probes>>

\* Mutant: a Store in place of the CompareAndSwap.
CompareAndSwapBlind(w) ==
  LET p == on[w] IN
  /\ at[w] = "cas"
  /\ loaded' = [loaded EXCEPT ![w] = 0]
  /\ openUntil' = [openUntil EXCEPT ![p] = 0]
  /\ probes' = [probes EXCEPT ![p] = @ \cup {w}]
  /\ Goto(w, "reset")
  /\ UNCHANGED <<clock, consec, inflight, on, streak>>

CompareAndSwap(w) ==
  LET p == on[w] IN
  /\ at[w] = "cas"
  /\ loaded' = [loaded EXCEPT ![w] = 0]
  /\ \/ /\ openUntil[p] = loaded[w]
        /\ openUntil' = [openUntil EXCEPT ![p] = 0]
        /\ probes' = [probes EXCEPT ![p] = @ \cup {w}]
        /\ Goto(w, "reset")
     \/ /\ openUntil[p] # loaded[w]
        /\ Excluded(w)
        /\ UNCHANGED <<openUntil, probes>>
  /\ UNCHANGED <<clock, consec, inflight, on, streak>>

\* Mutant: the probe does not clear the consecutive failures.
ResetFailuresSkipped(w) ==
  /\ at[w] = "reset"
  /\ Goto(w, "admitted")
  /\ UNCHANGED <<clock, counters, on, loaded, streak, probes>>

ResetFailures(w) ==
  /\ at[w] = "reset"
  /\ consec' = [consec EXCEPT ![on[w]] = 0]
  /\ Goto(w, "admitted")
  /\ UNCHANGED <<clock, openUntil, inflight, on, loaded, streak, probes>>

-----------------------------------------------------------------------------
(* The call.  Only requests are counted as in flight.                      *)

IncrInflight(w) ==
  /\ at[w] = "admitted"
  /\ inflight' = IF w = Checker THEN inflight ELSE [inflight EXCEPT ![on[w]] = @ + 1]
  /\ Goto(w, "calling")
  /\ UNCHANGED <<clock, consec, openUntil, on, loaded, streak, probes>>

\* Mutant: a success does not clear the failures in a row.
RecordSuccessKeeps(w) ==
  /\ at[w] = "calling"
  /\ streak' = [streak EXCEPT ![on[w]] = 0]
  /\ Goto(w, "leaving")
  /\ UNCHANGED <<clock, counters, on, loaded, probes>>

RecordSuccess(w) ==
  /\ at[w] = "calling"
  /\ consec' = [consec EXCEPT ![on[w]] = 0]
  /\ streak' = [streak EXCEPT ![on[w]] = 0]
  /\ Goto(w, "leaving")
  /\ UNCHANGED <<clock, openUntil, inflight, on, loaded, probes>>

\* A timeout, a transport error or a rejected response; a failed health check.
RecordFailure(w) ==
  LET p == on[w] IN
  /\ at[w] = "calling" /\ streak[p] < MaxFailures
  /\ consec' = [consec EXCEPT ![p] = @ + 1]
  /\ streak' = [streak EXCEPT ![p] = @ + 1]
  /\ Goto(w, IF consec'[p] >= FailureThreshold THEN "tripping" ELSE "leaving")
  /\ UNCHANGED <<clock, openUntil, inflight, on, loaded, probes>>

StoreOpenUntil(w) ==
  LET p == on[w] IN
  /\ at[w] = "tripping"
  /\ openUntil' = [openUntil EXCEPT ![p] = clock + Cooldown]
  /\ probes' = [probes EXCEPT ![p] = {}]
  /\ Goto(w, "leaving")
  /\ UNCHANGED <<clock, consec, inflight, on, loaded, streak>>

\* A request ends without a record: its client went away, it has nothing for
\* this provider, or it cannot be signed or serialised.
Abandon(w) ==
  /\ at[w] = "calling" /\ w \in Requests
  /\ Goto(w, "leaving")
  /\ UNCHANGED <<clock, counters, on, loaded, streak, probes>>

\* Mutant: the health checker decrements the count too.
DecrInflightChecker(w) ==
  /\ at[w] = "leaving"
  /\ inflight' = [inflight EXCEPT ![on[w]] = @ - 1]
  /\ Goto(w, "idle")
  /\ UNCHANGED <<clock, consec, openUntil, on, loaded, streak, probes>>

DecrInflight(w) ==
  /\ at[w] = "leaving"
  /\ inflight' = IF w = Checker THEN inflight ELSE [inflight EXCEPT ![on[w]] = @ - 1]
  /\ Goto(w, "idle")
  /\ UNCHANGED <<clock, consec, openUntil, on, loaded, streak, probes>>

-----------------------------------------------------------------------------
Tick ==
  /\ clock < MaxTime
  /\ clock' = clock + 1
  /\ UNCHANGED <<counters, at, on, loaded, streak, probes>>

\* Everything a goroutine does once it has its provider.
Proceed(w) ==
  \/ LoadOpenUntil(w) \/ CompareAndSwap(w) \/ ResetFailures(w)
  \/ IncrInflight(w) \/ RecordSuccess(w) \/ RecordFailure(w) \/ StoreOpenUntil(w)
  \/ Abandon(w) \/ DecrInflight(w)

BreakerNext ==
  \/ \E w \in Workers, p \in Providers : Begin(w, p)
  \/ \E w \in Workers : Proceed(w)
  \/ Tick

BreakerSpec == BreakerInit /\ [][BreakerNext]_breakerVars

-----------------------------------------------------------------------------
(* What the breaker promises.                                              *)

\* No trip is lost: a provider at its failure threshold has its circuit
\* open, or a goroutine is about to store that, or the cooldown is over and a
\* probe about to clear the count.  None of the races between RecordFailure,
\* RecordSuccess and IsCircuitOpen, none of which takes a lock, leaves a
\* provider over its threshold and closed (health.go 56-102).
TripNotMissed ==
  \A p \in Providers : consec[p] >= FailureThreshold =>
    openUntil[p] # 0 \/ \E w \in Workers : on[w] = p /\ at[w] \in {"tripping", "reset"}

\* A circuit is closed only once its own cooldown is over: a goroutine that
\* read an earlier opening, and comes back after the circuit was opened again,
\* does not close it (the CompareAndSwap, health.go 97).
CooldownHonoured ==
  [][\A p \in Providers :
       (openUntil[p] # 0 /\ openUntil'[p] = 0) => clock >= openUntil[p]]_breakerVars

\* Of the goroutines that find one opening over, exactly one resets it; the
\* others are turned away (health.go 93-101).
OneProbe == \A p \in Providers : Cardinality(probes[p]) <= 1

\* A circuit is opened only after FailureThreshold failures in a row, with no
\* success recorded between them (network-surface.md, Circuit Breaker).
OpensOnStreak ==
  [][\A w \in Workers :
       (at[w] # "tripping" /\ at'[w] = "tripping") => streak'[on[w]] >= FailureThreshold]_breakerVars
=============================================================================
