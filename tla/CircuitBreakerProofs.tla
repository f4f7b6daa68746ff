------------------------ MODULE CircuitBreakerProofs ------------------------
(***************************************************************************)
(* Proofs about CircuitBreaker for every number of providers and           *)
(* goroutines, every threshold and every cooldown.                         *)
(***************************************************************************)
EXTENDS CircuitBreaker, FiniteSetTheorems, TLAPS

\* The requests that have been counted and not yet left.
Counted(p) == {r \in Requests : on[r] = p /\ at[r] \in {"calling", "tripping", "leaving"}}

\* The in-flight count is exact, so it never goes below zero.
InflightExact == \A p \in Providers : inflight[p] = Cardinality(Counted(p))

\* A goroutine about to swap holds an opening that is over.
LoadedOver == \A w \in Workers : at[w] = "cas" => loaded[w] # 0 /\ clock >= loaded[w]

\* The counter never runs ahead of the failures since the last success.
CountsStreak == \A p \in Providers : consec[p] <= streak[p]

\* Nobody has reset an opening that is still there.
ProbesReset ==
  \A p \in Providers :
    probes[p] = {} \/ (openUntil[p] = 0 /\ \E w \in Workers : probes[p] = {w})

IInv == TypeOK /\ InflightExact /\ LoadedOver /\ CountsStreak /\ ProbesReset /\ TripNotMissed

\* The invariant holds when the router starts.
LEMMA IInvInit == BreakerInit => IInv
<1> SUFFICES ASSUME BreakerInit PROVE IInv OBVIOUS
<1> USE BreakerConstantsOK DEF BreakerInit
<1>1. TypeOK BY DEF TypeOK, Labels
<1>2. \A p \in Providers : Counted(p) = {} BY DEF Counted, Workers
<1>3. InflightExact BY <1>2, FS_EmptySet DEF InflightExact
<1>4. LoadedOver /\ CountsStreak /\ ProbesReset /\ TripNotMissed
  BY DEF LoadedOver, CountsStreak, ProbesReset, TripNotMissed
<1> QED BY <1>1, <1>3, <1>4 DEF IInv

\* The set of counted requests, and so its cardinality, changes with the
\* label of one request between uncounted and counted.
LEMMA CountedStep ==
  ASSUME TypeOK, NEW w \in Workers, NEW l \in Labels, NEW p \in Providers,
         at' = [at EXCEPT ![w] = l], on' = on
  PROVE  /\ Counted(p) \subseteq Requests /\ IsFiniteSet(Counted(p))
         /\ Cardinality(Counted(p)) \in Nat
         /\ (w \notin Requests \/ on[w] # p) => Counted(p)' = Counted(p)
         /\ (at[w] \in {"calling", "tripping", "leaving"} <=> l \in {"calling", "tripping", "leaving"})
              => Counted(p)' = Counted(p)
         /\ (w \in Requests /\ on[w] = p /\ at[w] = "admitted" /\ l = "calling")
              => Cardinality(Counted(p)') = Cardinality(Counted(p)) + 1
         /\ (w \in Requests /\ on[w] = p /\ at[w] = "leaving" /\ l = "idle")
              => Cardinality(Counted(p)') = Cardinality(Counted(p)) - 1
<1>1. Counted(p) \subseteq Requests /\ IsFiniteSet(Counted(p))
  <2>1. Counted(p) \subseteq Requests BY DEF Counted
  <2> QED BY <2>1, BreakerConstantsOK, FS_Subset
<1>2. Cardinality(Counted(p)) \in Nat BY <1>1, FS_CardinalityType
<1>3. (w \notin Requests \/ on[w] # p) => Counted(p)' = Counted(p)
  BY DEF Counted, TypeOK, Workers
<1>4. (at[w] \in {"calling", "tripping", "leaving"} <=> l \in {"calling", "tripping", "leaving"})
        => Counted(p)' = Counted(p)
  BY DEF Counted, TypeOK, Workers
<1>5. ASSUME w \in Requests, on[w] = p, at[w] = "admitted", l = "calling"
      PROVE  Cardinality(Counted(p)') = Cardinality(Counted(p)) + 1
  <2>1. w \notin Counted(p) /\ Counted(p)' = Counted(p) \cup {w}
    BY <1>5 DEF Counted, TypeOK, Workers
  <2> QED BY <1>1, <2>1, FS_AddElement
<1>6. ASSUME w \in Requests, on[w] = p, at[w] = "leaving", l = "idle"
      PROVE  Cardinality(Counted(p)') = Cardinality(Counted(p)) - 1
  <2>1. w \in Counted(p) /\ Counted(p)' = Counted(p) \ {w}
    BY <1>6 DEF Counted, TypeOK, Workers
  <2> QED BY <1>1, <2>1, FS_RemoveElement
<1> QED BY <1>1, <1>2, <1>3, <1>4, <1>5, <1>6

\* A step that changes neither the counter nor who is counted keeps the
\* count exact.
LEMMA SameCount ==
  ASSUME IInv, NEW w \in Workers, NEW l \in Labels,
         at' = [at EXCEPT ![w] = l], on' = on, inflight' = inflight,
         at[w] \in {"calling", "tripping", "leaving"} <=> l \in {"calling", "tripping", "leaving"}
  PROVE  InflightExact'
<1>1. \A p \in Providers : Counted(p)' = Counted(p) BY CountedStep DEF IInv
<1> QED BY <1>1 DEF IInv, InflightExact

\* Each action of a goroutine keeps the invariant.
LEMMA IInvProceed ==
  ASSUME IInv, NEW w \in Workers, Proceed(w)
  PROVE  IInv'
<1>t. /\ TypeOK /\ on[w] \in Providers /\ BreakerConstantsOK
      /\ clock \in Nat /\ clock >= 1 /\ openUntil[on[w]] \in Nat
  BY BreakerConstantsOK DEF IInv, TypeOK
<1> DEFINE p == on[w]
<1> USE DEF Labels
<1>1. CASE LoadOpenUntil(w)
  <2>1. \E l \in {"admitted", "idle", "cas"} :
          /\ at[w] = "gate" /\ at' = [at EXCEPT ![w] = l]
          /\ l = "cas" => loaded' = [loaded EXCEPT ![w] = openUntil[p]]
                            /\ openUntil[p] # 0 /\ clock >= openUntil[p]
          /\ l # "cas" => loaded' = loaded
    BY <1>1 DEF LoadOpenUntil, Excluded, Goto
  <2>2. UNCHANGED <<clock, consec, openUntil, inflight, on, streak, probes>>
    BY <1>1 DEF LoadOpenUntil, counters
  <2>3. TypeOK' BY <1>t, <2>1, <2>2 DEF TypeOK
  <2>4. InflightExact' BY <2>1, <2>2, SameCount
  <2>5. LoadedOver' BY <1>t, <2>1, <2>2 DEF IInv, LoadedOver, TypeOK
  <2>6. CountsStreak' /\ ProbesReset' BY <2>2 DEF IInv, CountsStreak, ProbesReset
  <2>7. TripNotMissed' BY <1>t, <2>1, <2>2 DEF IInv, TripNotMissed, TypeOK
  <2> QED BY <2>3, <2>4, <2>5, <2>6, <2>7 DEF IInv
<1>2. CASE CompareAndSwap(w)
  <2>1. /\ at[w] = "cas" /\ UNCHANGED <<clock, consec, inflight, on, streak>>
        /\ loaded' = [loaded EXCEPT ![w] = 0]
        /\ \/ /\ openUntil[p] = loaded[w] /\ openUntil' = [openUntil EXCEPT ![p] = 0]
              /\ probes' = [probes EXCEPT ![p] = @ \cup {w}] /\ at' = [at EXCEPT ![w] = "reset"]
           \/ /\ openUntil' = openUntil /\ probes' = probes
              /\ \E l \in {"admitted", "idle"} : at' = [at EXCEPT ![w] = l]
    BY <1>2 DEF CompareAndSwap, Excluded, Goto
  <2>3. TypeOK' BY <1>t, <2>1 DEF TypeOK
  <2>4. InflightExact' BY <2>1, SameCount
  <2>5. LoadedOver' BY <1>t, <2>1 DEF IInv, LoadedOver, TypeOK
  <2>6. CountsStreak' BY <2>1 DEF IInv, CountsStreak
  <2>7. loaded[w] # 0 BY <2>1 DEF IInv, LoadedOver
  <2>8. ProbesReset' BY <1>t, <2>1, <2>7 DEF IInv, ProbesReset, TypeOK
  <2>9. TripNotMissed' BY <1>t, <2>1 DEF IInv, TripNotMissed, TypeOK
  <2> QED BY <2>3, <2>4, <2>5, <2>6, <2>8, <2>9 DEF IInv
<1>3. CASE ResetFailures(w)
  <2>1. /\ at[w] = "reset" /\ at' = [at EXCEPT ![w] = "admitted"]
        /\ consec' = [consec EXCEPT ![p] = 0]
        /\ UNCHANGED <<clock, openUntil, inflight, on, loaded, streak, probes>>
    BY <1>3 DEF ResetFailures, Goto
  <2>3. TypeOK' BY <1>t, <2>1 DEF TypeOK
  <2>4. InflightExact' BY <2>1, SameCount
  <2>5. LoadedOver' BY <1>t, <2>1 DEF IInv, LoadedOver, TypeOK
  <2>6. CountsStreak' BY <1>t, <2>1 DEF IInv, CountsStreak, TypeOK
  <2>7. ProbesReset' BY <2>1 DEF IInv, ProbesReset
  <2>8. TripNotMissed' BY <1>t, <2>1 DEF IInv, TripNotMissed, TypeOK
  <2> QED BY <2>3, <2>4, <2>5, <2>6, <2>7, <2>8 DEF IInv
<1>4. CASE IncrInflight(w) \/ DecrInflight(w)
  <2>1. /\ \E l \in {"calling", "idle"} :
             /\ at' = [at EXCEPT ![w] = l]
             /\ at[w] = (IF l = "calling" THEN "admitted" ELSE "leaving")
             /\ inflight' = IF w = Checker THEN inflight
                            ELSE [inflight EXCEPT ![p] = IF l = "calling" THEN @ + 1 ELSE @ - 1]
        /\ UNCHANGED <<clock, consec, openUntil, on, loaded, streak, probes>>
    BY <1>4 DEF IncrInflight, DecrInflight, Goto
  <2>2. PICK l \in {"calling", "idle"} :
          /\ at' = [at EXCEPT ![w] = l]
          /\ at[w] = (IF l = "calling" THEN "admitted" ELSE "leaving")
          /\ inflight' = IF w = Checker THEN inflight
                         ELSE [inflight EXCEPT ![p] = IF l = "calling" THEN @ + 1 ELSE @ - 1]
    BY <2>1
  <2>3. ASSUME NEW q \in Providers
        PROVE  inflight'[q] = Cardinality(Counted(q)') /\ inflight'[q] \in Nat
    <3>1. inflight[q] = Cardinality(Counted(q)) BY DEF IInv, InflightExact
    <3>2. CASE w = Checker \/ q # p
      <4>1. w \notin Requests \/ on[w] # q BY <1>t, <3>2 DEF BreakerConstantsOK
      <4>2. Counted(q)' = Counted(q) /\ Cardinality(Counted(q)) \in Nat
        BY <1>t, <2>1, <2>2, <4>1, CountedStep
      <4>3. inflight'[q] = inflight[q] BY <1>t, <2>2, <3>2 DEF TypeOK
      <4> QED BY <3>1, <4>2, <4>3
    <3>3. CASE w # Checker /\ q = p
      <4>1. w \in Requests BY <3>3 DEF Workers
      <4>2. /\ Cardinality(Counted(q)') = (IF l = "calling" THEN Cardinality(Counted(q)) + 1
                                            ELSE Cardinality(Counted(q)) - 1)
            /\ Cardinality(Counted(q)) \in Nat
        BY <1>t, <2>1, <2>2, <3>3, <4>1, CountedStep
      <4>3. inflight'[q] = (IF l = "calling" THEN inflight[q] + 1 ELSE inflight[q] - 1)
        BY <1>t, <2>2, <3>3 DEF TypeOK
      <4>4. Cardinality(Counted(q)') \in Nat
        <5>1. Counted(q)' \subseteq Requests BY DEF Counted
        <5> QED BY <5>1, BreakerConstantsOK, FS_Subset, FS_CardinalityType
      <4> QED BY <3>1, <4>2, <4>3, <4>4
    <3> QED BY <3>2, <3>3
  <2>4. InflightExact' BY <2>3 DEF InflightExact
  <2>5. inflight' \in [Providers -> Nat]
    <3>1. DOMAIN inflight' = Providers /\ inflight' = [q \in Providers |-> inflight'[q]]
      BY <1>t, <2>2 DEF TypeOK
    <3> QED BY <2>3, <3>1
  <2>6. TypeOK' BY <1>t, <2>1, <2>2, <2>5 DEF TypeOK
  <2>7. LoadedOver' BY <1>t, <2>1, <2>2 DEF IInv, LoadedOver, TypeOK
  <2>8. CountsStreak' /\ ProbesReset' BY <2>1 DEF IInv, CountsStreak, ProbesReset
  <2>9. TripNotMissed' BY <1>t, <2>1, <2>2 DEF IInv, TripNotMissed, TypeOK
  <2> QED BY <2>4, <2>6, <2>7, <2>8, <2>9 DEF IInv
<1>5. CASE RecordSuccess(w)
  <2>1. /\ at[w] = "calling" /\ at' = [at EXCEPT ![w] = "leaving"]
        /\ consec' = [consec EXCEPT ![p] = 0] /\ streak' = [streak EXCEPT ![p] = 0]
        /\ UNCHANGED <<clock, openUntil, inflight, on, loaded, probes>>
    BY <1>5 DEF RecordSuccess, Goto
  <2>3. TypeOK' BY <1>t, <2>1 DEF TypeOK
  <2>4. InflightExact' BY <2>1, SameCount
  <2>5. LoadedOver' BY <1>t, <2>1 DEF IInv, LoadedOver, TypeOK
  <2>6. CountsStreak' BY <1>t, <2>1 DEF IInv, CountsStreak, TypeOK
  <2>7. ProbesReset' BY <2>1 DEF IInv, ProbesReset
  <2>8. TripNotMissed' BY <1>t, <2>1 DEF IInv, TripNotMissed, TypeOK, BreakerConstantsOK
  <2> QED BY <2>3, <2>4, <2>5, <2>6, <2>7, <2>8 DEF IInv
<1>6. CASE RecordFailure(w)
  <2>1. /\ at[w] = "calling"
        /\ consec' = [consec EXCEPT ![p] = @ + 1] /\ streak' = [streak EXCEPT ![p] = @ + 1]
        /\ \E l \in {"tripping", "leaving"} : /\ at' = [at EXCEPT ![w] = l]
                                              /\ consec'[p] >= FailureThreshold => l = "tripping"
        /\ UNCHANGED <<clock, openUntil, inflight, on, loaded, probes>>
    BY <1>6 DEF RecordFailure, Goto
  <2>3. TypeOK' BY <1>t, <2>1 DEF TypeOK
  <2>4. InflightExact' BY <2>1, SameCount
  <2>5. LoadedOver' BY <1>t, <2>1 DEF IInv, LoadedOver, TypeOK
  <2>6. CountsStreak' BY <1>t, <2>1 DEF IInv, CountsStreak, TypeOK
  <2>7. ProbesReset' BY <2>1 DEF IInv, ProbesReset
  <2>8. TripNotMissed' BY <1>t, <2>1 DEF IInv, TripNotMissed, TypeOK
  <2> QED BY <2>3, <2>4, <2>5, <2>6, <2>7, <2>8 DEF IInv
<1>7. CASE StoreOpenUntil(w)
  <2>1. /\ at[w] = "tripping" /\ at' = [at EXCEPT ![w] = "leaving"]
        /\ openUntil' = [openUntil EXCEPT ![p] = clock + Cooldown]
        /\ probes' = [probes EXCEPT ![p] = {}]
        /\ UNCHANGED <<clock, consec, inflight, on, loaded, streak>>
    BY <1>7 DEF StoreOpenUntil, Goto
  <2>2. clock + Cooldown \in Nat \ {0} BY <1>t DEF BreakerConstantsOK
  <2>3. TypeOK' BY <1>t, <2>1, <2>2 DEF TypeOK
  <2>4. InflightExact' BY <2>1, SameCount
  <2>5. LoadedOver' BY <1>t, <2>1 DEF IInv, LoadedOver, TypeOK
  <2>6. CountsStreak' BY <2>1 DEF IInv, CountsStreak
  <2>7. ProbesReset' BY <1>t, <2>1 DEF IInv, ProbesReset, TypeOK
  <2>8. TripNotMissed' BY <1>t, <2>1, <2>2 DEF IInv, TripNotMissed, TypeOK
  <2> QED BY <2>3, <2>4, <2>5, <2>6, <2>7, <2>8 DEF IInv
<1>8. CASE Abandon(w)
  <2>1. /\ at[w] = "calling" /\ at' = [at EXCEPT ![w] = "leaving"]
        /\ UNCHANGED <<clock, consec, openUntil, inflight, on, loaded, streak, probes>>
    BY <1>8 DEF Abandon, Goto, counters
  <2>3. TypeOK' BY <1>t, <2>1 DEF TypeOK
  <2>4. InflightExact' BY <2>1, SameCount
  <2>5. LoadedOver' BY <1>t, <2>1 DEF IInv, LoadedOver, TypeOK
  <2>6. CountsStreak' /\ ProbesReset' BY <2>1 DEF IInv, CountsStreak, ProbesReset
  <2>8. TripNotMissed' BY <1>t, <2>1 DEF IInv, TripNotMissed, TypeOK
  <2> QED BY <2>3, <2>4, <2>5, <2>6, <2>8 DEF IInv
<1> QED BY <1>1, <1>2, <1>3, <1>4, <1>5, <1>6, <1>7, <1>8 DEF Proceed

\* So do a new goroutine and the clock.
LEMMA IInvNext == IInv /\ [BreakerNext]_breakerVars => IInv'
<1> SUFFICES ASSUME IInv, [BreakerNext]_breakerVars PROVE IInv' OBVIOUS
<1>1. CASE \E w \in Workers, p \in Providers : Begin(w, p)
  <2>1. PICK w \in Workers, p \in Providers : Begin(w, p) BY <1>1
  <2>2. /\ at[w] = "idle" /\ at' = [at EXCEPT ![w] = "gate"] /\ on' = [on EXCEPT ![w] = p]
        /\ UNCHANGED <<clock, consec, openUntil, inflight, loaded, streak, probes>>
    BY <2>1 DEF Begin, Goto, counters
  <2>3. TypeOK' BY <2>2 DEF IInv, TypeOK, Labels
  <2>4. \A q \in Providers : Counted(q)' = Counted(q)
    BY <2>2 DEF Counted, IInv, TypeOK, Workers
  <2>5. InflightExact' BY <2>2, <2>4 DEF IInv, InflightExact
  <2>6. LoadedOver' BY <2>2 DEF IInv, LoadedOver, TypeOK
  <2>7. CountsStreak' /\ ProbesReset' BY <2>2 DEF IInv, CountsStreak, ProbesReset
  <2>8. TripNotMissed' BY <2>2 DEF IInv, TripNotMissed, TypeOK
  <2> QED BY <2>3, <2>5, <2>6, <2>7, <2>8 DEF IInv
<1>2. CASE \E w \in Workers : Proceed(w)
  BY <1>2, IInvProceed
<1>3. CASE Tick
  <2>1. /\ clock' = clock + 1 /\ clock < MaxTime
        /\ UNCHANGED <<consec, openUntil, inflight, at, on, loaded, streak, probes>>
    BY <1>3 DEF Tick, counters
  <2>2. TypeOK' BY <2>1, BreakerConstantsOK DEF IInv, TypeOK
  <2>3. LoadedOver' BY <2>1 DEF IInv, LoadedOver, TypeOK
  <2>4. InflightExact' BY <2>1 DEF IInv, InflightExact, Counted
  <2>5. CountsStreak' /\ ProbesReset' /\ TripNotMissed'
    BY <2>1 DEF IInv, CountsStreak, ProbesReset, TripNotMissed
  <2> QED BY <2>2, <2>3, <2>4, <2>5 DEF IInv
<1>4. CASE UNCHANGED breakerVars
  <2> USE <1>4 DEF breakerVars, counters
  <2>1. TypeOK' BY DEF IInv, TypeOK
  <2>2. InflightExact' BY DEF IInv, InflightExact, Counted
  <2>3. LoadedOver' /\ CountsStreak' /\ ProbesReset' /\ TripNotMissed'
    BY DEF IInv, LoadedOver, CountsStreak, ProbesReset, TripNotMissed
  <2> QED BY <2>1, <2>2, <2>3 DEF IInv
<1> QED BY <1>1, <1>2, <1>3, <1>4 DEF BreakerNext

\* Type correctness of the breaker model; that the in-flight count is never
\* negative is the part that takes an argument.
THEOREM BreakerTypes == BreakerSpec => []TypeOK
<1>1. IInv => TypeOK BY DEF IInv
<1> QED BY <1>1, IInvInit, IInvNext, PTL DEF BreakerSpec

\* For any number of goroutines: no interleaving of recording and testing
\* leaves a provider over its threshold with its circuit closed.
THEOREM TripsNotMissed == BreakerSpec => []TripNotMissed
<1>1. IInv => TripNotMissed BY DEF IInv
<1> QED BY <1>1, IInvInit, IInvNext, PTL DEF BreakerSpec

\* For any number of goroutines: one opening is reset by one of them.
THEOREM SingleProbe == BreakerSpec => []OneProbe
<1>1. IInv => OneProbe
  <2> SUFFICES ASSUME IInv, NEW p \in Providers PROVE Cardinality(probes[p]) <= 1
    BY DEF OneProbe
  <2>1. CASE probes[p] = {} BY <2>1, FS_EmptySet
  <2>2. CASE \E w \in Workers : probes[p] = {w} BY <2>2, FS_Singleton
  <2> QED BY <2>1, <2>2 DEF IInv, ProbesReset
<1> QED BY <1>1, IInvInit, IInvNext, PTL DEF BreakerSpec

\* One step closes a circuit only after its cooldown, and counts a failure
\* that trips only at the end of a streak.
Cooled ==
  \A p \in Providers : (openUntil[p] # 0 /\ openUntil'[p] = 0) => clock >= openUntil[p]
Streaked ==
  \A w \in Workers :
    (at[w] # "tripping" /\ at'[w] = "tripping") => streak'[on[w]] >= FailureThreshold

\* The steps that store circuitOpenUntil, and the one that starts to trip.
LEMMA StepsHonour == IInv /\ [BreakerNext]_breakerVars => Cooled /\ Streaked
<1> SUFFICES ASSUME IInv, [BreakerNext]_breakerVars PROVE Cooled /\ Streaked OBVIOUS
<1>t. TypeOK BY DEF IInv
<1>1. ASSUME NEW w \in Workers, Proceed(w) PROVE Cooled /\ Streaked
  <2>1. CASE CompareAndSwap(w)
    <3>1. /\ at[w] = "cas" /\ at' \in [Workers -> Labels]
          /\ \A v \in Workers : at'[v] = "tripping" => at[v] = "tripping"
          /\ openUntil' = openUntil
               \/ (openUntil[on[w]] = loaded[w] /\ openUntil' = [openUntil EXCEPT ![on[w]] = 0])
      BY <1>t, <2>1 DEF CompareAndSwap, Excluded, Goto, TypeOK, Labels
    <3>2. clock >= loaded[w] BY <3>1 DEF IInv, LoadedOver
    <3> QED BY <1>t, <3>1, <3>2 DEF Cooled, Streaked, TypeOK
  <2>2. CASE StoreOpenUntil(w)
    <3>1. clock + Cooldown # 0 BY <1>t, BreakerConstantsOK DEF TypeOK
    <3> QED BY <1>t, <2>2, <3>1 DEF StoreOpenUntil, Goto, Cooled, Streaked, TypeOK
  <2>3. CASE RecordFailure(w)
    <3>1. /\ consec' = [consec EXCEPT ![on[w]] = @ + 1] /\ streak' = [streak EXCEPT ![on[w]] = @ + 1]
          /\ at' = [at EXCEPT ![w] = IF consec'[on[w]] >= FailureThreshold THEN "tripping" ELSE "leaving"]
          /\ openUntil' = openUntil
      BY <2>3 DEF RecordFailure, Goto
    <3>2. consec'[on[w]] <= streak'[on[w]]
      BY <1>t, <3>1 DEF IInv, CountsStreak, TypeOK
    <3>3. consec'[on[w]] \in Nat /\ streak'[on[w]] \in Nat
      BY <1>t, <3>1 DEF TypeOK
    <3>4. Streaked BY <1>t, <3>1, <3>2, <3>3, BreakerConstantsOK DEF Streaked, TypeOK
    <3>5. Cooled BY <3>1 DEF Cooled
    <3> QED BY <3>4, <3>5
  <2>4. CASE LoadOpenUntil(w) \/ ResetFailures(w) \/ IncrInflight(w) \/ RecordSuccess(w)
             \/ Abandon(w) \/ DecrInflight(w)
    <3>1. /\ openUntil' = openUntil
          /\ \A v \in Workers : at'[v] = "tripping" => at[v] = "tripping"
      BY <1>t, <2>4 DEF LoadOpenUntil, Excluded, ResetFailures, IncrInflight, RecordSuccess,
                        Abandon, DecrInflight, Goto, counters, TypeOK
    <3> QED BY <3>1 DEF Cooled, Streaked
  <2> QED BY <1>1, <2>1, <2>2, <2>3, <2>4 DEF Proceed
<1>2. CASE \E w \in Workers, p \in Providers : Begin(w, p)
  BY <1>t, <1>2 DEF Begin, Goto, counters, Cooled, Streaked, TypeOK
<1>3. CASE Tick \/ UNCHANGED breakerVars
  BY <1>3 DEF Tick, breakerVars, counters, Cooled, Streaked
<1> QED BY <1>1, <1>2, <1>3 DEF BreakerNext

\* For any number of goroutines: none closes a circuit before its cooldown is
\* over, however stale the opening it had read.
THEOREM CooldownsHonoured == BreakerSpec => CooldownHonoured
<1>1. IInv /\ [BreakerNext]_breakerVars => [Cooled]_breakerVars BY StepsHonour
<1> QED BY <1>1, IInvInit, IInvNext, PTL DEF BreakerSpec, CooldownHonoured, Cooled

\* For every threshold: a circuit is opened only after that many failures in
\* a row.
THEOREM OpensOnlyOnStreak == BreakerSpec => OpensOnStreak
<1>1. IInv /\ [BreakerNext]_breakerVars => [Streaked]_breakerVars BY StepsHonour
<1> QED BY <1>1, IInvInit, IInvNext, PTL DEF BreakerSpec, OpensOnStreak, Streaked
=============================================================================
