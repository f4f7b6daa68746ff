------------------------- MODULE IdempotencyProofs -------------------------
(***************************************************************************)
(* Proofs about Idempotency for every number of attempts, keys, payloads,  *)
(* every window, skew and grace, and every backend.                        *)
(***************************************************************************)
EXTENDS Idempotency, TLAPS

\* Every entry an attempt writes, and every result it returns, is well typed.
LEMMA WritesTyped ==
  ASSUME TypeOK, NEW a \in Attempts
  PROVE  /\ Claim(a) \in Entry /\ Marker(a) \in Entry /\ Final(a) \in Entry
         /\ Fresh(a) \in Result
         /\ \A E \in SUBSET Sentinels : Err(a, E) \in Result
         /\ \A e \in Entry : evaluateExisting(a, e) \in Result
<1>1. now[a] + TTL \in Nat /\ clock + TTL \in Nat
  BY ConstantsOK DEF TypeOK, Times
<1>2. Claim(a) \in Entry /\ Marker(a) \in Entry /\ Final(a) \in Entry
  BY <1>1 DEF TypeOK, Claim, Marker, Final, Entry, EntryKinds
<1>3. Fresh(a) \in Result
  BY DEF Fresh, Result
<1>4. \A E \in SUBSET Sentinels : Err(a, E) \in Result
  BY DEF Err, Result
<1>5. ASSUME NEW e \in Entry PROVE evaluateExisting(a, e) \in Result
  <2>1. \A x \in {"in_flight", "conflict", "expired"} : Err(a, {x}) \in Result
    BY <1>4 DEF Sentinels
  <2>2. [kind |-> "replayed", errs |-> {}, of |-> e.tok] \in Result
    BY DEF Entry, Result
  <2> QED BY <2>1, <2>2 DEF evaluateExisting
<1> QED BY <1>2, <1>3, <1>4, <1>5

\* A store that has just been built is well typed.
LEMMA TypeInit == Init => TypeOK
<1> SUFFICES ASSUME Init PROVE TypeOK OBVIOUS
<1>1. res \in [Attempts -> Result]
  BY DEF Init, Result
<1>2. key \in [Attempts -> Keys] /\ hash \in [Attempts -> Payloads]
  BY ConstantsOK DEF Init
<1>3. clock \in Times /\ now \in [Attempts -> Times]
  BY ConstantsOK DEF Init, Times
<1> QED BY <1>1, <1>2, <1>3 DEF Init, TypeOK, PcValues

\* The steps of an attempt, one fact per action.
LEMMA TypeStep ==
  ASSUME TypeOK, NEW a \in Attempts, Step(a)
  PROVE  TypeOK'
<1> USE DEF TypeOK, PcValues, request, history, started, Goto, Finish, Forget, Write
<1>0. /\ Claim(a) \in Entry /\ Marker(a) \in Entry /\ Final(a) \in Entry
      /\ Fresh(a) \in Result
      /\ \A E \in SUBSET Sentinels : Err(a, E) \in Result
      /\ \A e \in Entry : evaluateExisting(a, e) \in Result
  BY WritesTyped
<1>r. \A E \in {{"refused"}, {"backend"}, {"record_failed"}, {"in_flight"}, {"handler"},
                {"unknown"}, {"claim_lost"}, {"handler", "claim_lost"},
                {"handler", "release_failed"}, {"crashed"}} : Err(a, E) \in Result
  BY <1>0 DEF Sentinels
<1>s. ASSUME StartHandler(a) PROVE /\ pc' \in [Attempts -> PcValues]
                                   /\ ran' \subseteq Attempts /\ ran \subseteq ran'
                                   /\ early' \subseteq Attempts \X Attempts
  BY <1>s DEF StartHandler
<1>v. ASSUME NEW e \in Entry, Resolve(a, e)
      PROVE  /\ pc' \in [Attempts -> PcValues] /\ seen' \in [Attempts -> Entry \cup {NoEntry}]
             /\ res' \in [Attempts -> Result]
  BY <1>v, <1>0 DEF Resolve
<1>1. CASE Refuse(a)
  BY <1>1, <1>r DEF Refuse
<1>2. CASE RunUncached(a)
  <2>1. [kind |-> "uncached", errs |-> {}, of |-> a] \in Result BY DEF Result
  <2> QED BY <1>2, <2>1 DEF RunUncached
<1>3. CASE \E k \in Keys, h \in Payloads : Begin(a, k, h)
  BY <1>3 DEF Begin
<1>4. CASE Get(a)
  BY <1>4, <1>s, <1>v DEF Get
<1>5. CASE GetFails(a)
  BY <1>5, <1>r DEF GetFails
<1>6. CASE PutClaim(a)
  BY <1>6, <1>0, <1>s, <1>v DEF PutClaim
<1>7. CASE PutClaimFails(a)
  BY <1>7, <1>0, <1>r DEF PutClaimFails
<1>8. CASE Reread(a)
  BY <1>8, <1>0, <1>r, <1>v DEF Reread
<1>9. CASE Reclaim(a)
  BY <1>9, <1>0, <1>s DEF Reclaim
<1>10. CASE ReclaimFails(a)
  BY <1>10, <1>0, <1>r DEF ReclaimFails
<1>11. CASE Reget(a)
  BY <1>11, <1>0, <1>r DEF Reget
<1>12. CASE HandlerReturns(a) \/ HandlerFails(a) \/ HandlerUnknown(a) \/ Crash(a)
  BY <1>12, <1>r DEF HandlerReturns, HandlerFails, HandlerUnknown, Crash
<1>13. CASE Record(a)
  BY <1>13, <1>0, <1>r DEF Record
<1>14. CASE RecordFails(a)
  BY <1>14, <1>0, <1>r DEF RecordFails
<1>15. CASE Release(a)
  BY <1>15, <1>0, <1>r DEF Release
<1>16. CASE ReleaseFails(a)
  BY <1>16, <1>0, <1>r DEF ReleaseFails
<1> QED
  BY <1>1, <1>2, <1>3, <1>4, <1>5, <1>6, <1>7, <1>8, <1>9, <1>10, <1>11, <1>12, <1>13, <1>14,
     <1>15, <1>16 DEF Step

\* Every step of an attempt, the sweeper, the operator or the clock keeps
\* the types.
LEMMA TypeNext == TypeOK /\ [Next]_vars => TypeOK'
<1> SUFFICES ASSUME TypeOK, [Next]_vars PROVE TypeOK' OBVIOUS
<1> USE DEF request, history, started
<1>1. CASE \E a \in Attempts : Step(a)
  BY <1>1, TypeStep
<1>2. CASE \E k \in Keys : Reconcile(k)
  BY <1>2 DEF Reconcile, Write, TypeOK
<1>3. CASE Sweep
  BY <1>3 DEF Sweep, TypeOK
<1>4. CASE Tick
  <2>1. clock' \in Times BY <1>4, ConstantsOK DEF Tick, TypeOK, Times
  <2> QED BY <1>4, <2>1 DEF Tick, TypeOK
<1>5. CASE UNCHANGED vars
  BY <1>5 DEF vars, TypeOK
<1> QED BY <1>1, <1>2, <1>3, <1>4, <1>5 DEF Next

\* Type correctness of the store model: rows, results and histories keep
\* their shape through every step of Wrap, the backends and the sweeper.
THEOREM TypeCorrect == Spec => []TypeOK
BY TypeInit, TypeNext, PTL DEF Spec

-----------------------------------------------------------------------------
(* The inductive invariant behind AtMostOnce.                              *)

\* An attempt that has not reached its handler has no history, one inside
\* its handler no effect yet, and a release never follows an effect.
HistoryOK ==
  \A a \in Attempts :
    /\ pc[a] \in {"idle", "get", "put", "reclaim"} => a \notin ran
    /\ pc[a] = "reread" /\ Claiming => a \notin ran
    /\ pc[a] \in {"idle", "get", "put", "reclaim", "handler", "release"} => a \notin effected
    /\ a \in effected => a \in ran
    /\ pc[a] = "handler" => a \in ran

\* What a reclaim will replace is a retryable marker.
SeenOK == \A a \in Attempts : pc[a] = "reclaim" => seen[a] \in Entry /\ seen[a].kind = "retryable"

\* The protection of key[a] that a claim backend gives, operators aside.
Guarded(a) == Claiming /\ key[a] \notin removed

\* An attempt past its claim and short of finalising it still owns the row.
ClaimHeld ==
  \A a \in Attempts : (Guarded(a) /\ pc[a] \in Holding) => store[key[a]] = Claim(a)

\* An effect is shielded by its claim, then by its recorded response, until
\* its window is over.
EffectShielded ==
  \A a \in effected : Guarded(a) =>
    store[key[a]] = Claim(a) \/ store[key[a]] = Final(a) \/ clock > WindowEnd(a)

\* When a handler was started inside the window of an earlier one, the
\* earlier had failed and cannot take effect any more.
EarlyHarmless ==
  \A a, b \in Attempts : <<a, b>> \in early =>
    /\ key[a] = key[b] /\ b \in ran /\ a \in ran
    /\ Guarded(b) => b \notin effected /\ pc[b] # "handler"

IInv == TypeOK /\ HistoryOK /\ SeenOK /\ ClaimHeld /\ EffectShielded /\ EarlyHarmless

\* The invariant holds before the first call of Wrap.
LEMMA IInvInit == Init => IInv
BY TypeInit DEF Init, IInv, HistoryOK, SeenOK, ClaimHeld, EffectShielded, EarlyHarmless, Holding

\* The three entries an attempt writes differ from those of any other.
LEMMA EntriesDiffer ==
  ASSUME NEW a \in Attempts, NEW b \in Attempts
  PROVE  /\ Claim(a) # Final(b) /\ Marker(a) # Claim(b) /\ Marker(a) # Final(b)
         /\ a # b => Claim(a) # Claim(b) /\ Final(a) # Final(b)
         /\ Claim(a).kind = "claim" /\ Final(a).kind = "final"
BY DEF Claim, Final, Marker

\* A step of an attempt outside its handler that writes no row and starts
\* nothing: it only moves its program counter out of the handler's reach.
LEMMA QuietStep ==
  ASSUME IInv, TypeOK', NEW a \in Attempts,
         pc[a] \notin {"idle", "handler", "record", "release"},
         \E l \in {"put", "reread", "reclaim", "reget", "done"} :
           /\ pc' = [pc EXCEPT ![a] = l]
           /\ l \in {"put", "reclaim", "reread"} => a \notin ran
           /\ l = "reclaim" => seen'[a] \in Entry /\ seen'[a].kind = "retryable",
         \A b \in Attempts : b # a => seen'[b] = seen[b],
         UNCHANGED <<backend, clock, store, key, hash, now, ran, effected, early, removed>>
  PROVE  IInv'
<1> USE DEF IInv, TypeOK, Claiming, Guarded, WindowEnd, Claim, Final
<1>1. HistoryOK' BY DEF HistoryOK
<1>2. SeenOK' BY DEF SeenOK
<1>3. ClaimHeld' BY DEF ClaimHeld, Holding
<1>4. EffectShielded' BY DEF EffectShielded
<1>5. EarlyHarmless' BY DEF EarlyHarmless
<1> QED BY <1>1, <1>2, <1>3, <1>4, <1>5

\* Taking the claim, over no row or over a retryable marker, and starting
\* the handler: no other attempt of the key is inside its handler, and every
\* effect under the key is past its window.
LEMMA StartStep ==
  ASSUME IInv, TypeOK', NEW a \in Attempts,
         pc[a] \in {"put", "reclaim"},
         store[key[a]] = NoEntry \/ store[key[a]].kind = "retryable",
         Write(key[a], Claim(a)), StartHandler(a),
         UNCHANGED <<backend, clock, key, hash, now, effected, removed>>,
         \A b \in Attempts : b # a => seen'[b] = seen[b]
  PROVE  IInv'
<1> USE DEF IInv, TypeOK, Guarded, Write, StartHandler, Goto
<1>c. \A b \in Attempts : Claim(b)' = Claim(b) /\ Final(b)' = Final(b) /\ WindowEnd(b)' = WindowEnd(b)
  BY DEF Claim, Final, WindowEnd
<1>e. \A b \in Attempts : Claim(b).kind = "claim" /\ Final(b).kind = "final" /\ Claim(b) # NoEntry /\ Final(b) # NoEntry
  BY WritesTyped, EntriesDiffer, ConstantsOK
<1>1. HistoryOK' BY DEF HistoryOK, Claiming
<1>2. SeenOK' BY DEF SeenOK
<1>3. \A b \in Attempts : Guarded(b) /\ key[b] = key[a] => pc[b] \notin Holding
  BY <1>e DEF ClaimHeld
<1>4. \A b \in effected : Guarded(b) /\ key[b] = key[a] => clock > WindowEnd(b)
  BY <1>e DEF EffectShielded
<1>5. ClaimHeld' BY <1>c, <1>3 DEF ClaimHeld, Claiming
<1>6. EffectShielded' BY <1>c, <1>4 DEF EffectShielded, Claiming
<1>7. EarlyHarmless'
  <2> SUFFICES ASSUME NEW x \in Attempts, NEW y \in Attempts, <<x, y>> \in early'
               PROVE  /\ key[x] = key[y] /\ y \in ran' /\ x \in ran'
                      /\ Guarded(y)' => y \notin effected /\ pc'[y] # "handler"
    BY DEF EarlyHarmless
  <2>1. a \notin ran BY DEF HistoryOK
  <2>2. CASE <<x, y>> \in early BY <2>1, <2>2 DEF EarlyHarmless, Claiming
  <2>3. CASE <<x, y>> \notin early
    <3>1. x = a /\ y \in ran /\ key[y] = key[a] /\ clock <= WindowEnd(y) BY <2>3
    <3>2. y # a /\ pc'[y] = pc[y] BY <2>1, <3>1
    <3>3. Guarded(y)' => Guarded(y) BY DEF Claiming
    <3>4. WindowEnd(y) \in Nat /\ clock \in Nat BY ConstantsOK DEF WindowEnd, Times
    <3>5. Guarded(y) => y \notin effected BY <1>4, <3>1, <3>4
    <3>6. Guarded(y) => pc[y] # "handler" BY <1>3, <3>1 DEF Holding
    <3> QED BY <3>1, <3>2, <3>3, <3>5, <3>6
  <2> QED BY <2>2, <2>3
<1> QED BY <1>1, <1>2, <1>5, <1>6, <1>7

\* An attempt leaves its handler, or finalises, writing at most its own row:
\* its claim becomes its response, or (never after an effect) its marker.
LEMMA OwnStep ==
  ASSUME IInv, TypeOK', NEW a \in Attempts,
         pc[a] \in Holding,
         \E l \in {"record", "release", "done", "reread"} :
           /\ pc' = [pc EXCEPT ![a] = l]
           /\ l = "record" => pc[a] = "handler" /\ UNCHANGED store
           /\ l = "release" => pc[a] = "handler" /\ effected' = effected /\ UNCHANGED store
           /\ l = "reread" => ~Claiming,
         \/ UNCHANGED store
         \/ ~Claiming /\ \E k \in Keys, e \in Entry : Write(k, e)
         \/ HashMatches(key[a], Claim(a)) /\ Write(key[a], Final(a))
         \/ HashMatches(key[a], Claim(a)) /\ Write(key[a], Marker(a)) /\ pc[a] = "release",
         effected' = effected \/ (pc[a] = "handler" /\ UNCHANGED store /\ effected' = effected \cup {a}),
         UNCHANGED <<backend, clock, key, hash, now, seen, ran, early, removed>>
  PROVE  IInv'
<1> USE DEF IInv, TypeOK, Guarded, Write
<1>c. \A b \in Attempts : Claim(b)' = Claim(b) /\ Final(b)' = Final(b) /\ WindowEnd(b)' = WindowEnd(b)
  BY DEF Claim, Final, WindowEnd
<1>d. Claiming' = Claiming BY DEF Claiming
<1>1. HistoryOK' BY <1>d DEF HistoryOK, Holding
<1>2. SeenOK' BY DEF SeenOK
<1>3. HashMatches(key[a], Claim(a)) =>
        \A b \in Attempts : (b # a /\ key[b] = key[a]) =>
          store[key[b]] # Claim(b) /\ store[key[b]] # Final(b)
  BY DEF HashMatches, Claim, Final
<1>4. ClaimHeld' BY <1>c, <1>d, <1>3 DEF ClaimHeld, Holding
<1>5. EffectShielded'
  <2> SUFFICES ASSUME NEW b \in effected', Guarded(b)'
               PROVE  store'[key[b]] = Claim(b) \/ store'[key[b]] = Final(b) \/ clock > WindowEnd(b)
    BY <1>c DEF EffectShielded
  <2>1. Guarded(b) BY <1>d
  <2>2. CASE b = a
    <3>1. CASE pc[a] = "handler" BY <2>1, <2>2, <3>1 DEF ClaimHeld, Holding, HashMatches
    <3>2. CASE pc[a] # "handler" BY <2>1, <2>2, <3>2 DEF EffectShielded, HistoryOK
    <3> QED BY <3>1, <3>2
  <2>3. CASE b # a BY <1>3, <2>1, <2>3 DEF EffectShielded
  <2> QED BY <2>2, <2>3
<1>6. EarlyHarmless' BY <1>d DEF EarlyHarmless
<1> QED BY <1>1, <1>2, <1>4, <1>5, <1>6

\* An ambiguous failure while claiming: the caller is gone, the claim may be
\* there, and the handler was not started.
LEMMA LostClaimStep ==
  ASSUME IInv, TypeOK', NEW a \in Attempts,
         pc[a] \in {"put", "reclaim"},
         pc' = [pc EXCEPT ![a] = "done"],
         \/ UNCHANGED store
         \/ /\ store[key[a]] = NoEntry \/ store[key[a]].kind = "retryable"
            /\ Write(key[a], Claim(a)),
         UNCHANGED <<backend, clock, key, hash, now, ran, effected, early, removed>>,
         \A b \in Attempts : b # a => seen'[b] = seen[b]
  PROVE  IInv'
<1> USE DEF IInv, TypeOK, Guarded, Write, Claiming
<1>c. \A b \in Attempts : Claim(b)' = Claim(b) /\ Final(b)' = Final(b) /\ WindowEnd(b)' = WindowEnd(b)
  BY DEF Claim, Final, WindowEnd
<1>e. \A b \in Attempts : Claim(b).kind = "claim" /\ Final(b).kind = "final" /\ Claim(b) # NoEntry /\ Final(b) # NoEntry
  BY WritesTyped, EntriesDiffer, ConstantsOK
<1>1. HistoryOK' BY DEF HistoryOK
<1>2. SeenOK' BY DEF SeenOK
<1>3. ClaimHeld' BY <1>c, <1>e DEF ClaimHeld, Holding
<1>4. EffectShielded' BY <1>c, <1>e DEF EffectShielded
<1>5. EarlyHarmless' BY DEF EarlyHarmless
<1> QED BY <1>1, <1>2, <1>3, <1>4, <1>5

\* With a custom backend the handler is started on a miss, unfenced.
LEMMA UnfencedStart ==
  ASSUME IInv, TypeOK', NEW a \in Attempts, ~Claiming, pc[a] = "get", StartHandler(a),
         UNCHANGED <<backend, clock, store, key, hash, now, seen, effected, removed>>
  PROVE  IInv'
<1> USE DEF IInv, TypeOK, Guarded, StartHandler, Goto, Claiming
<1>1. HistoryOK' BY DEF HistoryOK
<1>2. SeenOK' BY DEF SeenOK
<1>3. ClaimHeld' /\ EffectShielded' BY DEF ClaimHeld, EffectShielded
<1>4. EarlyHarmless' BY DEF EarlyHarmless
<1> QED BY <1>1, <1>2, <1>3, <1>4

\* One action of one attempt keeps the invariant: each action of Wrap and
\* runClaimed is one of the five kinds of step above.
LEMMA IInvStep ==
  ASSUME IInv, NEW a \in Attempts, Step(a)
  PROVE  IInv'
<1>t. TypeOK' BY TypeStep DEF IInv
<1>h. /\ pc[a] \in {"idle", "get", "put", "reclaim"} => a \notin ran
      /\ pc[a] = "reread" /\ Claiming => a \notin ran
  BY DEF IInv, HistoryOK
<1>k. TypeOK BY DEF IInv
<1>n. NoEntry \notin Entry BY ConstantsOK
<1>w. Claim(a) \in Entry /\ Final(a) \in Entry /\ Marker(a) \in Entry BY <1>k, WritesTyped
<1> USE <1>t DEF request, history, started
<1>1. CASE Refuse(a) \/ RunUncached(a) \/ \E k \in Keys, h \in Payloads : Begin(a, k, h)
  <2>1. /\ pc[a] = "idle" /\ a \notin ran /\ a \notin effected
        /\ \E l \in {"get", "done"} : pc' = [pc EXCEPT ![a] = l]
        /\ \A b \in Attempts : b # a => key'[b] = key[b] /\ hash'[b] = hash[b] /\ now'[b] = now[b]
        /\ UNCHANGED <<backend, clock, store, seen, ran, effected, early, removed>>
    BY <1>1, <1>h, <1>k DEF IInv, HistoryOK, TypeOK, Refuse, RunUncached, Begin, Goto, Finish
  <2> USE <2>1 DEF IInv, TypeOK, Guarded, Claiming
  <2>2. \A b \in Attempts : b # a =>
          Claim(b)' = Claim(b) /\ Final(b)' = Final(b) /\ WindowEnd(b)' = WindowEnd(b)
    BY DEF Claim, Final, WindowEnd
  <2>3. HistoryOK' BY DEF HistoryOK
  <2>4. SeenOK' BY DEF SeenOK
  <2>5. ClaimHeld' BY <2>2 DEF ClaimHeld, Holding
  <2>6. EffectShielded' BY <2>2 DEF EffectShielded
  <2>7. EarlyHarmless' BY DEF EarlyHarmless
  <2> QED BY <2>3, <2>4, <2>5, <2>6, <2>7
<1>2. ASSUME NEW e \in Entry, Resolve(a, e), pc[a] \in {"get", "put", "reread"},
             UNCHANGED <<backend, clock, store, key, hash, now, ran, effected, early, removed>>
      PROVE  IInv'
  <2>1. \/ pc' = [pc EXCEPT ![a] = "done"]
        \/ /\ pc' = [pc EXCEPT ![a] = "reclaim"] /\ Claiming /\ a \notin ran
           /\ seen'[a] = e /\ e.kind = "retryable"
    BY <1>2, <1>h, <1>k DEF Resolve, Goto, Finish, reclaimable, TypeOK
  <2>2. \A b \in Attempts : b # a => seen'[b] = seen[b]
    BY <1>2, <1>k DEF Resolve, TypeOK
  <2> QED BY <1>2, <2>1, <2>2, QuietStep
<1>3. CASE Get(a)
  <2>1. CASE store[key[a]] = NoEntry /\ Claiming
    BY <1>3, <2>1, <1>h, QuietStep DEF Get, Goto
  <2>2. CASE store[key[a]] = NoEntry /\ ~Claiming
    BY <1>3, <2>2, UnfencedStart DEF Get
  <2>3. CASE store[key[a]] # NoEntry
    BY <1>3, <2>3, <1>2, <1>k DEF Get, TypeOK
  <2> QED BY <2>1, <2>2, <2>3
<1>4. CASE GetFails(a) \/ Reget(a)
  BY <1>4, QuietStep DEF GetFails, Reget, Goto, Finish
<1>5. CASE PutClaim(a)
  <2>1. CASE store[key[a]] = NoEntry
    BY <1>5, <2>1, StartStep DEF PutClaim
  <2>2. CASE store[key[a]] # NoEntry /\ backend = "memory"
    BY <1>5, <2>2, <1>2, <1>k DEF PutClaim, TypeOK
  <2>3. CASE store[key[a]] # NoEntry /\ backend # "memory"
    BY <1>5, <2>3, <1>h, QuietStep DEF PutClaim, Goto
  <2> QED BY <2>1, <2>2, <2>3
<1>6. CASE PutClaimFails(a)
  BY <1>6, LostClaimStep DEF PutClaimFails, Goto, Finish
<1>7. CASE Reread(a)
  <2>1. CASE store[key[a]] = NoEntry
    BY <1>7, <2>1, QuietStep DEF Reread, Goto, Finish
  <2>2. CASE store[key[a]] # NoEntry
    BY <1>7, <2>2, <1>2, <1>k DEF Reread, TypeOK
  <2> QED BY <2>1, <2>2
<1>8. CASE Reclaim(a)
  <2>0. /\ \A b \in Attempts : b # a => seen'[b] = seen[b]
        /\ seen[a].kind = "retryable"
    BY <1>8, <1>k DEF Reclaim, Forget, TypeOK, IInv, SeenOK
  <2>1. CASE HashMatches(key[a], seen[a])
    BY <1>8, <2>0, <2>1, StartStep DEF Reclaim, HashMatches
  <2>2. CASE ~HashMatches(key[a], seen[a])
    BY <1>8, <2>0, <2>2, QuietStep DEF Reclaim, Goto
  <2> QED BY <2>1, <2>2
<1>9. CASE ReclaimFails(a)
  <2>0. /\ \A b \in Attempts : b # a => seen'[b] = seen[b]
        /\ seen[a].kind = "retryable"
    BY <1>9, <1>k DEF ReclaimFails, Forget, TypeOK, IInv, SeenOK
  <2> QED BY <1>9, <2>0, LostClaimStep DEF ReclaimFails, HashMatches, Goto, Finish
<1>10. CASE HandlerReturns(a) \/ HandlerFails(a) \/ HandlerUnknown(a) \/ Crash(a)
  BY <1>10, OwnStep DEF HandlerReturns, HandlerFails, HandlerUnknown, Crash, Goto, Finish, Holding
<1>11. CASE Record(a)
  <2>1. \/ UNCHANGED store
        \/ ~Claiming /\ \E k \in Keys, e \in Entry : Write(k, e)
        \/ HashMatches(key[a], Claim(a)) /\ Write(key[a], Final(a))
    BY <1>11, <1>w, <1>k DEF Record, TypeOK
  <2>2. /\ pc[a] \in Holding /\ effected' = effected
        /\ \E l \in {"done", "reread"} : pc' = [pc EXCEPT ![a] = l] /\ (l = "reread" => ~Claiming)
        /\ UNCHANGED <<backend, clock, key, hash, now, seen, ran, early, removed>>
    BY <1>11 DEF Record, Goto, Finish, Holding
  <2> QED BY <2>1, <2>2, OwnStep
<1>12. CASE RecordFails(a)
  <2>1. \/ UNCHANGED store
        \/ ~Claiming /\ \E k \in Keys, e \in Entry : Write(k, e)
        \/ HashMatches(key[a], Claim(a)) /\ Write(key[a], Final(a))
    BY <1>12, <1>w, <1>k DEF RecordFails, TypeOK
  <2>2. /\ pc[a] \in Holding /\ pc' = [pc EXCEPT ![a] = "done"] /\ effected' = effected
        /\ UNCHANGED <<backend, clock, key, hash, now, seen, ran, early, removed>>
    BY <1>12 DEF RecordFails, Goto, Finish, Holding
  <2> QED BY <2>1, <2>2, OwnStep
<1>13. CASE Release(a) \/ ReleaseFails(a)
  BY <1>13, OwnStep DEF Release, ReleaseFails, Goto, Finish, Holding
<1> QED
  BY <1>1, <1>3, <1>4, <1>5, <1>6, <1>7, <1>8, <1>9, <1>10, <1>11, <1>12, <1>13 DEF Step

\* So do the operator, the sweeper, whose grace covers the clock skew, and
\* the clock.
LEMMA IInvNext == IInv /\ [Next]_vars => IInv'
<1> SUFFICES ASSUME IInv, [Next]_vars PROVE IInv' OBVIOUS
<1>t. TypeOK /\ TypeOK' BY TypeNext DEF IInv
<1> USE DEF request, history, started, Guarded, Claiming
<1>1. CASE \E a \in Attempts : Step(a)
  BY <1>1, IInvStep
<1>2. CASE \E k \in Keys : Reconcile(k)
  <2> PICK k \in Keys : Reconcile(k) BY <1>2
  <2> USE DEF Reconcile, Write
  <2>c. \A b \in Attempts : Claim(b)' = Claim(b) /\ Final(b)' = Final(b) /\ WindowEnd(b)' = WindowEnd(b)
    BY DEF Claim, Final, WindowEnd
  <2>1. HistoryOK' /\ SeenOK' BY DEF IInv, HistoryOK, SeenOK
  <2>2. ClaimHeld' BY <1>t, <2>c DEF IInv, ClaimHeld, TypeOK
  <2>3. EffectShielded' BY <1>t, <2>c DEF IInv, EffectShielded, TypeOK
  <2>4. EarlyHarmless' BY DEF IInv, EarlyHarmless
  <2> QED BY <1>t, <2>1, <2>2, <2>3, <2>4 DEF IInv
<1>3. CASE Sweep
  <2> USE <1>3 DEF Sweep, Sweepable
  <2>c. \A b \in Attempts : Claim(b)' = Claim(b) /\ Final(b)' = Final(b) /\ WindowEnd(b)' = WindowEnd(b)
    BY DEF Claim, Final, WindowEnd
  <2>1. HistoryOK' /\ SeenOK' BY DEF IInv, HistoryOK, SeenOK
  <2>2. ClaimHeld' BY <1>t, <2>c, EntriesDiffer DEF IInv, ClaimHeld, TypeOK
  <2>3. \A b \in Attempts : clock > Final(b).exp + Grace => clock > WindowEnd(b)
    BY <1>t, ConstantsOK DEF Final, WindowEnd, TypeOK, Times
  <2>4. EffectShielded' BY <1>t, <2>c, <2>3, EntriesDiffer DEF IInv, EffectShielded, TypeOK
  <2>5. EarlyHarmless' BY DEF IInv, EarlyHarmless
  <2> QED BY <1>t, <2>1, <2>2, <2>4, <2>5 DEF IInv
<1>4. CASE Tick
  <2> USE <1>4 DEF Tick
  <2>c. \A b \in Attempts : Claim(b)' = Claim(b) /\ Final(b)' = Final(b) /\ WindowEnd(b)' = WindowEnd(b)
    BY DEF Claim, Final, WindowEnd
  <2>1. HistoryOK' /\ SeenOK' /\ ClaimHeld' /\ EarlyHarmless'
    BY <2>c DEF IInv, HistoryOK, SeenOK, ClaimHeld, EarlyHarmless
  <2>2. \A b \in Attempts : clock > WindowEnd(b) => clock' > WindowEnd(b)
    BY <1>t, ConstantsOK DEF WindowEnd, TypeOK, Times
  <2>3. EffectShielded' BY <1>t, <2>c, <2>2 DEF IInv, EffectShielded, TypeOK
  <2> QED BY <1>t, <2>1, <2>3 DEF IInv
<1>5. CASE UNCHANGED vars
  <2> USE <1>5 DEF vars
  <2>c. \A b \in Attempts : Claim(b)' = Claim(b) /\ Final(b)' = Final(b) /\ WindowEnd(b)' = WindowEnd(b)
    BY DEF Claim, Final, WindowEnd
  <2>1. HistoryOK' /\ SeenOK' /\ ClaimHeld' /\ EarlyHarmless'
    BY <2>c DEF IInv, HistoryOK, SeenOK, ClaimHeld, EarlyHarmless
  <2>3. EffectShielded' BY <1>t, <2>c DEF IInv, EffectShielded, TypeOK
  <2> QED BY <1>t, <2>1, <2>3 DEF IInv
<1> QED BY <1>1, <1>2, <1>3, <1>4, <1>5 DEF Next

\* For every number of callers, keys and payloads and every window: two
\* handlers of one key that both take effect are at least a replay window
\* apart, through crashes, ambiguous database errors, retries after failure
\* and sweeps, unless an operator deletes a claim.
THEOREM ExecutesAtMostOnce == Spec => []AtMostOnce
<1>1. IInv => AtMostOnce
  BY DEF IInv, TypeOK, EarlyHarmless, AtMostOnce, Guarded
<1> QED BY <1>1, IInvInit, IInvNext, PTL DEF Spec

-----------------------------------------------------------------------------
(* The rows of the backend.                                                *)

\* A reclaim replaces a marker of the caller's own payload.
SeenMine ==
  \A a \in Attempts : pc[a] = "reclaim" =>
    seen[a] \in Entry /\ seen[a].kind = "retryable" /\ seen[a].hash = hash[a]

\* How an attempt may change its row: fill an empty one, replace a marker of
\* its payload, or replace the claim it wrote, always for its own payload.
RowStep(a) ==
  LET old == store[key[a]] IN
  \E e \in Entry :
    /\ e.hash = hash[a]
    /\ store' = [store EXCEPT ![key[a]] = e]
    /\ \/ old = NoEntry
       \/ old.kind = "retryable" /\ old.hash = hash[a]
       \/ old.kind = "claim" /\ old.hash = hash[a] /\ old.tok = a /\ pc'[a] # pc[a]

\* Every action of Wrap and runClaimed writes no row or its own row so.
LEMMA RowSteps ==
  ASSUME TypeOK, SeenMine, NEW a \in Attempts, Step(a)
  PROVE  /\ UNCHANGED store \/ RowStep(a)
         /\ UNCHANGED removed
<1>w. /\ Claim(a) \in Entry /\ Final(a) \in Entry /\ Marker(a) \in Entry
      /\ Claim(a).hash = hash[a] /\ Final(a).hash = hash[a] /\ Marker(a).hash = hash[a]
      /\ Claim(a).kind = "claim" /\ Claim(a).tok = a
  BY WritesTyped DEF Claim, Final, Marker
<1> USE DEF request, history, started, Write, TypeOK
<1>1. CASE Refuse(a) \/ RunUncached(a) \/ \E k \in Keys, h \in Payloads : Begin(a, k, h)
  BY <1>1 DEF Refuse, RunUncached, Begin
<1>2. CASE Get(a) \/ GetFails(a) \/ Reread(a) \/ Reget(a)
  BY <1>2 DEF Get, GetFails, Reread, Reget
<1>3. CASE PutClaim(a) \/ PutClaimFails(a)
  BY <1>3, <1>w DEF PutClaim, PutClaimFails, RowStep
<1>4. CASE Reclaim(a) \/ ReclaimFails(a)
  <2>1. UNCHANGED removed /\ pc[a] = "reclaim"
    BY <1>4 DEF Reclaim, ReclaimFails
  <2>2. UNCHANGED store \/ (HashMatches(key[a], seen[a]) /\ store' = [store EXCEPT ![key[a]] = Claim(a)])
    BY <1>4 DEF Reclaim, ReclaimFails
  <2>3. HashMatches(key[a], seen[a]) => store[key[a]].kind = "retryable" /\ store[key[a]].hash = hash[a]
    BY <2>1 DEF HashMatches, SeenMine
  <2> QED BY <2>1, <2>2, <2>3, <1>w DEF RowStep
<1>5. CASE HandlerReturns(a) \/ HandlerFails(a) \/ HandlerUnknown(a) \/ Crash(a)
  BY <1>5 DEF HandlerReturns, HandlerFails, HandlerUnknown, Crash
<1>6. CASE Record(a) \/ RecordFails(a) \/ Release(a) \/ ReleaseFails(a)
  <2>1. /\ UNCHANGED removed
        /\ UNCHANGED store \/ \E e \in {Final(a), Marker(a)} :
             /\ store' = [store EXCEPT ![key[a]] = e]
             /\ store[key[a]] = NoEntry \/ (HashMatches(key[a], Claim(a)) /\ pc'[a] # pc[a])
    BY <1>6 DEF Record, RecordFails, Release, ReleaseFails, Goto, Finish
  <2>2. HashMatches(key[a], Claim(a)) =>
          store[key[a]].kind = "claim" /\ store[key[a]].hash = hash[a] /\ store[key[a]].tok = a
    BY <1>w DEF HashMatches
  <2> QED BY <2>1, <2>2, <1>w DEF RowStep
<1> QED BY <1>1, <1>2, <1>3, <1>4, <1>5, <1>6 DEF Step

\* What an attempt read before it reclaims stays a marker of its payload: only
\* Resolve goes to reclaim, and a started attempt's payload never changes.
LEMMA SeenMineNext == TypeOK /\ SeenMine /\ [Next]_vars => SeenMine'
<1> SUFFICES ASSUME TypeOK, SeenMine, [Next]_vars PROVE SeenMine' OBVIOUS
<1> USE DEF request, history, started, TypeOK, SeenMine
<1>1. ASSUME NEW a \in Attempts, Step(a) PROVE SeenMine'
  <2> USE <1>1 DEF Goto, Finish, Forget
  <2>1. CASE Refuse(a) \/ RunUncached(a) \/ \E k \in Keys, h \in Payloads : Begin(a, k, h)
    BY <2>1 DEF Refuse, RunUncached, Begin
  <2>2. CASE Get(a)
    BY <2>2, ConstantsOK DEF Get, Resolve, reclaimable, StartHandler
  <2>3. CASE PutClaim(a)
    BY <2>3, ConstantsOK DEF PutClaim, Resolve, reclaimable, StartHandler
  <2>4. CASE Reread(a)
    BY <2>4, ConstantsOK DEF Reread, Resolve, reclaimable
  <2>5. CASE GetFails(a) \/ PutClaimFails(a) \/ Reget(a)
    BY <2>5 DEF GetFails, PutClaimFails, Reget
  <2>6. CASE Reclaim(a) \/ ReclaimFails(a)
    BY <2>6 DEF Reclaim, ReclaimFails, StartHandler
  <2>7. CASE HandlerReturns(a) \/ HandlerFails(a) \/ HandlerUnknown(a) \/ Crash(a)
    BY <2>7 DEF HandlerReturns, HandlerFails, HandlerUnknown, Crash
  <2>8. CASE Record(a) \/ RecordFails(a) \/ Release(a) \/ ReleaseFails(a)
    BY <2>8 DEF Record, RecordFails, Release, ReleaseFails
  <2> QED BY <2>1, <2>2, <2>3, <2>4, <2>5, <2>6, <2>7, <2>8 DEF Step
<1>2. CASE \E k \in Keys : Reconcile(k) BY <1>2 DEF Reconcile
<1>3. CASE Sweep \/ Tick BY <1>3 DEF Sweep, Tick
<1>4. CASE UNCHANGED vars BY <1>4 DEF vars
<1> QED BY <1>1, <1>2, <1>3, <1>4 DEF Next

\* A claim is replaced by the attempt that wrote it, or deleted by an
\* operator, and by no one else.
Fenced ==
  \A k \in Keys :
    (store[k] # NoEntry /\ store[k].kind = "claim" /\ store'[k] # store[k]) =>
      \/ store'[k] = NoEntry /\ k \in removed'
      \/ pc'[store[k].tok] # pc[store[k].tok]

\* A key leaves its payload only by an operator or after the row's window.
Bound ==
  \A k \in Keys :
    (store[k] # NoEntry /\ (store'[k] = NoEntry \/ store'[k].hash # store[k].hash)) =>
      \/ store[k].kind = "claim" /\ k \in removed'
      \/ store[k].kind # "claim" /\ clock > store[k].exp + ClockSkew

\* Both hold of every step.
LEMMA RowsNext == TypeOK /\ SeenMine /\ [Next]_vars => Fenced /\ Bound
<1> SUFFICES ASSUME TypeOK, SeenMine, [Next]_vars PROVE Fenced /\ Bound OBVIOUS
<1> USE DEF request, history, started
<1>1. ASSUME NEW a \in Attempts, Step(a) PROVE Fenced /\ Bound
  <2>1. CASE UNCHANGED store
    BY <2>1 DEF Fenced, Bound
  <2>2. CASE RowStep(a)
    BY <2>2, ConstantsOK DEF RowStep, Fenced, Bound, TypeOK
  <2> QED BY <1>1, <2>1, <2>2, RowSteps
<1>2. CASE \E k \in Keys : Reconcile(k)
  BY <1>2 DEF Reconcile, Write, Fenced, Bound, TypeOK
<1>3. CASE Sweep
  <2>1. \A e \in Entry : clock > e.exp + Grace => clock > e.exp + ClockSkew
    BY ConstantsOK DEF TypeOK, Times, Entry
  <2> QED BY <1>3, <2>1 DEF Sweep, Sweepable, Fenced, Bound, TypeOK
<1>4. CASE Tick \/ UNCHANGED vars
  BY <1>4 DEF Tick, vars, Fenced, Bound
<1> QED BY <1>1, <1>2, <1>3, <1>4 DEF Next

\* For every number of callers and every backend: a claim is replaced only by
\* the attempt that drew its token, however late that attempt comes back, or
\* by an operator.
THEOREM ClaimsAreFenced == Spec => ClaimsFenced
<1>1. Init => TypeOK /\ SeenMine BY TypeInit DEF Init, SeenMine
<1>2. TypeOK /\ SeenMine /\ [Next]_vars => (TypeOK /\ SeenMine)' BY TypeNext, SeenMineNext
<1>3. TypeOK /\ SeenMine /\ [Next]_vars => [Fenced]_vars BY RowsNext
<1> QED BY <1>1, <1>2, <1>3, PTL DEF Spec, ClaimsFenced, Fenced

\* For every window, skew and grace that New accepts: a key stays bound to
\* its payload until the row's window is over, whoever retries, reclaims or
\* sweeps, unless an operator deletes a claim.
THEOREM KeysStayBound == Spec => BindingLasts
<1>1. Init => TypeOK /\ SeenMine BY TypeInit DEF Init, SeenMine
<1>2. TypeOK /\ SeenMine /\ [Next]_vars => (TypeOK /\ SeenMine)' BY TypeNext, SeenMineNext
<1>3. TypeOK /\ SeenMine /\ [Next]_vars => [Bound]_vars BY RowsNext
<1> QED BY <1>1, <1>2, <1>3, PTL DEF Spec, BindingLasts, Bound

-----------------------------------------------------------------------------
(* What callers are told.                                                  *)

Success(r) == r.kind \in {"fresh", "replayed"}

\* A recorded response is of a handler that took effect for the row's key and
\* payload, and is kept for that request's window.
FinalOK ==
  \A k \in Keys : (store[k] # NoEntry /\ store[k].kind = "final") =>
    LET r == store[k].tok IN r \in effected /\ key[r] = k /\ store[k] = Final(r)

\* An attempt records, or re-reads after its own record failed, only what its
\* handler did, has answered nothing before it is done, and writes claims
\* and markers only to a claim backend.
ProgressOK ==
  \A a \in Attempts :
    /\ pc[a] = "record" => a \in effected
    /\ pc[a] = "reread" /\ ~Claiming => a \in effected
    /\ pc[a] # "done" => res[a].kind = "none" /\ res[a].errs = {}
    /\ pc[a] \in {"put", "reclaim", "reget", "release"} => Claiming

\* The window of some execution under key k is over.
Over(k) == \E c \in effected : key[c] = k /\ clock > WindowEnd(c)

\* What was answered stays recorded until a window of the key is over; so does
\* the response that beat an attempt to the row of a custom backend, whose
\* rows are all responses.
Kept ==
  /\ \A a \in Attempts : (Success(res[a]) /\ key[a] \notin removed) =>
       \/ store[key[a]] # NoEntry /\ store[key[a]].kind = "final" /\ store[key[a]].tok = res[a].of
       \/ Over(key[a])
  /\ \A a \in Attempts : (pc[a] = "reread" /\ ~Claiming /\ key[a] \notin removed) =>
       store[key[a]] # NoEntry \/ Over(key[a])
  /\ ~Claiming => \A k \in Keys : store[k] # NoEntry => store[k].kind = "final"

FInv == FinalOK /\ ProgressOK /\ AnswerFidelity /\ Kept

\* How an attempt may answer: with an error, with its own effect, or with the
\* response in the row of its key.
AnswerStep(a) ==
  \/ UNCHANGED res /\ pc'[a] # "done"
  \/ \E r \in Result :
       /\ res' = [res EXCEPT ![a] = r] /\ pc'[a] = "done"
       /\ \/ r.kind \in {"error", "uncached"}
          \/ r = Fresh(a) /\ a \in effected
          \/ store[key[a]] # NoEntry /\ r = evaluateExisting(a, store[key[a]])

\* What an attempt may write: a claim, a marker, or the response of its own
\* effect; over a response it writes nothing.
WriteStep(a) ==
  \/ UNCHANGED store
  \/ \E e \in Entry :
       /\ store' = [store EXCEPT ![key[a]] = e]
       /\ store[key[a]] = NoEntry \/ store[key[a]].kind # "final"
       /\ \/ e.kind # "final" /\ Claiming
          \/ e = Final(a) /\ a \in effected

\* A step of attempt a after Begin.
Moves(a) ==
  /\ pc[a] # "idle" /\ pc[a] # "done"
  /\ \E l \in PcValues : pc' = [pc EXCEPT ![a] = l] /\ l # "idle"
  /\ UNCHANGED <<backend, clock, key, hash, now, removed>>
  /\ effected' = effected \/ effected' = effected \cup {a}
  /\ AnswerStep(a) /\ WriteStep(a)
  /\ pc'[a] = "record" => a \in effected'
  /\ (pc'[a] = "reread" /\ ~Claiming) => a \in effected /\ store'[key[a]] # NoEntry
  /\ pc'[a] \in {"put", "reclaim", "reget", "release"} => Claiming
  \* a success is of the row as it is now, or the row it met is gone
  /\ (res'[a] # res[a] /\ res'[a] = Fresh(a)) =>
       (store'[key[a]] = Final(a) \/ (pc[a] = "reread" /\ ~Claiming /\ store[key[a]] = NoEntry))

\* The three actions before the first backend call leave the answers alone.
LEMMA FirstSteps ==
  ASSUME IInv, FInv, NEW a \in Attempts,
         Refuse(a) \/ RunUncached(a) \/ \E k \in Keys, h \in Payloads : Begin(a, k, h)
  PROVE  FInv'
<1> USE DEF request, history, started
<1>t. TypeOK BY DEF IInv
<1>1. /\ pc[a] = "idle" /\ a \notin effected /\ res[a].kind = "none"
  BY DEF Refuse, RunUncached, Begin, IInv, HistoryOK, FInv, ProgressOK
<1>2. /\ \E l \in {"get", "done"} : pc' = [pc EXCEPT ![a] = l] /\ (l = "get" => UNCHANGED res)
      /\ UNCHANGED <<backend, clock, store, effected, removed>>
      /\ \A b \in Attempts : b # a =>
           key'[b] = key[b] /\ hash'[b] = hash[b] /\ now'[b] = now[b] /\ res'[b] = res[b]
      /\ res'[a].kind \in {"none", "error", "uncached"}
  <2>1. CASE Refuse(a)
    <3>1. Err(a, {"refused"}).kind = "error" BY DEF Err
    <3> QED BY <1>t, <2>1, <3>1 DEF Refuse, Goto, Finish, TypeOK
  <2>2. CASE RunUncached(a)
    BY <1>t, <2>2 DEF RunUncached, Goto, Finish, TypeOK
  <2>3. CASE \E k \in Keys, h \in Payloads : Begin(a, k, h)
    BY <1>t, <1>1, <2>3 DEF Begin, Goto, TypeOK
  <2> QED BY <2>1, <2>2, <2>3
<1>3. \A b \in Attempts : b \in effected =>
        b # a /\ WindowEnd(b)' = WindowEnd(b) /\ Final(b)' = Final(b)
  BY <1>1, <1>2 DEF WindowEnd, Final
<1>4. FinalOK' BY <1>t, <1>1, <1>2, <1>3 DEF FInv, FinalOK, TypeOK
<1>5. ProgressOK' BY <1>t, <1>1, <1>2 DEF FInv, ProgressOK, Claiming, TypeOK
<1>6. \A k \in Keys : Over(k) => Over(k)'
  BY <1>t, <1>2, <1>3 DEF Over, TypeOK
<1>7. AnswerFidelity'
  BY <1>t, <1>1, <1>2, <1>3 DEF FInv, AnswerFidelity, TypeOK, Result
<1>8. Kept' BY <1>t, <1>1, <1>2, <1>6 DEF FInv, Kept, Success, Claiming, TypeOK
<1> QED BY <1>4, <1>5, <1>7, <1>8 DEF FInv

\* The row a caller is answered from, when it is answered with a success.
LEMMA RowAnswers ==
  ASSUME TypeOK, FinalOK, NEW a \in Attempts, store[key[a]] # NoEntry,
         NEW r, r = evaluateExisting(a, store[key[a]]), Success(r)
  PROVE  /\ store[key[a]].kind = "final" /\ r.of = store[key[a]].tok
         /\ r.of \in effected /\ key[r.of] = key[a] /\ hash[r.of] = hash[a]
         /\ now[a] <= WindowEnd(r.of)
<1> DEFINE e == store[key[a]]
<1>1. e \in Entry /\ key[a] \in Keys BY DEF TypeOK
<1>2. \A E : Err(a, E).kind = "error" BY DEF Err
<1>3. /\ e.kind # "claim" /\ ~expired(e, now[a]) /\ e.hash = hash[a] /\ e.kind # "retryable"
      /\ r = [kind |-> "replayed", errs |-> {}, of |-> e.tok]
  BY <1>2 DEF evaluateExisting, Success
<1>4. e.kind = "final" BY <1>1, <1>3 DEF Entry, EntryKinds
<1>5. e.tok \in effected /\ key[e.tok] = key[a] /\ e = Final(e.tok)
  BY <1>1, <1>4 DEF FinalOK
<1>6. e.tok \in Attempts BY <1>1 DEF Entry
<1>7. hash[e.tok] = e.hash /\ e.exp = now[e.tok] + TTL
  <2>1. Final(e.tok).hash = hash[e.tok] /\ Final(e.tok).exp = now[e.tok] + TTL BY DEF Final
  <2> QED BY <1>5, <2>1
<1>8. now[a] <= WindowEnd(e.tok)
  <2>1. now[a] \in Nat /\ now[e.tok] \in Nat BY <1>6, ConstantsOK DEF TypeOK, Times
  <2> QED BY <1>3, <1>7, <2>1, ConstantsOK DEF expired, WindowEnd
<1> QED BY <1>3, <1>4, <1>5, <1>7, <1>8

\* Every such step keeps what callers are told true.
LEMMA MovesKeep ==
  ASSUME IInv, TypeOK', FInv, NEW a \in Attempts, Moves(a)
  PROVE  FInv'
<1>t. TypeOK BY DEF IInv
<1>m. /\ pc[a] # "idle" /\ pc[a] # "done"
      /\ UNCHANGED <<backend, clock, key, hash, now, removed>>
      /\ effected \subseteq effected'
      /\ AnswerStep(a) /\ WriteStep(a)
  BY DEF Moves
<1>c. /\ \A b \in Attempts : Final(b)' = Final(b) /\ WindowEnd(b)' = WindowEnd(b)
      /\ Claiming' = Claiming
  BY <1>m DEF Final, WindowEnd, Claiming
<1>p. \A b \in Attempts : b # a => pc'[b] = pc[b] /\ res'[b] = res[b]
  BY <1>t DEF Moves, AnswerStep, TypeOK
<1>e. effected \subseteq Attempts /\ effected' \subseteq Attempts BY <1>t DEF TypeOK
<1>o. \A k \in Keys : Over(k) => Over(k)' BY <1>m, <1>c, <1>e DEF Over
<1>r. \/ res'[a] = res[a] /\ pc'[a] # "done"
      \/ pc'[a] = "done" /\ ~Success(res'[a])
      \/ pc'[a] = "done" /\ res'[a] = Fresh(a) /\ a \in effected
      \/ pc'[a] = "done" /\ store[key[a]] # NoEntry /\ res'[a] = evaluateExisting(a, store[key[a]])
  BY <1>m, <1>t DEF AnswerStep, Success, TypeOK
<1>n. Fresh(a).of = a /\ res[a].kind = "none" /\ res[a].errs = {} BY <1>m DEF Fresh, FInv, ProgressOK
<1>w. \A k \in Keys : \/ store'[k] = store[k]
                       \/ /\ k = key[a] /\ (store[k] = NoEntry \/ store[k].kind # "final")
                          /\ store'[k] \in Entry /\ store'[k] # NoEntry
                          /\ \/ store'[k].kind # "final" /\ Claiming
                             \/ store'[k] = Final(a) /\ a \in effected
  BY <1>m, <1>t, ConstantsOK DEF WriteStep, TypeOK
<1>1. FinalOK'
  <2> SUFFICES ASSUME NEW k \in Keys, store'[k] # NoEntry, store'[k].kind = "final"
               PROVE  /\ store'[k].tok \in effected' /\ key[store'[k].tok] = k
                      /\ store'[k].tok \in Attempts /\ store'[k] = Final(store'[k].tok)
    BY <1>m, <1>c DEF FinalOK
  <2>1. CASE store'[k] = store[k] BY <1>m, <1>e, <2>1 DEF FInv, FinalOK
  <2>2. CASE store'[k] = Final(a) /\ a \in effected /\ k = key[a]
    <3>1. Final(a).tok = a BY DEF Final
    <3> QED BY <1>m, <1>e, <2>2, <3>1
  <2> QED BY <1>w, <2>1, <2>2
<1>2. ProgressOK'
  <2>1. ASSUME NEW b \in Attempts, b # a
        PROVE  /\ pc'[b] = "record" => b \in effected'
               /\ pc'[b] = "reread" /\ ~Claiming => b \in effected'
               /\ pc'[b] # "done" => res'[b].kind = "none" /\ res'[b].errs = {}
               /\ pc'[b] \in {"put", "reclaim", "reget", "release"} => Claiming
    BY <1>m, <1>p, <2>1 DEF FInv, ProgressOK
  <2>2. /\ pc'[a] = "record" => a \in effected'
        /\ pc'[a] = "reread" /\ ~Claiming => a \in effected'
        /\ pc'[a] # "done" => res'[a].kind = "none" /\ res'[a].errs = {}
        /\ pc'[a] \in {"put", "reclaim", "reget", "release"} => Claiming
    BY <1>m, <1>r, <1>n DEF Moves
  <2> QED BY <1>c, <2>1, <2>2 DEF ProgressOK
<1>3. AnswerFidelity'
  <2> SUFFICES ASSUME NEW b \in Attempts, Success(res'[b])
               PROVE  LET r == res'[b].of IN
                      /\ r \in effected' /\ r \in Attempts
                      /\ key[r] = key[b] /\ hash[r] = hash[b] /\ now[b] <= WindowEnd(r)
    BY <1>m, <1>c DEF AnswerFidelity, Success
  <2>1. CASE res'[b] = res[b]
    BY <1>m, <1>e, <2>1 DEF FInv, AnswerFidelity, Success
  <2>2. CASE b = a /\ res'[a] = Fresh(a) /\ a \in effected
    <3>1. now[a] \in Nat BY <1>t, ConstantsOK DEF TypeOK, Times
    <3> QED BY <1>m, <1>n, <2>2, <3>1, ConstantsOK DEF WindowEnd
  <2>3. CASE b = a /\ store[key[a]] # NoEntry /\ res'[a] = evaluateExisting(a, store[key[a]])
    BY <1>m, <1>t, <1>e, <2>3, RowAnswers DEF FInv
  <2> QED BY <1>p, <1>r, <2>1, <2>2, <2>3
<1>4. Kept'
  <2>k. \A b \in Attempts : key[b] \in Keys BY <1>t DEF TypeOK
  <2>f. \A k \in Keys : (store[k] # NoEntry /\ store[k].kind = "final") => store'[k] = store[k]
    BY <1>w
  <2>1. ASSUME NEW b \in Attempts, Success(res'[b]), key[b] \notin removed
        PROVE  \/ store'[key[b]] # NoEntry /\ store'[key[b]].kind = "final" /\ store'[key[b]].tok = res'[b].of
               \/ Over(key[b])
    <3>1. CASE res'[b] = res[b] BY <2>1, <2>k, <2>f, <3>1 DEF FInv, Kept
    <3>2. CASE b = a /\ res'[a] # res[a] /\ res'[a] = Fresh(a)
      <4>1. CASE store'[key[a]] = Final(a)
        BY <1>n, <1>t, <3>2, <4>1, WritesTyped, EntriesDiffer, ConstantsOK DEF Final
      <4>2. CASE pc[a] = "reread" /\ ~Claiming /\ store[key[a]] = NoEntry
        BY <2>1, <3>2, <4>2 DEF FInv, Kept
      <4> QED BY <3>2, <4>1, <4>2 DEF Moves
    <3>3. CASE b = a /\ store[key[a]] # NoEntry /\ res'[a] = evaluateExisting(a, store[key[a]])
      BY <1>t, <2>1, <2>k, <2>f, <3>3, RowAnswers DEF FInv
    <3> QED BY <1>p, <1>r, <2>1, <3>1, <3>2, <3>3
  <2>2. ASSUME NEW b \in Attempts, pc'[b] = "reread", ~Claiming, key[b] \notin removed
        PROVE  store'[key[b]] # NoEntry \/ Over(key[b])
    <3>1. CASE b = a BY <1>m, <2>2, <3>1 DEF Moves
    <3>2. CASE b # a BY <1>p, <1>w, <2>2, <2>k, <3>2 DEF FInv, Kept
    <3> QED BY <3>1, <3>2
  <2>3. ASSUME ~Claiming, NEW k \in Keys, store'[k] # NoEntry PROVE store'[k].kind = "final"
    BY <1>w, <2>3, EntriesDiffer DEF FInv, Kept
  <2> QED BY <1>m, <1>c, <1>o, <2>k, <2>1, <2>2, <2>3 DEF Kept
<1> QED BY <1>1, <1>2, <1>3, <1>4 DEF FInv

\* Every other action of Wrap and runClaimed is such a step.
LEMMA StepMoves ==
  ASSUME IInv, TypeOK', FInv, NEW a \in Attempts, Step(a),
         ~(Refuse(a) \/ RunUncached(a) \/ \E k \in Keys, h \in Payloads : Begin(a, k, h))
  PROVE  Moves(a)
<1>t. TypeOK BY DEF IInv
<1>k. key[a] \in Keys BY <1>t DEF TypeOK
<1>w. /\ Claim(a) \in Entry /\ Marker(a) \in Entry /\ Final(a) \in Entry
      /\ Claim(a).kind = "claim" /\ Marker(a).kind = "retryable" /\ Final(a).kind = "final"
      /\ Claim(a) # NoEntry /\ Final(a) # NoEntry
  BY <1>t, WritesTyped, ConstantsOK DEF Claim, Marker, Final
<1>r. /\ Fresh(a) \in Result
      /\ \A E \in SUBSET Sentinels : Err(a, E) \in Result /\ Err(a, E).kind = "error" /\ Err(a, E) # Fresh(a)
      /\ \A e \in Entry : evaluateExisting(a, e) \in Result /\ evaluateExisting(a, e) # Fresh(a)
  <2>1. \A E : Err(a, E).kind = "error" BY DEF Err
  <2>2. Fresh(a).kind = "fresh" BY DEF Fresh
  <2>3. \A e : evaluateExisting(a, e).kind \in {"error", "replayed"} BY <2>1 DEF evaluateExisting
  <2> QED BY <1>t, <2>1, <2>2, <2>3, WritesTyped
<1>s. \A E \in {{"backend"}, {"record_failed"}, {"in_flight"}, {"handler"},
                {"unknown"}, {"claim_lost"}, {"handler", "claim_lost"},
                {"handler", "release_failed"}, {"crashed"}} : E \in SUBSET Sentinels
  BY DEF Sentinels
<1>f. /\ HashMatches(key[a], Claim(a)) => store[key[a]].kind = "claim"
      /\ pc[a] = "reclaim" /\ HashMatches(key[a], seen[a]) => store[key[a]].kind = "retryable"
  BY <1>w DEF HashMatches, IInv, SeenOK
<1>c. pc[a] \in {"put", "reclaim", "reget", "release"} => Claiming
  BY DEF FInv, ProgressOK
<1>h. pc[a] = "record" \/ (pc[a] = "reread" /\ ~Claiming) => a \in effected
  BY DEF FInv, ProgressOK
<1>g. /\ store[key[a]] # NoEntry => store[key[a]] \in Entry
      /\ pc[a] \in PcValues /\ res \in [Attempts -> Result] /\ pc \in [Attempts -> PcValues]
      /\ store \in [Keys -> Entry \cup {NoEntry}]
  BY <1>t, <1>k DEF TypeOK
<1>v. ASSUME NEW e, e = store[key[a]], e # NoEntry, Resolve(a, e)
      PROVE  /\ AnswerStep(a)
             /\ \E l \in {"reclaim", "done"} : pc' = [pc EXCEPT ![a] = l] /\ (l = "reclaim" => Claiming)
             /\ res'[a] # res[a] => res'[a] # Fresh(a)
  <2>1. CASE Goto(a, "reclaim") /\ UNCHANGED res /\ Claiming
    BY <1>g, <2>1 DEF Goto, AnswerStep
  <2>2. CASE Finish(a, evaluateExisting(a, e))
    BY <1>g, <1>v, <1>r, <2>2 DEF Goto, Finish, AnswerStep
  <2> QED BY <1>v, <2>1, <2>2 DEF Resolve
<1>z. ASSUME NEW r \in Result, r.kind = "error", r # Fresh(a), Finish(a, r)
      PROVE  AnswerStep(a) /\ pc' = [pc EXCEPT ![a] = "done"] /\ pc'[a] = "done" /\ res'[a] # Fresh(a)
  BY <1>g, <1>z DEF Goto, Finish, AnswerStep
<1> USE <1>t, <1>k, <1>g DEF request, history, started
<1>1. CASE Get(a)
  <2>1. CASE store[key[a]] = NoEntry
    BY <1>1, <2>1 DEF Get, Moves, AnswerStep, WriteStep, Goto, StartHandler, PcValues
  <2>2. CASE store[key[a]] # NoEntry
    BY <1>1, <1>v, <2>2 DEF Get, Moves, WriteStep, PcValues
  <2> QED BY <2>1, <2>2
<1>2. CASE GetFails(a)
  <2>1. PICK r \in Result : r.kind = "error" /\ r # Fresh(a) /\ Finish(a, r)
    BY <1>2, <1>r, <1>s DEF GetFails
  <2> QED BY <1>2, <1>z, <2>1 DEF GetFails, Moves, WriteStep, PcValues
<1>3. CASE PutClaim(a)
  <2>1. CASE store[key[a]] = NoEntry
    BY <1>3, <1>c, <1>w, <2>1 DEF PutClaim, Moves, AnswerStep, WriteStep, Goto, StartHandler, PcValues, Write
  <2>2. CASE store[key[a]] # NoEntry /\ backend = "memory"
    BY <1>3, <1>v, <2>2 DEF PutClaim, Moves, WriteStep, PcValues
  <2>3. CASE store[key[a]] # NoEntry /\ backend # "memory"
    BY <1>3, <1>c, <2>3 DEF PutClaim, Moves, AnswerStep, WriteStep, Goto, PcValues
  <2> QED BY <2>1, <2>2, <2>3
<1>4. CASE PutClaimFails(a)
  <2>1. PICK r \in Result : r.kind = "error" /\ r # Fresh(a) /\ Finish(a, r)
    BY <1>4, <1>r, <1>s DEF PutClaimFails
  <2>2. WriteStep(a) BY <1>4, <1>c, <1>w DEF PutClaimFails, WriteStep, Write
  <2> QED BY <1>4, <1>z, <2>1, <2>2 DEF PutClaimFails, Moves, PcValues
<1>5. CASE Reread(a)
  <2>1. CASE store[key[a]] = NoEntry /\ Claiming
    <3>1. PICK r \in Result : r.kind = "error" /\ r # Fresh(a) /\ Finish(a, r)
      BY <1>5, <1>r, <1>s, <2>1 DEF Reread
    <3> QED BY <1>5, <1>z, <3>1 DEF Reread, Moves, WriteStep, PcValues
  <2>2. CASE store[key[a]] = NoEntry /\ ~Claiming
    BY <1>5, <1>h, <1>r, <2>2 DEF Reread, Moves, AnswerStep, WriteStep, Goto, Finish, PcValues
  <2>3. CASE store[key[a]] # NoEntry
    BY <1>5, <1>v, <2>3 DEF Reread, Moves, WriteStep, PcValues
  <2> QED BY <2>1, <2>2, <2>3
<1>6. CASE Reclaim(a)
  BY <1>6, <1>c, <1>w, <1>f DEF Reclaim, Moves, AnswerStep, WriteStep, Goto, StartHandler, PcValues, Write
<1>7. CASE ReclaimFails(a)
  <2>1. PICK r \in Result : r.kind = "error" /\ r # Fresh(a) /\ Finish(a, r)
    BY <1>7, <1>r, <1>s DEF ReclaimFails
  <2>2. WriteStep(a) BY <1>7, <1>c, <1>w, <1>f DEF ReclaimFails, WriteStep, Write
  <2> QED BY <1>7, <1>z, <2>1, <2>2 DEF ReclaimFails, Moves, PcValues
<1>8. CASE Reget(a)
  <2>1. CASE store[key[a]] = NoEntry
    <3>1. PICK r \in Result : r.kind = "error" /\ r # Fresh(a) /\ Finish(a, r)
      BY <1>8, <1>r, <1>s, <2>1 DEF Reget
    <3> QED BY <1>8, <1>z, <3>1 DEF Reget, Moves, WriteStep, PcValues
  <2>2. CASE store[key[a]] # NoEntry
    BY <1>8, <1>r, <2>2 DEF Reget, Moves, AnswerStep, WriteStep, Goto, Finish, PcValues
  <2> QED BY <2>1, <2>2
<1>9. CASE HandlerReturns(a)
  BY <1>9 DEF HandlerReturns, Moves, AnswerStep, WriteStep, Goto, PcValues
<1>10. CASE HandlerFails(a)
  <2>1. CASE Claiming
    BY <1>10, <2>1 DEF HandlerFails, Moves, AnswerStep, WriteStep, Goto, PcValues
  <2>2. CASE ~Claiming
    <3>1. PICK r \in Result : r.kind = "error" /\ r # Fresh(a) /\ Finish(a, r)
      BY <1>10, <1>r, <1>s, <2>2 DEF HandlerFails
    <3> QED BY <1>10, <1>z, <3>1 DEF HandlerFails, Moves, WriteStep, PcValues
  <2> QED BY <2>1, <2>2
<1>11. CASE HandlerUnknown(a) \/ Crash(a)
  <2>1. PICK r \in Result : r.kind = "error" /\ r # Fresh(a) /\ Finish(a, r)
    BY <1>11, <1>r, <1>s DEF HandlerUnknown, Crash
  <2> QED BY <1>11, <1>z, <2>1 DEF HandlerUnknown, Crash, Moves, WriteStep, PcValues
<1>12. CASE Record(a)
  <2>1. CASE Claiming /\ HashMatches(key[a], Claim(a))
    BY <1>12, <1>f, <1>h, <1>r, <1>w, <2>1
       DEF Record, Moves, AnswerStep, WriteStep, Goto, Finish, PcValues, Write
  <2>2. CASE Claiming /\ ~HashMatches(key[a], Claim(a))
    <3>1. PICK r \in Result : r.kind = "error" /\ r # Fresh(a) /\ Finish(a, r)
      BY <1>12, <1>r, <1>s, <2>2 DEF Record
    <3> QED BY <1>12, <1>z, <2>2, <3>1 DEF Record, Moves, WriteStep, PcValues
  <2>3. CASE ~Claiming /\ store[key[a]] = NoEntry
    BY <1>12, <1>h, <1>r, <1>w, <2>3
       DEF Record, Moves, AnswerStep, WriteStep, Goto, Finish, PcValues, Write
  <2>4. CASE ~Claiming /\ store[key[a]] # NoEntry
    BY <1>12, <1>h, <2>4 DEF Record, Moves, AnswerStep, WriteStep, Goto, PcValues
  <2> QED BY <2>1, <2>2, <2>3, <2>4
<1>13. CASE RecordFails(a)
  <2>1. PICK r \in Result : r.kind = "error" /\ r # Fresh(a) /\ Finish(a, r)
    BY <1>13, <1>r, <1>s DEF RecordFails
  <2>2. WriteStep(a) BY <1>13, <1>f, <1>h, <1>w DEF RecordFails, WriteStep, Write
  <2> QED BY <1>13, <1>z, <2>1, <2>2 DEF RecordFails, Moves, PcValues
<1>14. CASE Release(a) \/ ReleaseFails(a)
  <2>1. PICK r \in Result : r.kind = "error" /\ r # Fresh(a) /\ Finish(a, r)
    BY <1>14, <1>r, <1>s DEF Release, ReleaseFails
  <2>2. WriteStep(a) BY <1>14, <1>c, <1>f, <1>w DEF Release, ReleaseFails, WriteStep, Write
  <2> QED BY <1>14, <1>z, <2>1, <2>2 DEF Release, ReleaseFails, Moves, PcValues
<1> QED
  BY <1>1, <1>2, <1>3, <1>4, <1>5, <1>6, <1>7, <1>8, <1>9, <1>10, <1>11, <1>12, <1>13, <1>14 DEF Step

\* Nobody has been told anything yet.
LEMMA FInvInit == Init => FInv
BY ConstantsOK DEF Init, FInv, FinalOK, ProgressOK, AnswerFidelity, Kept, Success

\* A step of anybody keeps what callers are told true: a sweep drops a
\* response only when its window is over, an operator deletes only claims.
LEMMA FInvNext == IInv /\ FInv /\ [Next]_vars => FInv'
<1> SUFFICES ASSUME IInv, FInv, [Next]_vars PROVE FInv' OBVIOUS
<1>t. TypeOK /\ TypeOK' BY TypeNext DEF IInv
<1> USE DEF request, history, started
<1>1. ASSUME NEW a \in Attempts, Step(a) PROVE FInv'
  <2>1. CASE Refuse(a) \/ RunUncached(a) \/ \E k \in Keys, h \in Payloads : Begin(a, k, h)
    BY <2>1, FirstSteps
  <2>2. CASE ~(Refuse(a) \/ RunUncached(a) \/ \E k \in Keys, h \in Payloads : Begin(a, k, h))
    BY <1>1, <1>t, <2>2, StepMoves, MovesKeep
  <2> QED BY <2>1, <2>2
<1>2. ASSUME UNCHANGED <<backend, pc, key, hash, now, seen, res, ran, effected>>,
             clock \in Nat, clock' \in Nat, clock' >= clock, removed \subseteq removed',
             \A k \in Keys : \/ store'[k] = store[k]
                             \/ store'[k] = NoEntry /\ ((k \in removed' /\ store[k].kind = "claim")
                                                        \/ (store[k].kind = "final" => Over(k)))
      PROVE  FInv'
  <2> USE <1>2
  <2>1. /\ \A b \in Attempts : Final(b)' = Final(b) /\ WindowEnd(b)' = WindowEnd(b) /\ key[b] \in Keys
        /\ Claiming' = Claiming
    BY <1>t DEF Final, WindowEnd, Claiming, TypeOK
  <2>2. \A b \in Attempts : WindowEnd(b) \in Nat BY <1>t, ConstantsOK DEF WindowEnd, TypeOK, Times
  <2>3. \A k \in Keys : Over(k) => Over(k)'
    BY <1>t, <2>1, <2>2 DEF Over, TypeOK
  <2>4. FinalOK' BY <1>t, <2>1 DEF FInv, FinalOK, TypeOK
  <2>5. ProgressOK' BY <2>1 DEF FInv, ProgressOK
  <2>6. AnswerFidelity' BY <1>t, <2>1 DEF FInv, AnswerFidelity, TypeOK
  <2>7. Kept'
    <3>1. ASSUME NEW b \in Attempts, Success(res[b]), key[b] \notin removed'
          PROVE  \/ store'[key[b]] # NoEntry /\ store'[key[b]].kind = "final" /\ store'[key[b]].tok = res[b].of
                 \/ Over(key[b])
      BY <2>1, <3>1 DEF FInv, Kept
    <3>2. ASSUME NEW b \in Attempts, pc[b] = "reread", ~Claiming, key[b] \notin removed'
          PROVE  store'[key[b]] # NoEntry \/ Over(key[b])
      BY <2>1, <3>2 DEF FInv, Kept
    <3>3. ASSUME ~Claiming, NEW k \in Keys, store'[k] # NoEntry PROVE store'[k].kind = "final"
      BY <3>3 DEF FInv, Kept
    <3> QED BY <2>1, <2>3, <3>1, <3>2, <3>3 DEF Kept
  <2> QED BY <2>4, <2>5, <2>6, <2>7 DEF FInv
<1>3. clock \in Nat BY <1>t, ConstantsOK DEF TypeOK, Times
<1>4. CASE \E k \in Keys : Reconcile(k)
  BY <1>2, <1>3, <1>4, <1>t DEF Reconcile, Write, TypeOK
<1>5. CASE Sweep
  <2>1. ASSUME NEW k \in Keys, Sweepable(store[k]), store[k].kind = "final" PROVE Over(k)
    <3> DEFINE e == store[k]
    <3>1. e \in Entry /\ e # NoEntry BY <1>t, <2>1 DEF TypeOK, Sweepable
    <3>2. e.tok \in effected /\ key[e.tok] = k /\ e = Final(e.tok) BY <2>1, <3>1 DEF FInv, FinalOK
    <3>3. e.exp = now[e.tok] + TTL BY <3>2 DEF Final
    <3>4. e.tok \in Attempts /\ now[e.tok] \in Nat
      BY <1>t, <3>1, ConstantsOK DEF TypeOK, Entry, Times
    <3>5. clock > WindowEnd(e.tok)
      BY <1>3, <2>1, <3>3, <3>4, ConstantsOK DEF Sweepable, WindowEnd
    <3> QED BY <3>2, <3>5 DEF Over
  <2>2. \A k \in Keys : store'[k] = store[k] \/ (store'[k] = NoEntry /\ Sweepable(store[k]))
    BY <1>5 DEF Sweep
  <2> QED BY <1>2, <1>3, <1>5, <2>1, <2>2 DEF Sweep
<1>6. CASE Tick
  BY <1>2, <1>3, <1>6 DEF Tick
<1>7. CASE UNCHANGED vars
  BY <1>2, <1>3, <1>7 DEF vars
<1> QED BY <1>1, <1>4, <1>5, <1>6, <1>7 DEF Next

\* For every number of callers, keys and payloads and every backend: a caller
\* told of a success is told of an effect of its own key and payload that was
\* inside its window.
THEOREM AnswersFaithful == Spec => []AnswerFidelity
<1>1. Init => IInv /\ FInv BY IInvInit, FInvInit
<1>2. IInv /\ FInv /\ [Next]_vars => (IInv /\ FInv)' BY IInvNext, FInvNext
<1>3. FInv => AnswerFidelity BY DEF FInv
<1> QED BY <1>1, <1>2, <1>3, PTL DEF Spec

\* For every number of callers and every backend, custom ones included: all
\* callers answered under a key are given one response until a window of the
\* key is over.
THEOREM AnswersAreOne == Spec => []AnswersAgree
<1>1. Init => IInv /\ FInv BY IInvInit, FInvInit
<1>2. IInv /\ FInv /\ [Next]_vars => (IInv /\ FInv)' BY IInvNext, FInvNext
<1>3. FInv => AnswersAgree BY DEF FInv, Kept, AnswersAgree, Success, Over
<1> QED BY <1>1, <1>2, <1>3, PTL DEF Spec

-----------------------------------------------------------------------------
(* The store implements the ledger.                                        *)

\* No attempt read the clock in the future, and a claim in the store is the
\* one its attempt wrote.
LInv ==
  /\ \A a \in Attempts : now[a] <= clock
  /\ \A k \in Keys : (store[k] # NoEntry /\ store[k].kind = "claim") =>
       pc[store[k].tok] # "idle" /\ store[k] = Claim(store[k].tok)

\* What a step of an attempt after Begin does to its row and its answer.
Succeeds(a) == Success(res'[a])

LedgerStep(a) ==
  LET old == store[key[a]] IN
  \/ UNCHANGED store /\ ~Succeeds(a)
  \/ /\ store' = [store EXCEPT ![key[a]] = Claim(a)] /\ ~Succeeds(a)
     /\ old = NoEntry \/ (old.kind = "retryable" /\ old.hash = hash[a])
  \/ /\ store' = [store EXCEPT ![key[a]] = Marker(a)] /\ ~Succeeds(a)
     /\ HashMatches(key[a], Claim(a))
  \/ /\ store' = [store EXCEPT ![key[a]] = Final(a)]
     /\ ~Succeeds(a) \/ res'[a] = Fresh(a)
     /\ HashMatches(key[a], Claim(a)) \/ old = NoEntry
  \/ UNCHANGED store /\ old # NoEntry /\ Succeeds(a) /\ res'[a] = evaluateExisting(a, old)
  \/ UNCHANGED store /\ old = NoEntry /\ res'[a] = Fresh(a)

Asked(a) ==
  /\ pc[a] # "idle" /\ pc[a] # "done" /\ pc'[a] # "idle"
  /\ res'[a].kind # "uncached" /\ "refused" \notin res'[a].errs
  /\ \A b \in Attempts : b # a => pc'[b] = pc[b] /\ res'[b] = res[b]
  /\ UNCHANGED <<backend, clock, key, hash, now>>

\* Every action of Wrap and runClaimed from Get on is such a step.
LEMMA StepLedger ==
  ASSUME IInv, FInv, SeenMine, NEW a \in Attempts, Step(a),
         ~(Refuse(a) \/ RunUncached(a) \/ \E k \in Keys, h \in Payloads : Begin(a, k, h))
  PROVE  LedgerStep(a) /\ Asked(a)
<1>t. TypeOK BY DEF IInv
<1>g. /\ res \in [Attempts -> Result] /\ pc \in [Attempts -> PcValues]
      /\ store[key[a]] # NoEntry => store[key[a]] \in Entry
  BY <1>t DEF TypeOK
<1>n. pc[a] # "done" => res[a].kind = "none" /\ res[a].errs = {} BY DEF FInv, ProgressOK
<1>r. /\ \A E : Err(a, E).kind = "error" /\ Err(a, E).errs = E
      /\ Fresh(a).kind = "fresh" /\ Fresh(a).errs = {}
  BY DEF Err, Fresh
<1>e. \A e : evaluateExisting(a, e).kind # "uncached" /\ "refused" \notin evaluateExisting(a, e).errs
  BY <1>r DEF evaluateExisting
<1>z. ASSUME NEW r, Finish(a, r) PROVE pc' = [pc EXCEPT ![a] = "done"] /\ res' = [res EXCEPT ![a] = r] /\ res'[a] = r
  BY <1>g, <1>z DEF Finish, Goto
<1>s. pc[a] = "reclaim" /\ HashMatches(key[a], seen[a]) =>
        store[key[a]].kind = "retryable" /\ store[key[a]].hash = hash[a]
  BY DEF SeenMine, HashMatches
<1>v. ASSUME NEW e, e = store[key[a]], e # NoEntry, Resolve(a, e), UNCHANGED <<store, backend, clock, key, hash, now>>,
             pc[a] # "idle", pc[a] # "done"
      PROVE  LedgerStep(a) /\ Asked(a)
  <2>1. CASE Goto(a, "reclaim") /\ UNCHANGED res
    BY <1>v, <1>g, <1>n, <2>1 DEF Goto, LedgerStep, Asked, Succeeds, Success
  <2>2. CASE Finish(a, evaluateExisting(a, e))
    BY <1>v, <1>g, <1>z, <1>e, <2>2 DEF LedgerStep, Asked
  <2> QED BY <1>v, <2>1, <2>2 DEF Resolve
<1>w. \A E \in {{"backend"}, {"record_failed"}, {"in_flight"}, {"handler"},
                {"unknown"}, {"claim_lost"}, {"handler", "claim_lost"},
                {"handler", "release_failed"}, {"crashed"}} : "refused" \notin E
  OBVIOUS
<1> DEFINE Stays == UNCHANGED <<backend, clock, key, hash, now>> /\ pc[a] # "idle" /\ pc[a] # "done"
<1>u. ASSUME Stays, \/ UNCHANGED res /\ \E l \in PcValues \ {"idle"} : Goto(a, l)
                    \/ \E E \in {{"backend"}, {"record_failed"}, {"in_flight"}, {"handler"},
                                 {"unknown"}, {"claim_lost"}, {"handler", "claim_lost"},
                                 {"handler", "release_failed"}, {"crashed"}} : Finish(a, Err(a, E))
      PROVE  Asked(a) /\ ~Succeeds(a)
  <2>1. CASE UNCHANGED res /\ \E l \in PcValues \ {"idle"} : Goto(a, l)
    BY <1>u, <1>g, <1>n, <2>1 DEF Goto, Asked, Succeeds, Success
  <2>2. CASE \E E \in {{"backend"}, {"record_failed"}, {"in_flight"}, {"handler"},
                       {"unknown"}, {"claim_lost"}, {"handler", "claim_lost"},
                       {"handler", "release_failed"}, {"crashed"}} : Finish(a, Err(a, E))
    BY <1>u, <1>g, <1>r, <1>w, <1>z, <2>2 DEF Asked, Succeeds, Success
  <2> QED BY <1>u, <2>1, <2>2
<1>y. ASSUME Stays, Finish(a, Fresh(a)) PROVE Asked(a) /\ res'[a] = Fresh(a)
  BY <1>y, <1>g, <1>r, <1>z DEF Asked
<1> HIDE DEF Stays
<1>p. \A l \in {"get", "put", "reread", "reclaim", "reget", "handler", "record", "release", "done"} :
        l \in PcValues \ {"idle"}
  BY DEF PcValues
<1> USE DEF request, history, started
<1>1. CASE Get(a)
  <2>1. CASE store[key[a]] = NoEntry
    <3>1. Stays BY <1>1 DEF Get, Stays
    <3>2. UNCHANGED <<res, store>> /\ \E l \in PcValues \ {"idle"} : Goto(a, l)
      BY <1>1, <1>p, <2>1 DEF Get, StartHandler
    <3> QED BY <1>u, <3>1, <3>2 DEF LedgerStep
  <2>2. CASE store[key[a]] # NoEntry
    BY <1>1, <1>v, <2>2 DEF Get
  <2> QED BY <2>1, <2>2
<1>2. CASE GetFails(a)
  BY <1>2, <1>u DEF GetFails, Stays, LedgerStep
<1>3. CASE PutClaim(a)
  <2>0. Stays BY <1>3 DEF PutClaim, Stays
  <2>1. CASE store[key[a]] = NoEntry
    <3>1. /\ UNCHANGED res /\ \E l \in PcValues \ {"idle"} : Goto(a, l)
          /\ store' = [store EXCEPT ![key[a]] = Claim(a)]
      BY <1>3, <1>p, <2>1 DEF PutClaim, StartHandler, Write
    <3> QED BY <1>u, <2>0, <2>1, <3>1 DEF LedgerStep
  <2>2. CASE store[key[a]] # NoEntry /\ backend = "memory"
    BY <1>3, <1>v, <2>2 DEF PutClaim
  <2>3. CASE store[key[a]] # NoEntry /\ backend # "memory"
    BY <1>3, <1>p, <1>u, <2>0, <2>3 DEF PutClaim, LedgerStep
  <2> QED BY <2>1, <2>2, <2>3
<1>4. CASE PutClaimFails(a)
  BY <1>4, <1>u DEF PutClaimFails, Stays, LedgerStep, Write
<1>5. CASE Reread(a)
  <2>1. CASE store[key[a]] = NoEntry /\ Claiming
    BY <1>5, <1>u, <2>1 DEF Reread, Stays, LedgerStep
  <2>2. CASE store[key[a]] = NoEntry /\ ~Claiming
    BY <1>5, <1>y, <2>2 DEF Reread, Stays, LedgerStep
  <2>3. CASE store[key[a]] # NoEntry
    BY <1>5, <1>v, <2>3 DEF Reread
  <2> QED BY <2>1, <2>2, <2>3
<1>6. CASE Reclaim(a)
  <2>1. Stays /\ UNCHANGED res /\ \E l \in PcValues \ {"idle"} : Goto(a, l)
    BY <1>6, <1>p DEF Reclaim, Stays, StartHandler
  <2> QED BY <1>6, <1>s, <1>u, <2>1 DEF Reclaim, LedgerStep, Write
<1>7. CASE ReclaimFails(a)
  BY <1>7, <1>s, <1>u DEF ReclaimFails, Stays, LedgerStep, Write
<1>8. CASE Reget(a)
  <2>1. CASE store[key[a]] = NoEntry
    BY <1>8, <1>u, <2>1 DEF Reget, Stays, LedgerStep
  <2>2. CASE store[key[a]] # NoEntry
    BY <1>8, <1>e, <1>g, <1>z, <2>2 DEF Reget, LedgerStep, Asked
  <2> QED BY <2>1, <2>2
<1>9. CASE HandlerReturns(a)
  BY <1>9, <1>p, <1>u DEF HandlerReturns, Stays, LedgerStep
<1>10. CASE HandlerFails(a)
  BY <1>10, <1>p, <1>u DEF HandlerFails, Stays, LedgerStep
<1>11. CASE HandlerUnknown(a) \/ Crash(a)
  BY <1>11, <1>u DEF HandlerUnknown, Crash, Stays, LedgerStep
<1>12. CASE Record(a)
  <2>0. Stays BY <1>12 DEF Record, Stays
  <2>1. CASE Claiming /\ HashMatches(key[a], Claim(a))
    BY <1>12, <1>y, <2>0, <2>1 DEF Record, LedgerStep, Write
  <2>2. CASE Claiming /\ ~HashMatches(key[a], Claim(a))
    BY <1>12, <1>u, <2>0, <2>2 DEF Record, LedgerStep
  <2>3. CASE ~Claiming /\ store[key[a]] = NoEntry
    BY <1>12, <1>y, <2>0, <2>3 DEF Record, LedgerStep, Write
  <2>4. CASE ~Claiming /\ store[key[a]] # NoEntry
    BY <1>12, <1>p, <1>u, <2>0, <2>4 DEF Record, LedgerStep
  <2> QED BY <2>1, <2>2, <2>3, <2>4
<1>13. CASE RecordFails(a)
  BY <1>13, <1>u DEF RecordFails, Stays, LedgerStep, Write
<1>14. CASE Release(a)
  BY <1>14, <1>u DEF Release, Stays, LedgerStep, Write
<1>15. CASE ReleaseFails(a)
  BY <1>15, <1>u DEF ReleaseFails, Stays, LedgerStep, Write
<1> QED
  BY <1>1, <1>2, <1>3, <1>4, <1>5, <1>6, <1>7, <1>8, <1>9, <1>10, <1>11, <1>12, <1>13, <1>14, <1>15 DEF Step

\* Before the first call there is no claim and the clock is at zero.
LEMMA LInvInit == Init => LInv
BY DEF Init, LInv

\* The clock only moves on, and a claim that is in the store is its
\* attempt's, which has begun and does not begin again.
LEMMA LInvNext == IInv /\ FInv /\ SeenMine /\ LInv /\ [Next]_vars => LInv'
<1> SUFFICES ASSUME IInv, FInv, SeenMine, LInv, [Next]_vars PROVE LInv' OBVIOUS
<1>t. TypeOK /\ TypeOK' BY TypeNext DEF IInv
<1>c. clock \in Nat /\ \A b \in Attempts : now[b] \in Nat BY <1>t, ConstantsOK DEF TypeOK, Times
<1>n. NoEntry \notin Entry BY ConstantsOK
<1> USE DEF request, history, started
<1>1. ASSUME NEW a \in Attempts, Step(a) PROVE LInv'
  <2>1. CASE Refuse(a) \/ RunUncached(a) \/ \E k \in Keys, h \in Payloads : Begin(a, k, h)
    <3>1. /\ pc[a] = "idle" /\ UNCHANGED <<clock, store>>
          /\ \A b \in Attempts : b # a =>
               pc'[b] = pc[b] /\ key'[b] = key[b] /\ hash'[b] = hash[b] /\ now'[b] = now[b]
          /\ now'[a] = now[a] \/ now'[a] = clock
      BY <1>t, <2>1 DEF Refuse, RunUncached, Begin, Goto, Finish, TypeOK
    <3>2. \A b \in Attempts : b # a => Claim(b)' = Claim(b) BY <3>1 DEF Claim
    <3>3. \A b \in Attempts : now'[b] <= clock'
      BY <1>c, <3>1 DEF LInv
    <3>4. ASSUME NEW k \in Keys, store[k] # NoEntry, store[k].kind = "claim"
          PROVE  pc'[store[k].tok] # "idle" /\ store[k] = Claim(store[k].tok)'
      <4>1. store[k].tok \in Attempts /\ pc[store[k].tok] # "idle" /\ store[k] = Claim(store[k].tok)
        BY <1>t, <3>4 DEF LInv, TypeOK, Entry
      <4> QED BY <3>1, <3>2, <4>1
    <3> QED BY <3>1, <3>3, <3>4 DEF LInv
  <2>2. CASE ~(Refuse(a) \/ RunUncached(a) \/ \E k \in Keys, h \in Payloads : Begin(a, k, h))
    <3>1. LedgerStep(a) /\ Asked(a) BY <1>1, <2>2, StepLedger
    <3>2. \A b \in Attempts : Claim(b)' = Claim(b) BY <3>1 DEF Asked, Claim
    <3>3. ASSUME NEW k \in Keys, store'[k] # NoEntry, store'[k].kind = "claim"
          PROVE  store'[k] = store[k] \/ store'[k] = Claim(a)
      <4>1. Marker(a).kind # "claim" /\ Final(a).kind # "claim" BY DEF Marker, Final
      <4> QED BY <1>t, <3>1, <3>3, <4>1 DEF LedgerStep, TypeOK
    <3>4. Claim(a).tok = a BY DEF Claim
    <3>5. \A b \in Attempts : pc[b] # "idle" => pc'[b] # "idle" BY <3>1 DEF Asked
    <3>6. \A k \in Keys : store[k] # NoEntry => store[k].tok \in Attempts BY <1>t DEF TypeOK, Entry
    <3>7. pc[a] # "idle" /\ UNCHANGED <<clock, now>> BY <3>1 DEF Asked
    <3> QED BY <3>2, <3>3, <3>4, <3>5, <3>6, <3>7 DEF LInv
  <2> QED BY <2>1, <2>2
<1>2. ASSUME UNCHANGED <<pc, key, hash, now>>, clock' \in Nat, clock' >= clock,
             \A k \in Keys : store'[k] = store[k] \/ store'[k] = NoEntry
      PROVE  LInv'
  <2>1. \A b \in Attempts : Claim(b)' = Claim(b) BY <1>2 DEF Claim
  <2>2. \A k \in Keys : store[k] # NoEntry => store[k].tok \in Attempts BY <1>t DEF TypeOK, Entry
  <2> QED BY <1>2, <1>c, <2>1, <2>2 DEF LInv
<1>3. CASE \E k \in Keys : Reconcile(k)
  BY <1>2, <1>c, <1>t, <1>3 DEF Reconcile, Write, TypeOK
<1>4. CASE Sweep BY <1>2, <1>c, <1>4 DEF Sweep
<1>5. CASE Tick BY <1>2, <1>c, <1>5 DEF Tick
<1>6. CASE UNCHANGED vars BY <1>2, <1>c, <1>6 DEF vars
<1> QED BY <1>1, <1>3, <1>4, <1>5, <1>6 DEF Next

\* A row's line in the ledger.
LEMMA LineFacts ==
  ASSUME NEW e \in Entry
  PROVE  /\ LineOf(e) # NoEntry
         /\ LineOf(e) = [state |-> LineOf(e).state, payload |-> e.hash, by |-> e.tok, until |-> e.exp - TTL]
         /\ e.kind = "claim" => LineOf(e).state = "running"
         /\ e.kind = "retryable" => LineOf(e).state = "open"
         /\ e.kind = "final" => LineOf(e).state = "answered"
<1> DEFINE s == CASE e.kind = "claim" -> "running" [] e.kind = "retryable" -> "open"
                  [] e.kind = "final" -> "answered"
<1>1. /\ e.kind = "claim" => s = "running"
      /\ e.kind = "retryable" => s = "open"
      /\ e.kind = "final" => s = "answered"
  OBVIOUS
<1>2. e.kind \in {"claim", "retryable", "final"} /\ e.hash \in Payloads /\ e.tok \in Attempts /\ e.exp - TTL \in Int
  BY ConstantsOK DEF Entry, EntryKinds
<1>3. LineOf(e) = [state |-> s, payload |-> e.hash, by |-> e.tok, until |-> e.exp - TTL]
  BY DEF LineOf
<1>4. s \in {"running", "open", "answered"} BY <1>1, <1>2
<1> HIDE DEF s
<1>5. LineOf(e) # NoEntry BY <1>2, <1>3, <1>4, BlankOK
<1> QED BY <1>1, <1>3, <1>5

\* The three entries an attempt writes, as lines.
LEMMA OwnLines ==
  ASSUME TypeOK, NEW a \in Attempts
  PROVE  /\ LineOf(Claim(a)) = [state |-> "running", payload |-> hash[a], by |-> a, until |-> now[a]]
         /\ LineOf(Marker(a)) = [state |-> "open", payload |-> hash[a], by |-> a, until |-> clock]
         /\ LineOf(Final(a)) = [state |-> "answered", payload |-> hash[a], by |-> a, until |-> now[a]]
<1>1. now[a] \in Nat /\ clock \in Nat BY ConstantsOK DEF TypeOK, Times
<1>2. (now[a] + TTL) - TTL = now[a] /\ (clock + TTL) - TTL = clock BY <1>1, ConstantsOK
<1>3. Claim(a) \in Entry /\ Marker(a) \in Entry /\ Final(a) \in Entry BY WritesTyped
<1>4. /\ Claim(a).kind = "claim" /\ Claim(a).hash = hash[a] /\ Claim(a).tok = a /\ Claim(a).exp = now[a] + TTL
      /\ Marker(a).kind = "retryable" /\ Marker(a).hash = hash[a] /\ Marker(a).tok = a /\ Marker(a).exp = clock + TTL
      /\ Final(a).kind = "final" /\ Final(a).hash = hash[a] /\ Final(a).tok = a /\ Final(a).exp = now[a] + TTL
  BY DEF Claim, Marker, Final
<1> QED BY <1>2, <1>3, <1>4, LineFacts

\* A line with its state, or its state and its window, changed.
LEMMA LineFields ==
  ASSUME NEW r, NEW s, NEW p, NEW b, NEW u, NEW t, NEW v,
         r = [state |-> s, payload |-> p, by |-> b, until |-> u]
  PROVE  /\ [r EXCEPT !.state = t] = [state |-> t, payload |-> p, by |-> b, until |-> u]
         /\ [r EXCEPT !.until = v] = [state |-> s, payload |-> p, by |-> b, until |-> v]
<1>1. [r EXCEPT !.state = t] = [state |-> t, payload |-> p, by |-> b, until |-> u] OBVIOUS
<1>2. [r EXCEPT !.until = v] = [state |-> s, payload |-> p, by |-> b, until |-> v] OBVIOUS
<1> QED BY <1>1, <1>2

\* The ledger of a new store is blank.
LEMMA LedgerInit == Init => Ledger!Init
BY DEF Init, Ledger!Init, Keyed

\* Every step of an attempt from Get on is a step of the ledger.
LEMMA LedgerOfStep ==
  ASSUME IInv, TypeOK', FInv, LInv, NEW a \in Attempts, LedgerStep(a), Asked(a)
  PROVE  Ledger!Next \/ UNCHANGED Ledger!vars
<1>t. TypeOK BY DEF IInv
<1> DEFINE lines == [k \in Keys |-> IF store[k] = NoEntry THEN NoEntry ELSE LineOf(store[k])]
           reqs == [b \in Attempts |-> IF Keyed(b) THEN <<key[b], hash[b]>> ELSE NoEntry]
           told == [b \in Attempts |-> IF res[b].kind \in {"fresh", "replayed"} THEN res[b].of ELSE NoEntry]
<1>1. PICK k \in Keys, h \in Payloads : k = key[a] /\ h = hash[a] BY <1>t DEF TypeOK
<1>2. clock' = clock BY DEF Asked
<1>3. reqs' = reqs /\ reqs[a] = <<k, h>>
  <2>1. res[a].kind # "uncached" /\ "refused" \notin res[a].errs BY DEF FInv, ProgressOK, Asked
  <2>2. Keyed(a) /\ Keyed(a)' BY <2>1 DEF Keyed, Asked
  <2>3. \A b \in Attempts : Keyed(b)' = Keyed(b) BY <2>2 DEF Keyed, Asked
  <2>4. UNCHANGED <<key, hash>> BY DEF Asked
  <2> QED BY <1>1, <2>2, <2>3, <2>4
<1>4. /\ told[a] = NoEntry
      /\ ~Succeeds(a) => told' = told
      /\ Succeeds(a) => told' = [told EXCEPT ![a] = res'[a].of]
  BY DEF FInv, ProgressOK, Asked, Succeeds, Success
<1>5. ASSUME NEW e \in Entry, store' = [store EXCEPT ![k] = e]
      PROVE  lines' = [lines EXCEPT ![k] = LineOf(e)]
  BY <1>5, <1>t, ConstantsOK DEF TypeOK, LineOf
<1>6. UNCHANGED store => lines' = lines BY DEF LineOf
<1>7. Claim(a) \in Entry /\ Marker(a) \in Entry /\ Final(a) \in Entry BY <1>t, WritesTyped
<1>8. lines[k] = (IF store[k] = NoEntry THEN NoEntry ELSE LineOf(store[k])) BY <1>1
<1>9. now[a] \in 0 .. clock BY <1>t, ConstantsOK DEF TypeOK, Times, LInv
<1>10. HashMatches(k, Claim(a)) =>
         /\ lines[k] # NoEntry
         /\ lines[k] = [state |-> "running", payload |-> h, by |-> a, until |-> now[a]]
         /\ lines[k].state = "running" /\ lines[k].by = a
  <2> SUFFICES ASSUME HashMatches(k, Claim(a))
               PROVE  /\ lines[k] # NoEntry
                      /\ lines[k] = [state |-> "running", payload |-> h, by |-> a, until |-> now[a]]
                      /\ lines[k].state = "running" /\ lines[k].by = a
    OBVIOUS
  <2>1. store[k] # NoEntry /\ store[k].kind = "claim" /\ store[k].tok = a
    BY DEF HashMatches, Claim
  <2>2. store[k] = Claim(a) BY <1>1, <2>1 DEF LInv
  <2> QED BY <1>t, <1>7, <1>8, <2>1, <2>2, <1>1, LineFacts, OwnLines
<1>l. lines = [x \in Keys |-> lines[x]] OBVIOUS
<1> HIDE DEF lines, reqs, told
<1>f. Fresh(a).of = a /\ Success(Fresh(a)) BY DEF Fresh, Success
<1>11. CASE UNCHANGED store /\ ~Succeeds(a)
  BY <1>2, <1>3, <1>4, <1>6, <1>11 DEF Ledger!vars, lines, reqs, told
<1>12. CASE /\ store' = [store EXCEPT ![k] = Claim(a)] /\ ~Succeeds(a)
            /\ store[k] = NoEntry \/ (store[k].kind = "retryable" /\ store[k].hash = h)
  <2>1. lines' = [lines EXCEPT ![k] = [state |-> "running", payload |-> h, by |-> a, until |-> now[a]]]
    BY <1>5, <1>7, <1>12, <1>1, <1>t, OwnLines
  <2>2. lines[k] = NoEntry \/ (lines[k] # NoEntry /\ lines[k].state = "open" /\ lines[k].payload = h)
    BY <1>1, <1>8, <1>12, <1>t, LineFacts DEF TypeOK
  <2>3. Ledger!WriteLine(k, "running", h, a) BY <1>9, <2>1 DEF Ledger!WriteLine, lines, reqs, told
  <2>4. Ledger!Take(a, k, h)
    BY <1>2, <1>3, <1>4, <1>12, <2>2, <2>3 DEF Ledger!Take, Ledger!At, lines, reqs, told
  <2> QED BY <1>1, <2>4 DEF Ledger!Next
<1>13. CASE store' = [store EXCEPT ![k] = Marker(a)] /\ ~Succeeds(a) /\ HashMatches(k, Claim(a))
  <2>1. lines' = [lines EXCEPT ![k] = [state |-> "open", payload |-> h, by |-> a, until |-> clock]]
    BY <1>5, <1>7, <1>13, <1>1, <1>t, OwnLines
  <2>2. lines' = [lines EXCEPT ![k].state = "open", ![k].until = clock]
    <3>1. lines[k] = [state |-> "running", payload |-> h, by |-> a, until |-> now[a]] BY <1>10, <1>13
    <3>2. [lines[k] EXCEPT !.state = "open"] = [state |-> "open", payload |-> h, by |-> a, until |-> now[a]]
      BY ONLY <3>1, LineFields
    <3> DEFINE open == [state |-> "open", payload |-> h, by |-> a, until |-> now[a]]
               part == [lines EXCEPT ![k].state = "open"]
    <3>3. part = [lines EXCEPT ![k] = open] BY ONLY <3>2, Zenon
    <3>4. part[k] = open BY ONLY k \in Keys, <1>l, <3>3
    <3>5. [part[k] EXCEPT !.until = clock] = [state |-> "open", payload |-> h, by |-> a, until |-> clock]
      BY ONLY <3>4, LineFields
    <3>6. [part EXCEPT ![k].until = clock] =
            [part EXCEPT ![k] = [state |-> "open", payload |-> h, by |-> a, until |-> clock]]
      BY ONLY <3>5, Zenon
    <3>7. [part EXCEPT ![k] = [state |-> "open", payload |-> h, by |-> a, until |-> clock]] =
            [lines EXCEPT ![k] = [state |-> "open", payload |-> h, by |-> a, until |-> clock]]
      <4> HIDE DEF open
      <4> QED BY ONLY k \in Keys, <1>l, <3>3
    <3> QED BY <2>1, <3>6, <3>7
  <2>3. Ledger!GiveUp(k)
    BY <1>2, <1>3, <1>4, <1>10, <1>13, <2>2 DEF Ledger!GiveUp, Ledger!At, lines, reqs, told
  <2> QED BY <1>1, <2>3 DEF Ledger!Next
<1>14. CASE /\ store' = [store EXCEPT ![k] = Final(a)]
            /\ ~Succeeds(a) \/ res'[a] = Fresh(a)
            /\ HashMatches(k, Claim(a)) \/ store[k] = NoEntry
  <2>1. lines' = [lines EXCEPT ![k] = [state |-> "answered", payload |-> h, by |-> a, until |-> now[a]]]
    BY <1>5, <1>7, <1>14, <1>1, <1>t, OwnLines
  <2>2. told' = told \/ (told[a] = NoEntry /\ told' = [told EXCEPT ![a] = a])
    BY <1>4, <1>14, <1>f DEF Succeeds
  <2>3. CASE HashMatches(k, Claim(a))
    <3>1. lines' = [lines EXCEPT ![k].state = "answered"]
      <4>1. lines[k] = [state |-> "running", payload |-> h, by |-> a, until |-> now[a]] BY <1>10, <2>3
      <4>2. [lines[k] EXCEPT !.state = "answered"] =
              [state |-> "answered", payload |-> h, by |-> a, until |-> now[a]]
        BY ONLY <4>1, LineFields
      <4> QED BY ONLY <2>1, <4>2
    <3>2. Ledger!Settle(k)
      BY <1>2, <1>3, <1>10, <2>2, <2>3, <3>1 DEF Ledger!Settle, Ledger!At, Ledger!Tell, lines, reqs, told
    <3> QED BY <1>1, <3>2 DEF Ledger!Next
  <2>4. CASE store[k] = NoEntry
    <3>1. lines[k] = NoEntry BY <1>8, <2>4
    <3>2. Ledger!WriteLine(k, "answered", h, a) BY <1>9, <2>1 DEF Ledger!WriteLine, lines, reqs, told
    <3>3. Ledger!SettleFirst(a, k, h)
      BY <1>2, <1>3, <2>2, <3>1, <3>2 DEF Ledger!SettleFirst, Ledger!Tell, lines, reqs, told
    <3> QED BY <1>1, <3>3 DEF Ledger!Next
  <2> QED BY <1>14, <2>3, <2>4
<1>15. CASE UNCHANGED store /\ store[k] # NoEntry /\ Succeeds(a) /\ res'[a] = evaluateExisting(a, store[k])
  <2>1. store[k].kind = "final" /\ res'[a].of = store[k].tok /\ store[k].hash = h
    <3>1. /\ store[k].kind = "final" /\ res'[a].of = store[k].tok /\ res'[a].of \in effected
          /\ hash[res'[a].of] = h
      BY <1>1, <1>t, <1>15, RowAnswers DEF FInv, Succeeds
    <3>2. store[k] = Final(store[k].tok) BY <1>1, <1>15, <3>1 DEF FInv, FinalOK
    <3> QED BY <3>1, <3>2 DEF Final
  <2>2. lines[k] # NoEntry /\ lines[k].state = "answered" /\ lines[k].payload = h /\ lines[k].by = store[k].tok
    BY <1>1, <1>8, <1>15, <1>t, <2>1, LineFacts DEF TypeOK
  <2>3. Ledger!Repeat(a, k)
    BY <1>2, <1>3, <1>4, <1>6, <1>15, <2>1, <2>2 DEF Ledger!Repeat, Ledger!At, Ledger!Tell, lines, reqs, told
  <2> QED BY <1>1, <2>3 DEF Ledger!Next
<1>16. CASE UNCHANGED store /\ store[k] = NoEntry /\ res'[a] = Fresh(a)
  <2>1. Ledger!Unmatched(a, k, h)
    BY <1>2, <1>3, <1>4, <1>6, <1>8, <1>16, <1>f DEF Ledger!Unmatched, Ledger!Tell, Succeeds, lines, reqs, told
  <2> QED BY <1>1, <2>1 DEF Ledger!Next
<1> QED BY <1>11, <1>12, <1>13, <1>14, <1>15, <1>16, <1>1 DEF LedgerStep

\* So is every step of anybody: beginning is asking, a sweep retires lines,
\* an operator strikes one out, and calls outside the store leave no trace.
LEMMA LedgerNext ==
  IInv /\ FInv /\ SeenMine /\ LInv /\ [Next]_vars => [Ledger!Next]_(Ledger!vars)
<1> SUFFICES ASSUME IInv, FInv, SeenMine, LInv, [Next]_vars
             PROVE  Ledger!Next \/ UNCHANGED Ledger!vars
  OBVIOUS
<1>t. TypeOK /\ TypeOK' BY TypeNext DEF IInv
<1> DEFINE lines == [k \in Keys |-> IF store[k] = NoEntry THEN NoEntry ELSE LineOf(store[k])]
           reqs == [b \in Attempts |-> IF Keyed(b) THEN <<key[b], hash[b]>> ELSE NoEntry]
           told == [b \in Attempts |-> IF res[b].kind \in {"fresh", "replayed"} THEN res[b].of ELSE NoEntry]
<1>q. UNCHANGED store => lines' = lines BY DEF LineOf
<1>n. UNCHANGED <<pc, key, hash, res>> => reqs' = reqs /\ told' = told BY DEF Keyed
<1>x. \A k \in Keys : store[k] # NoEntry => store[k] \in Entry BY <1>t DEF TypeOK
<1> USE DEF request, history, started
<1>1. ASSUME NEW a \in Attempts, Step(a) PROVE Ledger!Next \/ UNCHANGED Ledger!vars
  <2>0. pc[a] = "idle" => ~Keyed(a) /\ reqs[a] = NoEntry /\ res[a].kind = "none" /\ res[a].errs = {}
    BY DEF Keyed, FInv, ProgressOK
  <2>1. CASE Refuse(a) \/ RunUncached(a)
    <3>1. /\ pc[a] = "idle" /\ UNCHANGED <<clock, store, key, hash>>
          /\ \A b \in Attempts : b # a => pc'[b] = pc[b] /\ res'[b] = res[b]
          /\ "refused" \in res'[a].errs \/ res'[a].kind = "uncached"
          /\ res'[a].kind \notin {"fresh", "replayed"}
      <4>1. Err(a, {"refused"}).kind = "error" /\ "refused" \in Err(a, {"refused"}).errs BY DEF Err
      <4> QED BY <1>t, <2>1, <4>1 DEF Refuse, RunUncached, Goto, Finish, TypeOK
    <3>2. \A b \in Attempts : Keyed(b)' = Keyed(b) BY <2>0, <3>1 DEF Keyed
    <3>3. reqs' = reqs /\ told' = told BY <2>0, <3>1, <3>2
    <3> QED BY <1>q, <3>1, <3>3 DEF Ledger!vars
  <2>2. CASE \E k \in Keys, h \in Payloads : Begin(a, k, h)
    <3>1. PICK k \in Keys, h \in Payloads : Begin(a, k, h) BY <2>2
    <3>2. /\ pc[a] = "idle" /\ pc'[a] = "get" /\ UNCHANGED <<clock, store, res>>
          /\ \A b \in Attempts : b # a => pc'[b] = pc[b] /\ key'[b] = key[b] /\ hash'[b] = hash[b]
          /\ key'[a] = k /\ hash'[a] = h
      BY <1>t, <3>1 DEF Begin, Goto, TypeOK
    <3>3. Keyed(a)' /\ \A b \in Attempts : b # a => Keyed(b)' = Keyed(b) BY <2>0, <3>2 DEF Keyed
    <3>4. reqs' = [reqs EXCEPT ![a] = <<k, h>>] BY <3>2, <3>3
    <3>5. told' = told BY <3>2
    <3>6. Ledger!Ask(a, k, h) BY <1>q, <2>0, <3>2, <3>4, <3>5 DEF Ledger!Ask
    <3> QED BY <3>6 DEF Ledger!Next
  <2>3. CASE ~(Refuse(a) \/ RunUncached(a) \/ \E k \in Keys, h \in Payloads : Begin(a, k, h))
    BY <1>1, <1>t, <2>3, StepLedger, LedgerOfStep
  <2> QED BY <2>1, <2>2, <2>3
<1>2. ASSUME NEW k \in Keys, Reconcile(k) PROVE Ledger!Next \/ UNCHANGED Ledger!vars
  <2>1. lines[k] # NoEntry /\ lines[k].state = "running"
    BY <1>2, <1>x, LineFacts DEF Reconcile
  <2>2. lines' = [lines EXCEPT ![k] = NoEntry]
    BY <1>2, <1>t DEF Reconcile, Write, TypeOK, LineOf
  <2>3. UNCHANGED <<clock, pc, key, hash, res>> BY <1>2 DEF Reconcile
  <2>4. Ledger!Strike(k) BY <1>n, <2>1, <2>2, <2>3 DEF Ledger!Strike, Ledger!At
  <2> QED BY <2>4 DEF Ledger!Next
<1>3. CASE Sweep
  <2>1. PICK K \in SUBSET Keys : K = {k \in Keys : Sweepable(store[k])} OBVIOUS
  <2>2. ASSUME NEW k \in K
        PROVE  lines[k] # NoEntry /\ lines[k].state # "running" /\ lines[k].until + (TTL + ClockSkew) < clock
    <3>1. store[k] \in Entry /\ store[k].kind # "claim" /\ clock > store[k].exp + Grace /\ k \in Keys
          /\ store[k] # NoEntry
      BY <1>x, <2>1, <2>2 DEF Sweepable
    <3>2. store[k].exp \in Nat /\ store[k].kind \in {"claim", "retryable", "final"}
      BY <3>1 DEF Entry, EntryKinds
    <3>3. lines[k] = LineOf(store[k]) BY <3>1
    <3>4. LineOf(store[k]) # NoEntry /\ LineOf(store[k]).state # "running"
          /\ LineOf(store[k]).until = store[k].exp - TTL
      BY <3>1, <3>2, LineFacts
    <3>5. clock \in Nat BY <1>t, ConstantsOK DEF TypeOK, Times
    <3>6. (store[k].exp - TTL) + (TTL + ClockSkew) < clock BY <3>1, <3>2, <3>5, ConstantsOK
    <3> HIDE DEF lines
    <3> QED BY <3>3, <3>4, <3>6
  <2>3. lines' = [k \in Keys |-> IF k \in K THEN NoEntry ELSE lines[k]]
    BY <1>3, <2>1 DEF Sweep, LineOf
  <2>4. UNCHANGED <<clock, pc, key, hash, res>> BY <1>3 DEF Sweep
  <2>5. Ledger!Retire(K)
    BY <1>n, <2>2, <2>3, <2>4 DEF Ledger!Retire, Ledger!At, Ledger!Over
  <2> QED BY <2>5 DEF Ledger!Next
<1>4. CASE Tick
  <2>1. clock' = clock + 1 /\ UNCHANGED <<store, pc, key, hash, res>> BY <1>4 DEF Tick
  <2>2. Ledger!Tick BY <1>n, <1>q, <2>1 DEF Ledger!Tick
  <2> QED BY <2>2 DEF Ledger!Next
<1>5. CASE UNCHANGED vars
  BY <1>5, <1>n, <1>q DEF vars, Ledger!vars
<1> QED BY <1>1, <1>2, <1>3, <1>4, <1>5 DEF Next

\* Wrap over any backend implements the ledger, for every number of calls and
\* keys: every race, retry, ambiguous database error and sweep of the detailed
\* store is one atomic step of a ledger with one line per key, or none.
THEOREM StoreImplementsLedger == Spec => ImplementsLedger
<1> DEFINE Inv == IInv /\ FInv /\ SeenMine /\ LInv
<1>1. Init => Inv BY IInvInit, FInvInit, LInvInit DEF Init, SeenMine
<1>2. Inv /\ [Next]_vars => Inv' BY IInvNext, FInvNext, SeenMineNext, LInvNext DEF IInv
<1>3. Inv /\ [Next]_vars => [Ledger!Next]_(Ledger!vars) BY LedgerNext
<1> HIDE DEF Inv
<1>4. Spec => [][Ledger!Next]_(Ledger!vars) BY <1>1, <1>2, <1>3, PTL DEF Spec
<1>5. Spec => Ledger!Init BY LedgerInit DEF Spec
<1> QED BY <1>4, <1>5, PTL DEF ImplementsLedger, Ledger!Spec
=============================================================================
