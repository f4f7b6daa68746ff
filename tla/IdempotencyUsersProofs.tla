----------------------- MODULE IdempotencyUsersProofs -----------------------
(***************************************************************************)
(* The two users of the idempotency store: MCP tools (IdempotentTool) and  *)
(* webhook receivers (WebhookDelivery).  Each is shown to run the store as *)
(* it is specified, so that the store's theorems are theirs, and then to   *)
(* keep its own promises.                                                  *)
(***************************************************************************)
EXTENDS IdempotentTool, WebhookDelivery, IdempotencyProofs, FiniteSetTheorems

-----------------------------------------------------------------------------
(* What one call of Wrap tells its caller.                                 *)

\* Everything an error of Wrap can be made of.
ErrorSets ==
  {{"refused"}, {"backend"}, {"conflict"}, {"in_flight"}, {"expired"}, {"handler"}, {"unknown"},
   {"record_failed"}, {"claim_lost"}, {"handler", "claim_lost"}, {"handler", "release_failed"}, {"crashed"}}

\* The call's claim is in the store.
ClaimOf(a) == store[key[a]] # NoEntry /\ store[key[a]].kind = "claim" /\ store[key[a]].tok = a

HandlerError(r) == r.kind = "error" /\ r.errs = {"handler"}

\* The answers that do not hide an effect.
Acknowledges(r) ==
  \/ r.kind \in {"none", "fresh"}
  \/ r.kind = "error" /\ r.errs \in {{"record_failed"}, {"unknown"}, {"crashed"}}

\* An error is one of the sets above; a call that ends in its handler's error
\* took no effect and left no claim; one that took effect is acknowledged.
TellsOK ==
  \A a \in Attempts :
    /\ res[a].kind = "error" => res[a].errs \in ErrorSets
    /\ HandlerError(res[a]) => pc[a] = "done" /\ a \notin effected /\ ~ClaimOf(a)
    /\ (a \in effected /\ Guarded(a)) => Acknowledges(res[a])
    /\ pc[a] = "reget" => a \notin effected

\* A step of attempt a, as far as others and its own answer are concerned.
Tells(a) ==
  /\ pc[a] # "done" /\ UNCHANGED <<backend, clock, removed>>
  /\ \A b \in Attempts : b # a => res'[b] = res[b] /\ pc'[b] = pc[b] /\ key'[b] = key[b]
  /\ effected' = effected \/ effected' = effected \cup {a}
  /\ \A k \in Keys : store'[k] = store[k] \/ (store'[k] # NoEntry /\ store'[k].tok = a)
  /\ res'[a].kind = "error" => res'[a].errs \in ErrorSets
  /\ HandlerError(res'[a]) => pc'[a] = "done" /\ a \notin effected' /\ ~ClaimOf(a)'
  /\ (a \in effected' /\ Guarded(a)') => Acknowledges(res'[a])
  /\ pc'[a] = "reget" => a \notin effected'

\* Every action of Wrap is such a step.
LEMMA StepTells ==
  ASSUME IInv, FInv, SeenMine, TellsOK, NEW a \in Attempts, Step(a)
  PROVE  Tells(a)
<1>t. TypeOK BY DEF IInv
<1>g. /\ res \in [Attempts -> Result] /\ pc \in [Attempts -> PcValues] /\ key[a] \in Keys
      /\ store \in [Keys -> Entry \cup {NoEntry}] /\ NoEntry \notin Entry
  BY <1>t, ConstantsOK DEF TypeOK
<1>n. pc[a] # "done" => res[a].kind = "none" BY DEF FInv, ProgressOK
<1>r. /\ \A E : Err(a, E).kind = "error" /\ Err(a, E).errs = E
      /\ Fresh(a).kind = "fresh"
  BY DEF Err, Fresh
<1>z. ASSUME NEW r, Finish(a, r)
      PROVE  pc' = [pc EXCEPT ![a] = "done"] /\ res' = [res EXCEPT ![a] = r] /\ res'[a] = r /\ pc'[a] = "done"
  BY <1>g, <1>z DEF Finish, Goto
<1>w. /\ Claim(a).tok = a /\ Final(a).tok = a /\ Marker(a).tok = a
      /\ Marker(a).kind = "retryable" /\ Claim(a).kind = "claim" /\ Claim(a).hash = hash[a]
      /\ Claim(a) # NoEntry /\ Final(a) # NoEntry /\ Marker(a) # NoEntry
  <2>1. Claim(a) \in Entry /\ Final(a) \in Entry /\ Marker(a) \in Entry BY <1>t, WritesTyped
  <2> QED BY <1>g, <2>1 DEF Claim, Final, Marker
<1>h. /\ pc[a] \in {"idle", "get", "put", "reclaim", "handler", "release", "reget"} => a \notin effected
      /\ pc[a] = "reread" /\ Claiming => a \notin effected
  BY DEF IInv, HistoryOK, TellsOK
<1>c. (Guarded(a) /\ pc[a] = "record") => HashMatches(key[a], Claim(a))
  BY <1>w DEF IInv, ClaimHeld, Holding, HashMatches
<1>d. ~Claiming => ~ClaimOf(a) BY <1>g DEF FInv, Kept, ClaimOf
<1>e. \A e \in Entry : \/ evaluateExisting(a, e).kind = "replayed"
                        \/ /\ evaluateExisting(a, e).kind = "error"
                           /\ evaluateExisting(a, e).errs \in {{"in_flight"}, {"conflict"}, {"expired"}}
  BY <1>r DEF evaluateExisting
<1> DEFINE Calm == /\ pc[a] # "done" /\ UNCHANGED <<backend, clock, removed, key>>
                   /\ effected' = effected \/ effected' = effected \cup {a}
                   /\ UNCHANGED store \/ \E e \in {Claim(a), Final(a), Marker(a)} : Write(key[a], e)
<1>1. ASSUME Calm, UNCHANGED res, \E l \in PcValues \ {"reget"} : Goto(a, l)
      PROVE  Tells(a)
  <2>1. res'[a].kind = "none" BY <1>1, <1>n
  <2> QED BY <1>1, <1>g, <1>w, <2>1 DEF Tells, Goto, HandlerError, Acknowledges, Write
<1>2. ASSUME Calm, NEW r, Finish(a, r), r.kind = "error" => r.errs \in ErrorSets,
             HandlerError(r) => a \notin effected' /\ ~ClaimOf(a)',
             (a \in effected' /\ Guarded(a)) => Acknowledges(r)
      PROVE  Tells(a)
  <2>1. Guarded(a)' = Guarded(a) BY <1>2 DEF Guarded, Claiming
  <2> QED BY <1>2, <1>g, <1>w, <1>z, <2>1 DEF Tells, Write
<1>p. \A l \in {"get", "put", "reread", "reclaim", "handler", "record", "release", "done"} :
        l \in PcValues \ {"reget"}
  BY DEF PcValues
<1>b. \A x \in {"refused", "backend", "conflict", "in_flight", "expired", "unknown", "record_failed",
                "claim_lost", "crashed"} :
        Err(a, {x}).errs \in ErrorSets /\ ~HandlerError(Err(a, {x}))
  <2>1. \A x \in {"refused", "backend", "conflict", "in_flight", "expired", "unknown", "record_failed",
                  "claim_lost", "crashed"} : {x} \in ErrorSets /\ {x} # {"handler"}
    BY DEF ErrorSets
  <2> QED BY <1>r, <2>1 DEF HandlerError
<1>k. \A x \in {"record_failed", "unknown", "crashed"} : Acknowledges(Err(a, {x}))
  BY <1>r DEF Acknowledges
<1>3. ASSUME NEW e, e = store[key[a]], e # NoEntry, Resolve(a, e), Calm, UNCHANGED store,
             (a \in effected' /\ Guarded(a)) => FALSE
      PROVE  Tells(a)
  <2>1. CASE Goto(a, "reclaim") /\ UNCHANGED res
    BY <1>1, <1>3, <1>p, <2>1
  <2>2. CASE Finish(a, evaluateExisting(a, e))
    <3>1. e \in Entry BY <1>3, <1>g
    <3>2. /\ evaluateExisting(a, e).kind = "error" => evaluateExisting(a, e).errs \in ErrorSets
          /\ ~HandlerError(evaluateExisting(a, e))
      <4>1. {{"in_flight"}, {"conflict"}, {"expired"}} \subseteq ErrorSets
            /\ {"handler"} \notin {{"in_flight"}, {"conflict"}, {"expired"}}
        BY DEF ErrorSets
      <4> QED BY <1>e, <3>1, <4>1 DEF HandlerError
    <3> QED BY <1>2, <1>3, <2>2, <3>2
  <2> QED BY <1>3, <2>1, <2>2 DEF Resolve
<1> USE DEF request, history, started
<1>4. CASE Refuse(a)
  <2>1. Calm BY <1>4 DEF Refuse
  <2>2. effected' = effected /\ a \notin effected BY <1>4, <1>h DEF Refuse
  <2> QED BY <1>2, <1>4, <1>b, <2>1, <2>2 DEF Refuse
<1>5. CASE RunUncached(a)
  <2>1. Calm BY <1>5 DEF RunUncached
  <2>2. effected' = effected /\ a \notin effected BY <1>5, <1>h DEF RunUncached
  <2> QED BY <1>2, <1>5, <2>1, <2>2 DEF RunUncached, HandlerError
<1>6. CASE \E k \in Keys, h \in Payloads : Begin(a, k, h)
  <2>1. PICK k \in Keys, h \in Payloads : Begin(a, k, h) BY <1>6
  <2> QED BY <1>g, <1>n, <1>t, <2>1 DEF Begin, Goto, Tells, HandlerError, Acknowledges, TypeOK
<1>7. CASE Get(a)
  <2>1. Calm /\ UNCHANGED store BY <1>7 DEF Get
  <2>2. effected' = effected /\ a \notin effected BY <1>7, <1>h DEF Get
  <2>3. CASE store[key[a]] = NoEntry
    <3>1. UNCHANGED res /\ \E l \in PcValues \ {"reget"} : Goto(a, l)
      BY <1>7, <1>p, <2>3 DEF Get, StartHandler
    <3> QED BY <1>1, <2>1, <3>1
  <2>4. CASE store[key[a]] # NoEntry
    BY <1>3, <1>7, <2>1, <2>2, <2>4 DEF Get
  <2> QED BY <2>3, <2>4
<1>8. CASE GetFails(a)
  <2>1. Calm /\ effected' = effected BY <1>8 DEF GetFails
  <2>2. Guarded(a) => a \notin effected BY <1>8, <1>h DEF GetFails, Guarded
  <2> QED BY <1>2, <1>8, <1>b, <2>1, <2>2 DEF GetFails
<1>9. CASE PutClaim(a)
  <2>1. Calm BY <1>9 DEF PutClaim
  <2>2. effected' = effected /\ a \notin effected BY <1>9, <1>h DEF PutClaim
  <2>3. CASE store[key[a]] = NoEntry
    <3>1. UNCHANGED res /\ \E l \in PcValues \ {"reget"} : Goto(a, l)
      BY <1>9, <1>p, <2>3 DEF PutClaim, StartHandler
    <3> QED BY <1>1, <2>1, <3>1
  <2>4. CASE store[key[a]] # NoEntry /\ backend = "memory"
    BY <1>3, <1>9, <2>1, <2>2, <2>4 DEF PutClaim
  <2>5. CASE store[key[a]] # NoEntry /\ backend # "memory"
    <3>1. UNCHANGED res /\ \E l \in PcValues \ {"reget"} : Goto(a, l)
      BY <1>9, <1>p, <2>5 DEF PutClaim
    <3> QED BY <1>1, <2>1, <3>1
  <2> QED BY <2>3, <2>4, <2>5
<1>10. CASE PutClaimFails(a)
  <2>1. Calm BY <1>10 DEF PutClaimFails
  <2>2. effected' = effected /\ a \notin effected BY <1>10, <1>h DEF PutClaimFails
  <2> QED BY <1>2, <1>10, <1>b, <2>1, <2>2 DEF PutClaimFails
<1>11. CASE Reread(a)
  <2>1. Calm /\ UNCHANGED store /\ effected' = effected BY <1>11 DEF Reread
  <2>2. Guarded(a) => a \notin effected BY <1>11, <1>h DEF Reread, Guarded
  <2>3. CASE store[key[a]] = NoEntry
    BY <1>2, <1>11, <1>b, <1>r, <2>1, <2>2, <2>3 DEF Reread, HandlerError
  <2>4. CASE store[key[a]] # NoEntry
    BY <1>3, <1>11, <2>1, <2>2, <2>4 DEF Reread
  <2> QED BY <2>3, <2>4
<1>12. CASE Reclaim(a)
  <2>1. Calm BY <1>12 DEF Reclaim
  <2>2. effected' = effected /\ a \notin effected /\ UNCHANGED res BY <1>12, <1>h DEF Reclaim
  <2>3. CASE HashMatches(key[a], seen[a])
    <3>1. \E l \in PcValues \ {"reget"} : Goto(a, l) BY <1>12, <1>p, <2>3 DEF Reclaim, StartHandler
    <3> QED BY <1>1, <2>1, <2>2, <3>1
  <2>4. CASE ~HashMatches(key[a], seen[a])
    BY <1>12, <1>g, <1>n, <2>1, <2>2, <2>4
       DEF Reclaim, Goto, Tells, HandlerError, Acknowledges
  <2> QED BY <2>3, <2>4
<1>13. CASE ReclaimFails(a)
  <2>1. Calm BY <1>13 DEF ReclaimFails
  <2>2. effected' = effected /\ a \notin effected BY <1>13, <1>h DEF ReclaimFails
  <2> QED BY <1>2, <1>13, <1>b, <2>1, <2>2 DEF ReclaimFails
<1>14. CASE Reget(a)
  <2>1. Calm BY <1>14 DEF Reget
  <2>2. effected' = effected /\ a \notin effected BY <1>14, <1>h DEF Reget
  <2>3. CASE store[key[a]] = NoEntry
    BY <1>2, <1>14, <1>b, <2>1, <2>2, <2>3 DEF Reget
  <2>4. CASE store[key[a]] # NoEntry
    <3>1. store[key[a]] \in Entry BY <1>g, <2>4
    <3>2. {{"in_flight"}, {"conflict"}, {"expired"}} \subseteq ErrorSets
          /\ {"handler"} \notin {{"in_flight"}, {"conflict"}, {"expired"}}
      BY DEF ErrorSets
    <3> QED BY <1>2, <1>14, <1>e, <2>1, <2>2, <2>4, <3>1, <3>2 DEF Reget, HandlerError
  <2> QED BY <2>3, <2>4
<1>15. CASE HandlerReturns(a)
  <2>1. Calm /\ UNCHANGED res /\ Goto(a, "record") BY <1>15 DEF HandlerReturns
  <2> QED BY <1>1, <1>p, <2>1
<1>16. CASE HandlerFails(a)
  <2>1. Calm BY <1>16 DEF HandlerFails
  <2>2. effected' = effected /\ a \notin effected BY <1>16, <1>h DEF HandlerFails
  <2>3. CASE Claiming
    BY <1>1, <1>16, <1>p, <2>1, <2>3 DEF HandlerFails
  <2>4. CASE ~Claiming
    <3>1. ~ClaimOf(a)' BY <1>d, <1>16, <2>4 DEF HandlerFails, ClaimOf
    <3>2. Err(a, {"handler"}).errs \in ErrorSets BY <1>r DEF ErrorSets
    <3> QED BY <1>2, <1>16, <2>1, <2>2, <2>4, <3>1, <3>2 DEF HandlerFails
  <2> QED BY <2>3, <2>4
<1>17. CASE HandlerUnknown(a) \/ Crash(a)
  <2>1. Calm BY <1>17 DEF HandlerUnknown, Crash
  <2>2. Finish(a, Err(a, {"unknown"})) \/ Finish(a, Err(a, {"crashed"}))
    BY <1>17 DEF HandlerUnknown, Crash
  <2> QED BY <1>2, <1>b, <1>k, <2>1, <2>2
<1>18. CASE Record(a)
  <2>1. Calm BY <1>18 DEF Record
  <2>2. CASE Finish(a, Fresh(a))
    BY <1>2, <1>r, <2>1, <2>2 DEF HandlerError, Acknowledges
  <2>3. CASE ~HashMatches(key[a], Claim(a)) /\ Finish(a, Err(a, {"claim_lost"}))
    <3>1. ~Guarded(a) BY <1>18, <1>c, <2>3 DEF Record
    <3> QED BY <1>2, <1>b, <2>1, <2>3, <3>1
  <2>4. CASE Goto(a, "reread") /\ UNCHANGED res
    BY <1>1, <1>p, <2>1, <2>4
  <2> QED BY <1>18, <2>2, <2>3, <2>4 DEF Record
<1>19. CASE RecordFails(a)
  <2>1. Calm BY <1>19 DEF RecordFails
  <2> QED BY <1>2, <1>19, <1>b, <1>k, <2>1 DEF RecordFails
<1>20. CASE Release(a) \/ ReleaseFails(a)
  <2>1. Calm BY <1>20 DEF Release, ReleaseFails
  <2>2. effected' = effected /\ a \notin effected BY <1>20, <1>h DEF Release, ReleaseFails
  <2>3. CASE Write(key[a], Marker(a)) /\ Finish(a, Err(a, {"handler"}))
    <3>1. ~ClaimOf(a)' BY <1>g, <1>w, <2>1, <2>3 DEF Write, ClaimOf
    <3>2. Err(a, {"handler"}).errs \in ErrorSets BY <1>r DEF ErrorSets
    <3> QED BY <1>2, <2>1, <2>2, <2>3, <3>1, <3>2
  <2>4. ASSUME NEW x \in {"claim_lost", "release_failed"}, Finish(a, Err(a, {"handler", x}))
        PROVE  Tells(a)
    <3>1. {"handler", x} \in ErrorSets /\ {"handler", x} # {"handler"} BY DEF ErrorSets
    <3> QED BY <1>2, <1>r, <2>1, <2>2, <2>4, <3>1 DEF HandlerError
  <2> QED BY <1>20, <2>3, <2>4 DEF Release, ReleaseFails
<1> QED
  BY <1>4, <1>5, <1>6, <1>7, <1>8, <1>9, <1>10, <1>11, <1>12, <1>13, <1>14, <1>15, <1>16, <1>17,
     <1>18, <1>19, <1>20 DEF Step

\* Nobody has been told anything at the start.
LEMMA TellsInit == Init => TellsOK
BY DEF Init, TellsOK, HandlerError, Acknowledges

\* Calls after the first keep it, and so do the operator, the sweeper and the
\* clock.
LEMMA TellsNext == IInv /\ FInv /\ SeenMine /\ TellsOK /\ [Next]_vars => TellsOK' /\ effected \subseteq effected'
<1> SUFFICES ASSUME IInv, FInv, SeenMine, TellsOK, [Next]_vars
             PROVE  TellsOK' /\ effected \subseteq effected'
  OBVIOUS
<1>t. TypeOK BY DEF IInv
<1>k. \A b \in Attempts : key[b] \in Keys BY <1>t DEF TypeOK
<1> USE DEF request, history, started
<1>1. ASSUME NEW a \in Attempts, Step(a) PROVE TellsOK' /\ effected \subseteq effected'
  <2>1. Tells(a) BY <1>1, StepTells
  <2>2. ASSUME NEW b \in Attempts, b # a
        PROVE  /\ res'[b] = res[b] /\ pc'[b] = pc[b] /\ key'[b] = key[b]
               /\ b \in effected' => b \in effected
               /\ Guarded(b)' => Guarded(b)
               /\ ClaimOf(b)' => ClaimOf(b)
    BY <1>k, <2>1, <2>2 DEF Tells, Guarded, Claiming, ClaimOf
  <2>3. ASSUME NEW b \in Attempts
        PROVE  /\ res'[b].kind = "error" => res'[b].errs \in ErrorSets
               /\ HandlerError(res'[b]) => pc'[b] = "done" /\ b \notin effected' /\ ~ClaimOf(b)'
               /\ (b \in effected' /\ Guarded(b)') => Acknowledges(res'[b])
               /\ pc'[b] = "reget" => b \notin effected'
    <3>1. CASE b = a BY <2>1, <3>1 DEF Tells
    <3>2. CASE b # a BY <2>2, <3>2 DEF TellsOK
    <3> QED BY <3>1, <3>2
  <2>4. effected \subseteq effected' BY <2>1 DEF Tells
  <2> QED BY <2>3, <2>4 DEF TellsOK
<1>2. ASSUME UNCHANGED <<backend, pc, key, res, effected>>, removed \subseteq removed',
             \A k \in Keys : store'[k] = store[k] \/ store'[k] = NoEntry
      PROVE  TellsOK' /\ effected \subseteq effected'
  <2>1. \A b \in Attempts : (Guarded(b)' => Guarded(b)) /\ (ClaimOf(b)' => ClaimOf(b))
    BY <1>2, <1>k DEF Guarded, Claiming, ClaimOf
  <2> QED BY <1>2, <2>1 DEF TellsOK
<1>3. CASE \E k \in Keys : Reconcile(k)
  BY <1>2, <1>3, <1>t DEF Reconcile, Write, TypeOK
<1>4. CASE Sweep BY <1>2, <1>4 DEF Sweep
<1>5. CASE Tick BY <1>2, <1>5 DEF Tick
<1>6. CASE UNCHANGED vars BY <1>2, <1>6 DEF vars
<1> QED BY <1>1, <1>3, <1>4, <1>5, <1>6 DEF Next

\* What the store's proofs and this module know of every state of the store.
StoreInv == IInv /\ FInv /\ SeenMine /\ TellsOK

\* It holds in every behaviour of the store.
THEOREM StoreKeeps == Spec => []StoreInv
<1>1. Init => StoreInv BY IInvInit, FInvInit, TellsInit DEF Init, SeenMine, StoreInv
<1>2. StoreInv /\ [Next]_vars => StoreInv'
  BY IInvNext, FInvNext, SeenMineNext, TellsNext DEF StoreInv, IInv
<1> QED BY <1>1, <1>2, PTL DEF Spec

-----------------------------------------------------------------------------
(* MCP tools.                                                              *)

\* A tool behind WithIdempotency runs the store as it is specified: a
\* response that cannot be encoded is a failed handler to Wrap.
THEOREM ToolRunsStore == ToolSpec => Spec
<1>1. ToolInit => Init BY DEF ToolInit
<1>2. [ToolNext]_toolVars => [Next]_vars
  BY DEF ToolNext, toolVars, EncodeFails, Next, Step
<1> QED BY <1>1, <1>2, PTL DEF ToolSpec, Spec

\* The tools' store implements the ledger too.
THEOREM ToolImplementsLedger == ToolSpec => ImplementsLedger
BY ToolRunsStore, StoreImplementsLedger, PTL

\* What a buyer is told of an error, set by set.
LEMMA ErrorsTold ==
  ASSUME NEW a \in Attempts, res[a].kind = "error", res[a].errs \in ErrorSets
  PROVE  /\ Told(a) = "tool_error" => res[a].errs = {"handler"} /\ a \notin unencoded
         /\ res[a].errs \in {{"record_failed"}, {"unknown"}} => Told(a) = "reconcile"
         /\ res[a].errs = {"crashed"} => Told(a) = "nothing"
<1> DEFINE E == res[a].errs
<1>1. Told(a) = ErrorTold(a) BY DEF Told
<1>2. CASE E = {"handler"}
  <2>1. E \cap {"release_failed", "record_failed"} = {} /\ "claim_lost" \notin E /\ E # {"unknown"}
        /\ E # {"backend"} /\ E # {"crashed"} /\ ~(E \subseteq {"conflict", "in_flight", "expired", "refused"})
    BY <1>2
  <2>2. ErrorTold(a) = IF a \in unencoded THEN "unavailable" ELSE "tool_error"
    BY <1>2, <2>1 DEF ErrorTold
  <2> QED BY <1>1, <1>2, <2>2
<1>3. CASE E \in {{"record_failed"}, {"handler", "release_failed"}}
  <2>1. E \cap {"release_failed", "record_failed"} # {} /\ E # {"handler"} /\ E # {"unknown"}
        /\ E # {"backend"} /\ E # {"crashed"} /\ ~(E \subseteq {"conflict", "in_flight", "expired", "refused"})
    BY <1>3
  <2>2. ErrorTold(a) = "reconcile" BY <2>1 DEF ErrorTold
  <2> QED BY <1>1, <1>3, <2>2
<1>4. CASE E \in {{"claim_lost"}, {"handler", "claim_lost"}}
  <2>1. E \cap {"release_failed", "record_failed"} = {} /\ "claim_lost" \in E /\ E # {"handler"} /\ E # {"unknown"}
        /\ E # {"backend"} /\ E # {"crashed"} /\ ~(E \subseteq {"conflict", "in_flight", "expired", "refused"})
    BY <1>4
  <2>2. ErrorTold(a) = "retry_safely" BY <2>1 DEF ErrorTold
  <2> QED BY <1>1, <1>4, <2>2
<1>5. CASE E = {"unknown"}
  <2>1. E \cap {"release_failed", "record_failed"} = {} /\ "claim_lost" \notin E /\ E # {"handler"}
        /\ E # {"backend"} /\ E # {"crashed"} /\ ~(E \subseteq {"conflict", "in_flight", "expired", "refused"})
    BY <1>5
  <2>2. ErrorTold(a) = "reconcile" BY <1>5, <2>1 DEF ErrorTold
  <2> QED BY <1>1, <1>5, <2>2
<1>6. CASE E = {"backend"}
  <2>1. E \cap {"release_failed", "record_failed"} = {} /\ "claim_lost" \notin E /\ E # {"handler"}
        /\ E # {"unknown"} /\ E # {"crashed"} /\ ~(E \subseteq {"conflict", "in_flight", "expired", "refused"})
    BY <1>6
  <2>2. ErrorTold(a) = "unavailable" BY <1>6, <2>1 DEF ErrorTold
  <2> QED BY <1>1, <1>6, <2>2
<1>7. CASE E = {"crashed"}
  <2>1. E \cap {"release_failed", "record_failed"} = {} /\ "claim_lost" \notin E /\ E # {"handler"}
        /\ E # {"unknown"} /\ E # {"backend"} /\ ~(E \subseteq {"conflict", "in_flight", "expired", "refused"})
    BY <1>7
  <2>2. ErrorTold(a) = "nothing" BY <1>7, <2>1 DEF ErrorTold
  <2> QED BY <1>1, <1>7, <2>2
<1>8. ASSUME NEW x \in {"conflict", "in_flight", "expired", "refused"}, E = {x}
      PROVE  ErrorTold(a) = x
  <2>1. E \cap {"release_failed", "record_failed"} = {} /\ "claim_lost" \notin E /\ E # {"handler"}
        /\ E # {"unknown"} /\ E # {"backend"} /\ E # {"crashed"}
        /\ E \subseteq {"conflict", "in_flight", "expired", "refused"}
    BY <1>8
  <2>2. ErrorTold(a) = CHOOSE e \in E : TRUE BY <2>1 DEF ErrorTold
  <2>3. \A e \in E : e = x BY <1>8
  <2>4. (CHOOSE e \in E : TRUE) \in E BY <1>8
  <2> QED BY <2>2, <2>3, <2>4
<1>9. CASE E \in {{"conflict"}, {"in_flight"}, {"expired"}, {"refused"}}
  <2>1. PICK x \in {"conflict", "in_flight", "expired", "refused"} : E = {x} BY <1>9
  <2>2. Told(a) = x BY <1>1, <1>8, <2>1
  <2> QED BY <2>1, <2>2
<1> QED BY <1>2, <1>3, <1>4, <1>5, <1>6, <1>7, <1>9 DEF ErrorSets

\* A buyer handed the tool's own error result may retry with the same key:
\* for every number of calls, the tool took no effect and left no claim.
THEOREM FailuresAreHonest == ToolSpec => []HonestFailure
<1>1. StoreInv => HonestFailure
  <2> SUFFICES ASSUME StoreInv, NEW a \in Attempts, Told(a) = "tool_error"
               PROVE  a \notin effected \cup unencoded /\ ~ClaimOf(a)
    BY DEF HonestFailure, ClaimOf
  <2>1. TypeOK /\ TellsOK BY DEF StoreInv, IInv
  <2>2. res[a] \in Result BY <2>1 DEF TypeOK
  <2>3. res[a].kind \in {"none", "fresh", "replayed", "uncached", "error"} BY <2>2 DEF Result
  <2>4. res[a].kind = "error"
    <3>1. res[a].kind = "none" => Told(a) = "nothing" BY DEF Told
    <3>2. res[a].kind = "fresh" => Told(a) = "fresh" BY DEF Told
    <3>3. res[a].kind = "uncached" => Told(a) = "uncached" BY DEF Told
    <3>4. res[a].kind = "replayed" => Told(a) \in {"panic", "replayed"} BY DEF Told, ReplayTold
    <3> QED BY <2>3, <3>1, <3>2, <3>3, <3>4
  <2>5. res[a].errs = {"handler"} /\ a \notin unencoded
    BY <2>1, <2>4, ErrorsTold DEF TellsOK
  <2> QED BY <2>1, <2>4, <2>5 DEF TellsOK, HandlerError
<1> QED BY <1>1, ToolRunsStore, StoreKeeps, PTL

\* A call that took effect is never answered as if it had not: for every
\* number of calls and every claim backend, it gets its response, is told to
\* reconcile, or gets no answer, unless an operator deleted its claim.
THEOREM EffectsAreAcknowledged == ToolSpec => []EffectsAcknowledged
<1>1. StoreInv => EffectsAcknowledged
  <2> SUFFICES ASSUME StoreInv, NEW a \in effected, Claiming, key[a] \notin removed
               PROVE  Told(a) \in {"fresh", "reconcile", "nothing"}
    BY DEF EffectsAcknowledged
  <2>1. TypeOK /\ TellsOK /\ a \in Attempts BY DEF StoreInv, IInv, TypeOK
  <2>2. Acknowledges(res[a]) BY <2>1 DEF TellsOK, Guarded
  <2>3. CASE res[a].kind \in {"none", "fresh"} BY <2>3 DEF Told
  <2>4. CASE res[a].kind = "error" /\ res[a].errs \in {{"record_failed"}, {"unknown"}, {"crashed"}}
    <3>1. res[a].errs \in ErrorSets BY <2>1, <2>4 DEF TellsOK
    <3> QED BY <2>1, <2>4, <3>1, ErrorsTold
  <2> QED BY <2>2, <2>3, <2>4 DEF Acknowledges
<1> QED BY <1>1, ToolRunsStore, StoreKeeps, PTL

-----------------------------------------------------------------------------
(* Webhooks.                                                               *)

\* Emit waits for POSTs it made, every one of them carries the one key, and a
\* delivery it reports was handled.
SentOK ==
  /\ sent \subseteq Attempts /\ current \in Attempts
  /\ \A a, b \in Attempts : key[a] = key[b]
  /\ \A a \in Attempts : EmitKey(a, key[a])

\* Emit's payload is stamped before the first POST.
LEMMA SentInit == EmitInit => SentOK
<1> SUFFICES ASSUME EmitInit PROVE SentOK OBVIOUS
<1>1. \A a \in Attempts : key[a] = CHOOSE k \in Keys : TRUE BY DEF EmitInit, Init
<1>2. (CHOOSE a \in Attempts : TRUE) \in Attempts BY ConstantsOK
<1>3. sent = {} /\ current \in Attempts BY <1>2 DEF EmitInit
<1> QED BY <1>1, <1>3 DEF SentOK, EmitKey

\* Every step of Emit, the network and the receiver keeps this, and is a step
\* of the receiver's store or leaves it alone.
LEMMA SentNext == TypeOK /\ SentOK /\ [EmitNext]_allVars => SentOK' /\ [Next]_vars
<1> SUFFICES ASSUME TypeOK, SentOK, [EmitNext]_allVars PROVE SentOK' /\ [Next]_vars OBVIOUS
<1> USE DEF SentOK
<1>1. CASE \E a \in Attempts : Send(a)
  BY <1>1 DEF Send, vars
<1>2. CASE Response \/ TransportFails \/ Wake \/ Cancel
  BY <1>2 DEF Response, TransportFails, Wake, Cancel, vars
<1>3. CASE Receive
  <2>1. PICK a \in sent : Step(a) /\ EmitKey(a, key'[a]) BY <1>3 DEF Receive
  <2>2. UNCHANGED <<sent, current>> BY <1>3 DEF Receive, publisher
  <2>3. [Next]_vars BY <2>1 DEF Next
  <2>4. \A b \in Attempts : b # a => key'[b] = key[b]
    <3>1. CASE UNCHANGED key BY <3>1
    <3>2. CASE \E k \in Keys, h \in Payloads : Begin(a, k, h) BY <3>2 DEF Begin, TypeOK
    <3>3. UNCHANGED key \/ \E k \in Keys, h \in Payloads : Begin(a, k, h)
      BY <2>1 DEF Step, Refuse, RunUncached, Get, GetFails, PutClaim, PutClaimFails, Reread, Reclaim,
                  ReclaimFails, Reget, HandlerReturns, HandlerFails, HandlerUnknown, Record, RecordFails,
                  Release, ReleaseFails, Crash, request
    <3> QED BY <3>1, <3>2, <3>3
  <2>5. \A b \in Attempts : key'[b] = CHOOSE x \in Keys : TRUE BY <2>1, <2>4 DEF EmitKey
  <2>6. SentOK' BY <2>2, <2>5 DEF EmitKey
  <2> QED BY <2>3, <2>6
<1>4. CASE Environment
  <2>1. UNCHANGED <<key, sent, current>> /\ [Next]_vars
    BY <1>4 DEF Environment, Next, Tick, Reconcile, request, publisher
  <2> QED BY <2>1 DEF EmitKey
<1>5. CASE UNCHANGED allVars BY <1>5 DEF allVars, vars, publisher
<1> QED BY <1>1, <1>2, <1>3, <1>4, <1>5 DEF EmitNext, Emit

\* A webhook receiver runs the store as it is specified, whatever the network
\* loses or delays and however often Emit retries.
THEOREM ReceiverRunsStore == EmitSpec => Spec
<1>1. EmitInit => Init /\ TypeOK /\ SentOK
  BY TypeInit, SentInit DEF EmitInit
<1>2. TypeOK /\ SentOK /\ [EmitNext]_allVars => TypeOK' /\ SentOK' /\ [Next]_vars
  BY SentNext, TypeNext
<1> QED BY <1>1, <1>2, PTL DEF EmitSpec, Spec

\* A delivery Emit reports was handled.
Handled == SentOK /\ DeliveredMeansHandled

\* A 2xx carries a response, and a response is an effect.
LEMMA HandledNext ==
  StoreInv /\ Handled /\ [EmitNext]_allVars => Handled'
<1> SUFFICES ASSUME StoreInv, Handled, [EmitNext]_allVars PROVE Handled' OBVIOUS
<1>1. SentOK' /\ [Next]_vars BY SentNext DEF StoreInv, IInv, Handled
<1>2. effected \subseteq effected' BY <1>1, TellsNext DEF StoreInv
<1>3. CASE outcome' = outcome BY <1>1, <1>2, <1>3 DEF Handled, DeliveredMeansHandled
<1>4. CASE outcome' # "delivered" BY <1>1, <1>4 DEF Handled, DeliveredMeansHandled
<1>5. CASE Response /\ StatusOf(res[current]) = "success"
  <2>1. res[current].kind \in {"fresh", "replayed"}
    BY <1>5 DEF StatusOf
  <2>2. res[current].of \in effected
    BY <2>1 DEF Handled, SentOK, StoreInv, FInv, AnswerFidelity
  <2> QED BY <1>1, <1>2, <2>2 DEF Handled, DeliveredMeansHandled
<1>6. ASSUME NEW d, SleepOrBudget(d) PROVE outcome' = outcome \/ outcome' # "delivered"
  BY <1>6 DEF SleepOrBudget, Return
<1>7. Backoff => outcome' = outcome \/ outcome' # "delivered" BY <1>6 DEF Backoff, Return
<1>8. \/ outcome' = outcome \/ outcome' # "delivered"
      \/ Response /\ StatusOf(res[current]) = "success"
  <2>1. CASE Response BY <1>6, <1>7, <2>1 DEF Response, Return
  <2>2. CASE ~Response
    BY <1>7, <2>2 DEF EmitNext, Emit, Send, TransportFails, Wake, Cancel, Return, Receive, Environment,
                      publisher, allVars
  <2> QED BY <2>1, <2>2
<1> QED BY <1>3, <1>4, <1>5, <1>8

\* Emit reports success only for a payload the receiver's handler accepted,
\* for every retry policy and every interleaving of late POSTs.
THEOREM DeliveriesAreHandled == EmitSpec => []DeliveredMeansHandled
<1>1. EmitInit => Handled
  BY SentInit DEF EmitInit, Handled, DeliveredMeansHandled
<1>2. Handled => DeliveredMeansHandled BY DEF Handled
<1> QED BY <1>1, <1>2, HandledNext, ReceiverRunsStore, StoreKeeps, PTL DEF EmitSpec

\* Of two started handlers one was started inside the other's window.
Ordered ==
  \A a, b \in ran : a # b => <<a, b>> \in early \/ <<b, a>> \in early

\* A handler is started under the one key, and no window is over yet.
LEMMA OrderedNext ==
  ASSUME MaxTime <= TTL + ClockSkew
  PROVE  StoreInv /\ SentOK /\ Ordered /\ [Next]_vars => Ordered'
<1> SUFFICES ASSUME StoreInv, SentOK, Ordered, [Next]_vars PROVE Ordered' OBVIOUS
<1>t. TypeOK BY DEF StoreInv, IInv
<1>1. ASSUME NEW a \in Attempts, StartHandler(a) PROVE Ordered'
  <2>1. \A b \in ran : key[b] = key[a] /\ clock <= WindowEnd(b)
    <3> SUFFICES ASSUME NEW b \in ran PROVE key[b] = key[a] /\ clock <= WindowEnd(b) OBVIOUS
    <3>1. b \in Attempts /\ now[b] \in Nat /\ clock \in Nat /\ clock <= MaxTime
      BY <1>t, ConstantsOK DEF TypeOK, Times
    <3>2. clock <= WindowEnd(b) BY <3>1, ConstantsOK DEF WindowEnd
    <3> QED BY <3>1, <3>2 DEF SentOK
  <2>2. /\ ran' = ran \cup {a} /\ early \subseteq early'
        /\ \A b \in ran : <<a, b>> \in early'
    BY <1>1, <2>1 DEF StartHandler
  <2> QED BY <2>2 DEF Ordered
<1>2. CASE UNCHANGED <<ran, early>> BY <1>2 DEF Ordered
<1>3. UNCHANGED <<ran, early>> \/ \E a \in Attempts : StartHandler(a)
  BY DEF Next, Step, Refuse, RunUncached, Begin, Get, GetFails, PutClaim, PutClaimFails, Reread, Reclaim,
         ReclaimFails, Reget, HandlerReturns, HandlerFails, HandlerUnknown, Record, RecordFails,
         Release, ReleaseFails, Crash, started, Sweep, Reconcile, Tick, vars
<1> QED BY <1>1, <1>2, <1>3

\* One Emit takes effect at most once at a receiver with a claim backend,
\* however many POSTs it makes and whichever overlap, get lost or are late,
\* when the receiver's window covers the time they take and no operator
\* deletes the claim.
THEOREM EmitTakesEffectOnce ==
  ASSUME MaxTime <= TTL + ClockSkew
  PROVE  EmitSpec => []EffectOnce
<1>1. EmitInit => SentOK /\ Ordered
  BY SentInit DEF EmitInit, Init, Ordered
<1>2. StoreInv /\ SentOK /\ Ordered /\ [EmitNext]_allVars => (SentOK /\ Ordered)'
  BY SentNext, OrderedNext DEF StoreInv, IInv
<1>3. StoreInv /\ Ordered => EffectOnce
  <2> SUFFICES ASSUME StoreInv, Ordered, Claiming, removed = {} PROVE Cardinality(effected) <= 1
    BY DEF EffectOnce
  <2>1. effected \subseteq ran /\ effected \subseteq Attempts
    BY DEF StoreInv, IInv, TypeOK, HistoryOK
  <2>2. \A a, b \in effected : <<a, b>> \notin early
    BY <2>1 DEF StoreInv, IInv, EarlyHarmless, Guarded
  <2>3. \A a, b \in effected : a = b BY <2>1, <2>2 DEF Ordered
  <2>4. CASE effected = {} BY <2>4, FS_EmptySet
  <2>5. CASE effected # {}
    <3>1. PICK a \in effected : TRUE BY <2>5
    <3>2. effected = {a} BY <2>3
    <3>3. Cardinality({a}) = 1 BY FS_Singleton
    <3> QED BY <3>2, <3>3
  <2> QED BY <2>4, <2>5
<1> QED BY <1>1, <1>2, <1>3, ReceiverRunsStore, StoreKeeps, PTL DEF EmitSpec
=============================================================================
