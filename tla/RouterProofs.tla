---------------------------- MODULE RouterProofs ----------------------------
(***************************************************************************)
(* Proofs about the two users of the router's circuit breaker: the         *)
(* provider set with its discovery and its drains (ProviderLifecycle), and *)
(* the fan-out behind the response cache (ContextMatch).                   *)
(***************************************************************************)
EXTENDS ProviderLifecycle, ContextMatch, CircuitBreakerProofs
-----------------------------------------------------------------------------
(* The provider set.                                                       *)

\* The set, discovery and the drains, apart from the breaker.
setVars == <<status, endpoint, discovery, draining, swapped>>

\* A request of the provider set takes the breaker's steps, and nobody else
\* touches the breaker.
LEMMA LifecycleBreaker == [Next]_vars => [BreakerNext]_breakerVars
<1> SUFFICES ASSUME Next \/ UNCHANGED vars PROVE BreakerNext \/ UNCHANGED breakerVars
  OBVIOUS
<1>1. CASE \E r \in Requests, p \in Providers : Match(r, p)
  BY <1>1 DEF Match, BreakerNext, Workers
<1>2. CASE \E r \in Requests : Serve(r)
  BY <1>2 DEF Serve, BreakerNext, Workers
<1>3. CASE Tick /\ UNCHANGED setVars BY <1>3 DEF BreakerNext
<1>4. CASE UNCHANGED breakerVars BY <1>4
<1>5. CASE \E l \in Listings : Relist(l) BY <1>5 DEF Relist
<1>6. CASE Poll BY <1>6 DEF Poll, PollRead, PollReconcile, Swap
<1>7. CASE \E p \in Providers : DrainStart(p) \/ DrainLook(p) \/ DrainFinish(p) \/ DrainExpire(p)
  BY <1>7 DEF DrainStart, DrainLook, DrainFinish, DrainExpire
<1> QED BY <1>1, <1>2, <1>3, <1>4, <1>5, <1>6, <1>7 DEF Next, vars, setVars

\* The requests of the provider set are a use of the breaker: every theorem
\* about BreakerSpec holds of this specification too.
THEOREM LifecycleRunsBreaker == Spec => BreakerSpec
<1>1. Init => BreakerInit BY DEF Init
<1> QED BY <1>1, LifecycleBreaker, PTL DEF Spec, BreakerSpec

\* While a drain is under way or done, and until discovery stores the set
\* again, no request can choose the provider.
DrainCloses ==
  \A p \in Providers :
    (drain[p] \in {"waiting", "quiet", "clean"} /\ p \notin swapped) => status[p] # "active"

\* From the look at the in-flight count on, the requests left are the ones
\* that were not counted then.
DrainLeaves ==
  \A p \in Providers :
    (drain[p] \in {"quiet", "clean"} /\ p \notin swapped) =>
      \A r \in Requests : (on[r] = p /\ at[r] # "idle") => r \in uncounted[p]

\* A poll that met a set that is not empty carries providers to its end.
PollCarries ==
  Present(status) # {} =>
    /\ poll = "reconcile" => Present(incoming) # {}
    /\ poll = "swap" => Present(draft) # {}

SetInv == LifecycleTypeOK /\ DrainCloses /\ DrainLeaves /\ PollCarries

\* The invariant holds when the router starts.
LEMMA SetInit == Init => SetInv
<1> SUFFICES ASSUME Init PROVE SetInv OBVIOUS
<1> USE LifecycleConstantsOK DEF Init
<1>1. LifecycleTypeOK BY DEF LifecycleTypeOK, Statuses, DrainStates
<1>2. DrainCloses /\ DrainLeaves /\ PollCarries BY DEF DrainCloses, DrainLeaves, PollCarries
<1> QED BY <1>1, <1>2 DEF SetInv

\* SetStatus changes the status of a provider that is in the set and leaves
\* the others alone.
LEMMA StatusSet ==
  ASSUME LifecycleTypeOK, NEW p \in Providers, NEW s \in Statuses \ {"absent"}, SetStatus(p, s)
  PROVE  /\ status' \in [Providers -> Statuses]
         /\ Present(status') = Present(status)
         /\ status'[p] \in {s, "absent"}
         /\ \A q \in Providers \ {p} : status'[q] = status[q]
<1>1. CASE status[p] = "absent" BY <1>1 DEF SetStatus, LifecycleTypeOK
<1>2. CASE status[p] # "absent" BY <1>2 DEF SetStatus, LifecycleTypeOK, Present
<1> QED BY <1>1, <1>2

\* What reconcile makes of the set and the list: it keeps every listed
\* provider.
LEMMA Reconciled ==
  ASSUME NEW cur \in [Providers -> Statuses], NEW inc \in [Providers -> Listed]
  PROVE  /\ reconcile(cur, inc) \in [Providers -> Statuses]
         /\ Present(inc) \subseteq Present(reconcile(cur, inc))
<1>1. \A p \in Providers : reconcile(cur, inc)[p] \in Statuses
  BY DEF reconcile, Statuses, Listed
<1>2. reconcile(cur, inc) \in [Providers -> Statuses] BY <1>1 DEF reconcile
<1>3. ASSUME NEW p \in Present(inc) PROVE p \in Present(reconcile(cur, inc))
  BY DEF reconcile, Present, Listed
<1> QED BY <1>2, <1>3
\* A goroutine in the breaker keeps its provider and moves only itself.
LEMMA ProceedMoves ==
  ASSUME TypeOK, NEW w \in Workers, Proceed(w)
  PROVE  /\ on' = on /\ clock' = clock /\ at[w] # "idle"
         /\ \A v \in Workers \ {w} : at'[v] = at[v]
<1> USE DEF Goto, Excluded, TypeOK
<1>1. CASE LoadOpenUntil(w) BY <1>1 DEF LoadOpenUntil
<1>2. CASE CompareAndSwap(w) BY <1>2 DEF CompareAndSwap
<1>3. CASE ResetFailures(w) BY <1>3 DEF ResetFailures
<1>4. CASE IncrInflight(w) \/ DecrInflight(w) BY <1>4 DEF IncrInflight, DecrInflight
<1>5. CASE RecordSuccess(w) BY <1>5 DEF RecordSuccess
<1>6. CASE RecordFailure(w) BY <1>6 DEF RecordFailure
<1>7. CASE StoreOpenUntil(w) BY <1>7 DEF StoreOpenUntil
<1>8. CASE Abandon(w) BY <1>8 DEF Abandon
<1> QED BY <1>1, <1>2, <1>3, <1>4, <1>5, <1>6, <1>7, <1>8 DEF Proceed

\* A count of zero leaves only the requests that are not counted yet.
LEMMA NoneInFlight ==
  ASSUME IInv, NEW p \in Providers, inflight[p] = 0, NEW r \in Requests,
         on[r] = p, at[r] # "idle"
  PROVE  r \in NotCounted(p)
<1>1. IsFiniteSet(Counted(p))
  <2>1. Counted(p) \subseteq Requests BY DEF Counted
  <2> QED BY <2>1, BreakerConstantsOK, FS_Subset
<1>2. Cardinality(Counted(p)) = 0 BY DEF IInv, InflightExact
<1>3. Counted(p) = {} BY <1>1, <1>2, FS_EmptySet
<1>4. at[r] \in Labels BY DEF IInv, TypeOK, Workers
<1> QED BY <1>3, <1>4 DEF Counted, NotCounted, Labels

\* Requests and the clock keep the invariant of the provider set.
LEMMA SetServe ==
  ASSUME SetInv, IInv, NEW r \in Requests,
         (\E p \in Providers : Match(r, p)) \/ Serve(r) \/ (Tick /\ UNCHANGED setVars)
  PROVE  SetInv'
<1> USE DEF SetInv, endpoint, discovery, draining
<1>w. r \in Workers /\ Requests \subseteq Workers BY DEF Workers
<1>1. CASE \E p \in Providers : Match(r, p)
  <2>1. PICK p \in Providers : Match(r, p) BY <1>1
  <2>2. /\ status[p] = "active" /\ at' = [at EXCEPT ![r] = "gate"] /\ on' = [on EXCEPT ![r] = p]
        /\ UNCHANGED setVars
    BY <2>1 DEF Match, Begin, Goto, setVars
  <2>3. LifecycleTypeOK' BY <2>2 DEF LifecycleTypeOK, setVars
  <2>4. DrainCloses' /\ PollCarries' BY <2>2 DEF DrainCloses, PollCarries, setVars, Present
  <2>5. ASSUME NEW q \in Providers, drain'[q] \in {"quiet", "clean"}, q \notin swapped',
               NEW s \in Requests, on'[s] = q, at'[s] # "idle"
        PROVE  s \in uncounted'[q]
    <3>1. q # p BY <2>2, <2>5 DEF DrainCloses, setVars
    <3>2. s # r BY <2>2, <2>5, <3>1, <1>w DEF IInv, TypeOK
    <3>3. on[s] = q /\ at[s] # "idle" BY <2>2, <2>5, <3>2, <1>w DEF IInv, TypeOK
    <3> QED BY <2>2, <2>5, <3>3 DEF DrainLeaves, setVars
  <2>6. DrainLeaves' BY <2>5 DEF DrainLeaves
  <2> QED BY <2>3, <2>4, <2>6
<1>2. CASE Serve(r)
  <2>1. /\ on' = on /\ at[r] # "idle" /\ \A v \in Workers \ {r} : at'[v] = at[v]
    BY <1>2, <1>w, ProceedMoves DEF Serve, IInv
  <2>2. /\ uncounted' = IF at'[r] = "idle" THEN [p \in Providers |-> uncounted[p] \ {r}] ELSE uncounted
        /\ UNCHANGED <<status, listing, listings, poll, incoming, draft, drain, drains, swapped>>
    BY <1>2 DEF Serve
  <2>3. LifecycleTypeOK' BY <2>2 DEF LifecycleTypeOK
  <2>4. DrainCloses' /\ PollCarries' BY <2>2 DEF DrainCloses, PollCarries, Present
  <2>5. ASSUME NEW q \in Providers, drain'[q] \in {"quiet", "clean"}, q \notin swapped',
               NEW s \in Requests, on'[s] = q, at'[s] # "idle"
        PROVE  s \in uncounted'[q]
    <3>1. on[s] = q /\ at[s] # "idle" BY <2>1, <2>5, <1>w
    <3>2. s \in uncounted[q] BY <2>2, <2>5, <3>1 DEF DrainLeaves
    <3> QED BY <2>2, <2>5, <3>2
  <2>6. DrainLeaves' BY <2>5 DEF DrainLeaves
  <2> QED BY <2>3, <2>4, <2>6
<1>3. CASE Tick /\ UNCHANGED setVars
  BY <1>3 DEF Tick, setVars, LifecycleTypeOK, DrainCloses, DrainLeaves, PollCarries, Present
<1> QED BY <1>1, <1>2, <1>3

\* So do the endpoint and the steps of a poll.
LEMMA SetPoll ==
  ASSUME SetInv, (\E l \in Listings : Relist(l)) \/ Poll
  PROVE  SetInv' /\ (Present(status) # {} => Present(status') # {})
<1> USE DEF SetInv, endpoint, discovery, draining, breakerVars
<1>1. CASE \E l \in Listings : Relist(l)
  <2>1. PICK l \in Listings : Relist(l) BY <1>1
  <2>2. LifecycleTypeOK' BY <2>1, LifecycleConstantsOK DEF LifecycleTypeOK, Relist
  <2> QED BY <2>1, <2>2 DEF Relist, DrainCloses, DrainLeaves, PollCarries, Present
<1>2. CASE PollRead
  <2>1. LifecycleTypeOK' BY <1>2 DEF LifecycleTypeOK, PollRead
  <2>2. PollCarries' BY <1>2 DEF PollRead, PollCarries, Present
  <2> QED BY <1>2, <2>1, <2>2 DEF PollRead, DrainCloses, DrainLeaves, Present
<1>3. CASE PollReconcile
  <2>1. draft \in [Providers -> Statuses] /\ incoming \in [Providers -> Listed]
    BY LifecycleConstantsOK DEF LifecycleTypeOK
  <2>2. /\ draft' \in [Providers -> Statuses]
        /\ Present(incoming) \subseteq Present(draft')
    BY <1>3, <2>1, Reconciled DEF PollReconcile
  <2>3. LifecycleTypeOK' BY <1>3, <2>2 DEF LifecycleTypeOK, PollReconcile
  <2>4. PollCarries' BY <1>3, <2>2 DEF PollReconcile, PollCarries, Present
  <2> QED BY <1>3, <2>3, <2>4 DEF PollReconcile, DrainCloses, DrainLeaves, Present
<1>4. CASE Swap
  <2>1. LifecycleTypeOK' BY <1>4 DEF LifecycleTypeOK, Swap
  <2>2. Present(status) # {} => Present(status') # {} BY <1>4 DEF Swap, PollCarries
  <2>3. DrainCloses' /\ DrainLeaves' /\ PollCarries'
    BY <1>4 DEF Swap, DrainCloses, DrainLeaves, PollCarries
  <2> QED BY <2>1, <2>2, <2>3
<1> QED BY <1>1, <1>2, <1>3, <1>4 DEF Poll

\* So do the steps of DrainProvider.
LEMMA SetDrain ==
  ASSUME SetInv, IInv, NEW p \in Providers,
         DrainStart(p) \/ DrainLook(p) \/ DrainFinish(p) \/ DrainExpire(p)
  PROVE  SetInv' /\ Present(status') = Present(status)
<1> USE DEF SetInv, endpoint, discovery, draining, breakerVars
<1>1. CASE DrainLook(p)
  <2>1. /\ drain' = [drain EXCEPT ![p] = "quiet"] /\ drain[p] = "waiting" /\ inflight[p] = 0
        /\ uncounted' = [uncounted EXCEPT ![p] = NotCounted(p)]
        /\ UNCHANGED <<at, on, status, listing, listings, poll, incoming, draft, drains, swapped>>
    BY <1>1 DEF DrainLook
  <2>2. NotCounted(p) \subseteq Requests BY DEF NotCounted
  <2>3. LifecycleTypeOK' BY <2>1, <2>2 DEF LifecycleTypeOK, DrainStates
  <2>4. DrainCloses' /\ PollCarries' BY <2>1 DEF DrainCloses, PollCarries, LifecycleTypeOK, Present
  <2>5. ASSUME NEW q \in Providers, drain'[q] \in {"quiet", "clean"}, q \notin swapped',
               NEW r \in Requests, on'[r] = q, at'[r] # "idle"
        PROVE  r \in uncounted'[q]
    <3>1. CASE q = p BY <2>1, <2>5, <3>1, NoneInFlight DEF LifecycleTypeOK
    <3>2. CASE q # p BY <2>1, <2>5, <3>2 DEF LifecycleTypeOK, DrainLeaves
    <3> QED BY <3>1, <3>2
  <2>6. DrainLeaves' BY <2>5 DEF DrainLeaves
  <2> QED BY <2>1, <2>3, <2>4, <2>6 DEF Present
<1>2. CASE DrainStart(p)
  <2>1. /\ drain' = [drain EXCEPT ![p] = "waiting"] /\ drains' = drains + 1 /\ drains < MaxDrains
        /\ swapped' = swapped \ {p} /\ SetStatus(p, "draining")
        /\ UNCHANGED <<at, on, listing, listings, poll, incoming, draft, uncounted>>
    BY <1>2 DEF DrainStart
  <2>2. /\ status' \in [Providers -> Statuses] /\ Present(status') = Present(status)
        /\ status'[p] # "active" /\ \A q \in Providers \ {p} : status'[q] = status[q]
    BY <2>1, StatusSet DEF Statuses
  <2>d. drains' \in 0 .. MaxDrains BY <2>1, LifecycleConstantsOK DEF LifecycleTypeOK
  <2>3. LifecycleTypeOK' BY <2>1, <2>2, <2>d DEF LifecycleTypeOK, DrainStates
  <2>4. DrainCloses' BY <2>1, <2>2 DEF DrainCloses, LifecycleTypeOK
  <2>5. DrainLeaves' BY <2>1 DEF DrainLeaves, LifecycleTypeOK
  <2>6. PollCarries' BY <2>1, <2>2 DEF PollCarries, Present
  <2> QED BY <2>2, <2>3, <2>4, <2>5, <2>6
<1>3. CASE DrainFinish(p) \/ DrainExpire(p)
  <2>1. /\ \/ drain[p] = "quiet" /\ drain' = [drain EXCEPT ![p] = "clean"]
           \/ drain' = [drain EXCEPT ![p] = "forced"]
        /\ SetStatus(p, "inactive")
        /\ UNCHANGED <<at, on, listing, listings, poll, incoming, draft, drains, uncounted, swapped>>
    BY <1>3 DEF DrainFinish, DrainExpire
  <2>2. /\ status' \in [Providers -> Statuses] /\ Present(status') = Present(status)
        /\ status'[p] # "active" /\ \A q \in Providers \ {p} : status'[q] = status[q]
    BY <2>1, StatusSet DEF Statuses
  <2>3. LifecycleTypeOK' BY <2>1, <2>2 DEF LifecycleTypeOK, DrainStates
  <2>4. DrainCloses' BY <2>1, <2>2 DEF DrainCloses, LifecycleTypeOK
  <2>5. DrainLeaves' BY <2>1 DEF DrainLeaves, LifecycleTypeOK
  <2>6. PollCarries' BY <2>1, <2>2 DEF PollCarries, Present
  <2> QED BY <2>2, <2>3, <2>4, <2>5, <2>6
<1> QED BY <1>1, <1>2, <1>3

\* Every step of the router keeps the invariant, and a set that has providers
\* is not emptied.
LEMMA SetNext ==
  SetInv /\ IInv /\ [Next]_vars => SetInv' /\ (Present(status) # {} => Present(status') # {})
<1> SUFFICES ASSUME SetInv, IInv, [Next]_vars
             PROVE  SetInv' /\ (Present(status) # {} => Present(status') # {})
  OBVIOUS
<1>1. CASE \E r \in Requests, p \in Providers : Match(r, p)
  BY <1>1, SetServe DEF Match, Present
<1>2. CASE \E r \in Requests : Serve(r) BY <1>2, SetServe DEF Serve, Present
<1>3. CASE UNCHANGED setVars /\ (Tick \/ UNCHANGED breakerVars)
  <2> USE <1>3 DEF setVars, endpoint, discovery, draining, SetInv, breakerVars, Tick
  <2>1. LifecycleTypeOK' BY DEF LifecycleTypeOK
  <2>2. DrainCloses' /\ DrainLeaves' /\ PollCarries'
    BY DEF DrainCloses, DrainLeaves, PollCarries, Present
  <2> QED BY <2>1, <2>2 DEF Present
<1>4. CASE (\E l \in Listings : Relist(l)) \/ Poll BY <1>4, SetPoll
<1>5. CASE \E p \in Providers : DrainStart(p) \/ DrainLook(p) \/ DrainFinish(p) \/ DrainExpire(p)
  BY <1>5, SetDrain
<1> QED BY <1>1, <1>2, <1>3, <1>4, <1>5 DEF Next, vars, setVars

\* Type correctness of the provider set, its writers and their history.
THEOREM LifecycleTypes == Spec => []LifecycleTypeOK
<1>1. SetInv => LifecycleTypeOK BY DEF SetInv
<1>2. Init => SetInv /\ IInv BY SetInit, IInvInit DEF Init
<1>3. SetInv /\ IInv /\ [Next]_vars => (SetInv /\ IInv)'
  BY SetNext, LifecycleBreaker, IInvNext
<1> QED BY <1>1, <1>2, <1>3, PTL DEF Spec

\* For any number of requests, drains and changes of the list: a drain that
\* returned without error left behind only the requests that had chosen the
\* provider and were not counted when DrainProvider looked.
THEOREM DrainsAreClean == Spec => []DrainedClean
<1>1. SetInv => DrainedClean BY DEF SetInv, DrainLeaves, DrainedClean
<1>2. Init => SetInv /\ IInv BY SetInit, IInvInit DEF Init
<1>3. SetInv /\ IInv /\ [Next]_vars => (SetInv /\ IInv)'
  BY SetNext, LifecycleBreaker, IInvNext
<1> QED BY <1>1, <1>2, <1>3, PTL DEF Spec

\* For any list the endpoint serves and any overlap of polls and drains: a
\* router that has providers keeps one.
THEOREM SetNeverEmptied == Spec => NeverEmptied
<1>1. SetInv /\ IInv /\ [Next]_vars => [Present(status) # {} => Present(status') # {}]_vars
  BY SetNext
<1>2. Init => SetInv /\ IInv BY SetInit, IInvInit DEF Init
<1>3. SetInv /\ IInv /\ [Next]_vars => (SetInv /\ IInv)'
  BY SetNext, LifecycleBreaker, IInvNext
<1> QED BY <1>1, <1>2, <1>3, PTL DEF Spec, NeverEmptied
-----------------------------------------------------------------------------
(* The fan-out behind the response cache.                                  *)

\* The fan-out takes the breaker's steps; the cache, the provider and its
\* operator do not touch the breaker.
LEMMA MatchBreaker == [MatchNext]_matchVars => [BreakerNext]_breakerVars
<1> SUFFICES ASSUME MatchNext \/ UNCHANGED matchVars PROVE BreakerNext \/ UNCHANGED breakerVars
  OBVIOUS
<1>1. CASE \E w \in Workers, q \in Queries : CacheHit(w, q) \/ CacheMiss(w, q)
  BY <1>1 DEF CacheHit, CacheMiss, matchVars, BreakerNext, Queries
<1>2. CASE \E p \in Providers : BeginCheck(p) BY <1>2 DEF BeginCheck, BreakerNext, Workers
<1>3. CASE \E w \in Workers : Gate(w) \/ Call(w) \/ Succeed(w) \/ Fail(w) \/ Return(w)
  <2>1. PICK w \in Workers : Gate(w) \/ Call(w) \/ Succeed(w) \/ Fail(w) \/ Return(w) BY <1>3
  <2>2. Proceed(w) BY <2>1 DEF Gate, Call, Succeed, Fail, Return, Proceed
  <2> QED BY <2>2 DEF BreakerNext
<1>4. CASE \E w \in Workers : Put(w) BY <1>4 DEF Put
<1>5. CASE \E w \in Workers, ttl \in ProviderTTLs : Respond(w, ttl) BY <1>5 DEF Respond
<1>6. CASE Retarget BY <1>6 DEF Retarget
<1>7. CASE MatchTick BY <1>7 DEF MatchTick, BreakerNext
<1>8. CASE UNCHANGED matchVars BY <1>8 DEF matchVars
<1> QED BY <1>1, <1>2, <1>3, <1>4, <1>5, <1>6, <1>7, <1>8 DEF MatchNext

\* The fan-out is a use of the breaker: no trip is missed, one probe resets
\* an opening and cooldowns are honoured with a cache in front of it too.
THEOREM MatchRunsBreaker == MatchSpec => BreakerSpec
<1>1. MatchInit => BreakerInit BY DEF MatchInit
<1> QED BY <1>1, MatchBreaker, PTL DEF MatchSpec, BreakerSpec

MatchShape ==
  /\ entries \in [CacheKeys -> Entry \cup {None}]
  /\ asks \in [Workers -> Queries \cup {None}]
  /\ reply \in [Workers -> Reply \cup {None}]
  /\ callStart \in [Workers -> 0 .. MaxTime] /\ changedAt \in 0 .. MaxTime

\* Only a request asks, and a reply answers what its request asked.
RepliesOwn ==
  \A w \in Workers :
    /\ asks[w] # None => at[w] # "idle" /\ w \in Requests
    /\ reply[w] # None => /\ at[w] \in {"calling", "leaving"}
                          /\ asks[w] # None /\ reply[w].for = asks[w]

\* A call is out for at most its timeout.
CallsTimed ==
  \A w \in Requests :
    at[w] = "calling" => callStart[w] <= clock /\ clock <= callStart[w] + Timeout

\* A reply made before the targeting changed belongs to a call that had begun
\* by then.
OldReplies ==
  \A w \in Requests :
    (reply[w] # None /\ reply[w].old /\ changedAt # 0) =>
      /\ clock <= changedAt + Timeout
      /\ at[w] = "calling" => callStart[w] <= changedAt

\* An entry is stored under its own key, and expires one longest TTL from now
\* at the latest, or from the last moment an old reply can be stored.
EntriesOwn ==
  \A k \in CacheKeys : entries[k] # None =>
    /\ entries[k].for = k
    /\ entries[k].expiresAt <= clock + LongestTTL
    /\ (entries[k].old /\ changedAt # 0) => entries[k].expiresAt <= changedAt + Timeout + LongestTTL

CacheCapped == IsFiniteSet(Stored) /\ Cardinality(Stored) <= MaxEntries

CallInv == MatchShape /\ RepliesOwn /\ CallsTimed /\ OldReplies
CacheInv == EntriesOwn /\ CacheCapped

\* The invariants hold when the router starts.
LEMMA MatchInvInit == MatchInit => CallInv /\ CacheInv
<1> SUFFICES ASSUME MatchInit PROVE CallInv /\ CacheInv OBVIOUS
<1>1. CallInv
  BY BreakerConstantsOK, CacheConstantsOK
     DEF MatchInit, BreakerInit, CallInv, MatchShape, RepliesOwn, CallsTimed, OldReplies, Workers
<1>2. EntriesOwn BY DEF MatchInit, EntriesOwn
<1>3. Stored = {} BY DEF MatchInit, Stored
<1>4. CacheCapped BY <1>3, FS_EmptySet, CacheConstantsOK DEF CacheCapped
<1> QED BY <1>1, <1>2, <1>4 DEF CacheInv

\* A step that leaves the cache, the clock and the targeting alone.
LEMMA CacheKept ==
  ASSUME CacheInv, entries' = entries, clock' = clock, changedAt' = changedAt
  PROVE  CacheInv'
BY DEF CacheInv, EntriesOwn, CacheCapped, Stored

\* The key of a request is the request's whole query.
LEMMA KeysAreQueries == CacheKeys = Queries
BY DEF CacheKeys, contextCacheKey

\* Each step of a goroutine through the breaker and its call keeps the
\* invariants.
LEMMA CallSteps ==
  ASSUME CallInv, CacheInv, IInv, NEW w \in Workers,
         Gate(w) \/ Call(w) \/ Succeed(w) \/ Fail(w) \/ Return(w)
  PROVE  CallInv' /\ CacheInv'
<1> USE DEF CallInv
<1>t. /\ at \in [Workers -> Labels] /\ clock \in 1 .. MaxTime /\ clock \in Nat /\ Requests \subseteq Workers
      /\ Timeout \in Nat
  BY BreakerConstantsOK, CacheConstantsOK DEF IInv, TypeOK, Workers
<1>1. CASE Gate(w)
  <2>1. /\ at[w] \in {"gate", "cas", "reset", "tripping"} /\ clock' = clock
        /\ \E l \in {"idle", "admitted", "cas", "reset", "leaving"} : at' = [at EXCEPT ![w] = l]
        /\ asks' = IF at'[w] = "idle" THEN [asks EXCEPT ![w] = None] ELSE asks
        /\ UNCHANGED <<entries, callStart, reply, changedAt>>
    BY <1>1 DEF Gate, LoadOpenUntil, CompareAndSwap, ResetFailures, StoreOpenUntil, Excluded, Goto
  <2>2. reply[w] = None BY <2>1 DEF RepliesOwn
  <2>3. MatchShape' BY <2>1 DEF MatchShape
  <2>4. RepliesOwn' BY <1>t, <2>1, <2>2 DEF RepliesOwn, MatchShape
  <2>5. CallsTimed' BY <1>t, <2>1 DEF CallsTimed
  <2>6. OldReplies' BY <1>t, <2>1, <2>2 DEF OldReplies
  <2> QED BY <2>1, <2>3, <2>4, <2>5, <2>6, CacheKept
<1>2. CASE Call(w)
  <2>1. /\ at[w] = "admitted" /\ clock' = clock /\ at' = [at EXCEPT ![w] = "calling"]
        /\ callStart' = [callStart EXCEPT ![w] = clock]
        /\ UNCHANGED <<entries, asks, reply, changedAt>>
    BY <1>2 DEF Call, IncrInflight, Goto
  <2>2. reply[w] = None BY <2>1 DEF RepliesOwn
  <2>3. MatchShape' BY <1>t, <2>1 DEF MatchShape
  <2>4. RepliesOwn' BY <1>t, <2>1, <2>2 DEF RepliesOwn, MatchShape
  <2>5. CallsTimed' BY <1>t, <2>1 DEF CallsTimed, MatchShape
  <2>6. OldReplies' BY <1>t, <2>1, <2>2 DEF OldReplies, MatchShape
  <2> QED BY <2>1, <2>3, <2>4, <2>5, <2>6, CacheKept
<1>3. CASE Succeed(w)
  <2>1. /\ at[w] = "calling" /\ clock' = clock /\ at' = [at EXCEPT ![w] = "leaving"]
        /\ UNCHANGED <<entries, asks, callStart, reply, changedAt>>
    BY <1>3 DEF Succeed, RecordSuccess, Goto, cacheVars
  <2>3. MatchShape' BY <2>1 DEF MatchShape
  <2>4. RepliesOwn' BY <1>t, <2>1 DEF RepliesOwn, MatchShape
  <2>5. CallsTimed' /\ OldReplies' BY <1>t, <2>1 DEF CallsTimed, OldReplies
  <2> QED BY <2>1, <2>3, <2>4, <2>5, CacheKept
<1>4. CASE Fail(w)
  <2>1. /\ at[w] = "calling" /\ clock' = clock
        /\ \E l \in {"tripping", "leaving"} : at' = [at EXCEPT ![w] = l]
        /\ reply' = [reply EXCEPT ![w] = None]
        /\ UNCHANGED <<entries, asks, callStart, changedAt>>
    BY <1>4 DEF Fail, RecordFailure, Abandon, Goto
  <2>3. MatchShape' BY <2>1 DEF MatchShape
  <2>4. RepliesOwn' BY <1>t, <2>1 DEF RepliesOwn, MatchShape
  <2>5. CallsTimed' BY <1>t, <2>1 DEF CallsTimed
  <2>6. OldReplies' BY <1>t, <2>1 DEF OldReplies, MatchShape
  <2> QED BY <2>1, <2>3, <2>4, <2>5, <2>6, CacheKept
<1>5. CASE Return(w)
  <2>1. /\ reply[w] = None /\ clock' = clock /\ at' = [at EXCEPT ![w] = "idle"]
        /\ asks' = [asks EXCEPT ![w] = None] /\ callStart' = [callStart EXCEPT ![w] = 0]
        /\ UNCHANGED <<entries, reply, changedAt>>
    BY <1>5 DEF Return, DecrInflight, Goto
  <2>3. MatchShape' BY <2>1, BreakerConstantsOK DEF MatchShape
  <2>4. RepliesOwn' BY <1>t, <2>1 DEF RepliesOwn, MatchShape
  <2>5. CallsTimed' BY <1>t, <2>1 DEF CallsTimed, MatchShape
  <2>6. OldReplies' BY <1>t, <2>1 DEF OldReplies, MatchShape
  <2> QED BY <2>1, <2>3, <2>4, <2>5, <2>6, CacheKept
<1> QED BY <1>1, <1>2, <1>3, <1>4, <1>5
\* So do a lookup that misses and the health checker's next provider.
LEMMA BeginSteps ==
  ASSUME CallInv, CacheInv, IInv,
         \/ \E w \in Workers, q \in Queries : CacheMiss(w, q)
         \/ \E p \in Providers : BeginCheck(p)
  PROVE  CallInv' /\ CacheInv'
<1> USE DEF CallInv
<1>t. at \in [Workers -> Labels] /\ Requests \subseteq Workers /\ Checker \in Workers \ Requests
  BY BreakerConstantsOK DEF IInv, TypeOK, Workers
<1>1. CASE \E w \in Workers, q \in Queries : CacheMiss(w, q)
  <2>1. PICK w \in Workers, q \in Queries : CacheMiss(w, q) BY <1>1
  <2>2. /\ w \in Requests /\ at[w] = "idle" /\ at' = [at EXCEPT ![w] = "gate"] /\ clock' = clock
        /\ entries' = [entries EXCEPT ![q] = None] /\ asks' = [asks EXCEPT ![w] = q]
        /\ UNCHANGED <<callStart, reply, changedAt>>
    BY <2>1 DEF CacheMiss, Begin, Goto, contextCacheKey
  <2>3. reply[w] = None BY <2>2 DEF RepliesOwn
  <2>4. MatchShape' BY <2>2 DEF MatchShape
  <2>5. RepliesOwn' BY <1>t, <2>2, <2>3 DEF RepliesOwn, MatchShape
  <2>6. CallsTimed' /\ OldReplies' BY <1>t, <2>2 DEF CallsTimed, OldReplies
  <2>7. EntriesOwn' BY <2>2, KeysAreQueries DEF CacheInv, EntriesOwn, MatchShape
  <2>8. Stored' \subseteq Stored BY <2>2, KeysAreQueries DEF Stored, MatchShape
  <2>9. CacheCapped'
    <3>1. IsFiniteSet(Stored') /\ Cardinality(Stored') <= Cardinality(Stored)
      BY <2>8, FS_Subset DEF CacheInv, CacheCapped
    <3>2. Cardinality(Stored) \in Nat /\ Cardinality(Stored') \in Nat
      BY <3>1, FS_CardinalityType DEF CacheInv, CacheCapped
    <3> QED BY <3>1, <3>2, CacheConstantsOK DEF CacheInv, CacheCapped
  <2> QED BY <2>4, <2>5, <2>6, <2>7, <2>9 DEF CacheInv
<1>2. CASE \E p \in Providers : BeginCheck(p)
  <2>1. /\ at' = [at EXCEPT ![Checker] = "gate"] /\ clock' = clock
        /\ UNCHANGED <<entries, asks, callStart, reply, changedAt>>
    BY <1>2 DEF BeginCheck, Begin, Goto, cacheVars
  <2>2. asks[Checker] = None /\ reply[Checker] = None BY <1>t DEF RepliesOwn
  <2>3. MatchShape' BY <2>1 DEF MatchShape
  <2>4. RepliesOwn' BY <1>t, <2>1, <2>2 DEF RepliesOwn, MatchShape
  <2>5. CallsTimed' /\ OldReplies' BY <1>t, <2>1 DEF CallsTimed, OldReplies
  <2> QED BY <2>1, <2>3, <2>4, <2>5, CacheKept
<1> QED BY <1>1, <1>2

\* So do the provider's response, a change of its targeting and the clock.
LEMMA ProviderSteps ==
  ASSUME CallInv, CacheInv, IInv,
         \/ \E w \in Workers, ttl \in ProviderTTLs : Respond(w, ttl)
         \/ Retarget \/ MatchTick
  PROVE  CallInv' /\ CacheInv'
<1> USE DEF CallInv
<1>t. /\ clock \in 1 .. MaxTime /\ clock \in Nat /\ clock # 0 /\ Requests \subseteq Workers
      /\ Timeout \in Nat /\ LongestTTL \in Nat
  BY BreakerConstantsOK, CacheConstantsOK DEF IInv, TypeOK, Workers, LongestTTL
<1>e. \A k \in CacheKeys : entries[k] # None => entries[k].expiresAt \in Nat
  BY DEF MatchShape, Entry
<1>1. CASE \E w \in Workers, ttl \in ProviderTTLs : Respond(w, ttl)
  <2>1. PICK w \in Workers, ttl \in ProviderTTLs : Respond(w, ttl) BY <1>1
  <2> DEFINE r == [for |-> asks[w], old |-> changedAt = 0, ttl |-> ttl]
  <2>2. /\ at[w] = "calling" /\ asks[w] # None /\ reply' = [reply EXCEPT ![w] = r]
        /\ UNCHANGED <<at, clock, entries, asks, callStart, changedAt>>
    BY <2>1 DEF Respond, breakerVars
  <2>3. r \in Reply BY <2>2 DEF MatchShape, Reply
  <2>4. r.for = asks[w] /\ (r.old => changedAt = 0) OBVIOUS
  <2> HIDE DEF r
  <2>5. MatchShape' BY <2>2, <2>3 DEF MatchShape
  <2>6. RepliesOwn' BY <2>2, <2>4 DEF RepliesOwn, MatchShape
  <2>7. CallsTimed' BY <2>2 DEF CallsTimed
  <2>8. OldReplies' BY <1>t, <2>2, <2>4 DEF OldReplies, MatchShape
  <2> QED BY <2>2, <2>5, <2>6, <2>7, <2>8, CacheKept
<1>2. CASE Retarget
  <2>1. /\ changedAt' = clock /\ UNCHANGED <<at, clock, entries, asks, callStart, reply>>
    BY <1>2 DEF Retarget, breakerVars
  <2>2. MatchShape' BY <1>t, <2>1 DEF MatchShape
  <2>3. RepliesOwn' /\ CallsTimed' BY <2>1 DEF RepliesOwn, CallsTimed
  <2>4. OldReplies' BY <1>t, <2>1 DEF OldReplies, CallsTimed
  <2>5. EntriesOwn' BY <1>t, <1>e, <2>1 DEF CacheInv, EntriesOwn
  <2>6. CacheCapped' BY <2>1 DEF CacheInv, CacheCapped, Stored
  <2> QED BY <2>2, <2>3, <2>4, <2>5, <2>6 DEF CacheInv
<1>3. CASE MatchTick
  <2>1. /\ clock' = clock + 1
        /\ \A w \in Requests : /\ at[w] = "calling" => clock < callStart[w] + Timeout
                               /\ at[w] = "leaving" => reply[w] = None
        /\ UNCHANGED <<at, entries, asks, callStart, reply, changedAt>>
    BY <1>3 DEF MatchTick, Tick, cacheVars
  <2>2. MatchShape' BY <2>1 DEF MatchShape
  <2>3. RepliesOwn' BY <2>1 DEF RepliesOwn
  <2>4. CallsTimed' BY <1>t, <2>1 DEF CallsTimed, MatchShape
  <2>5. OldReplies'
    <3> SUFFICES ASSUME NEW w \in Requests, reply[w] # None, reply[w].old, changedAt # 0
                 PROVE  clock + 1 <= changedAt + Timeout /\ (at[w] = "calling" => callStart[w] <= changedAt)
      BY <2>1 DEF OldReplies
    <3>1. at[w] = "calling" BY <1>t, <2>1 DEF RepliesOwn
    <3>2. callStart[w] <= changedAt /\ clock < callStart[w] + Timeout BY <2>1, <3>1 DEF OldReplies
    <3>3. callStart[w] \in Nat /\ changedAt \in Nat BY <1>t DEF MatchShape
    <3> QED BY <1>t, <3>2, <3>3
  <2>6. EntriesOwn' BY <1>t, <1>e, <2>1 DEF CacheInv, EntriesOwn
  <2>7. CacheCapped' BY <2>1 DEF CacheInv, CacheCapped, Stored
  <2> QED BY <2>2, <2>3, <2>4, <2>5, <2>6, <2>7 DEF CacheInv
<1> QED BY <1>1, <1>2, <1>3

\* Put keeps a response for the default TTL or the ceiling at the most.
LEMMA LifetimeBounded ==
  ASSUME NEW ttl \in ProviderTTLs
  PROVE  lifetime(ttl) \in 0 .. LongestTTL
<1>1. ttl # Absent => ttl \in Int BY CacheConstantsOK
<1>2. DefaultTTL \in Nat /\ MaxTTL \in Nat BY CacheConstantsOK
<1>3. LongestTTL \in Nat /\ DefaultTTL <= LongestTTL /\ MaxTTL <= LongestTTL
  BY <1>2 DEF LongestTTL
<1>4. CASE ttl = Absent BY <1>2, <1>3, <1>4 DEF lifetime
<1>5. CASE ttl # Absent BY <1>1, <1>2, <1>3, <1>5 DEF lifetime
<1> QED BY <1>4, <1>5

\* Whatever it pushes out, Put makes room for one.
LEMMA RoomForOne ==
  ASSUME CacheCapped, NEW k, NEW out \in evictions(k)
  PROVE  /\ IsFiniteSet((Stored \ out) \cup {k})
         /\ Cardinality((Stored \ out) \cup {k}) <= MaxEntries
<1> DEFINE swept == {j \in Stored : expired(j)}
           left == Stored \ swept
<1>f. IsFiniteSet(Stored) /\ Cardinality(Stored) <= MaxEntries BY DEF CacheCapped
<1>n. Cardinality(Stored) \in Nat /\ MaxEntries \in Nat /\ MaxEntries >= 1
  BY <1>f, FS_CardinalityType, CacheConstantsOK
<1>1. CASE k \in Stored
  <2>1. out = {} BY <1>1 DEF evictions
  <2>2. (Stored \ out) \cup {k} = Stored BY <1>1, <2>1
  <2> QED BY <1>f, <2>2
<1>2. ASSUME NEW S \in SUBSET Stored, Cardinality(S) < MaxEntries
      PROVE  IsFiniteSet(S \cup {k}) /\ Cardinality(S \cup {k}) <= MaxEntries
  <2>1. IsFiniteSet(S) BY <1>f, FS_Subset
  <2>2. Cardinality(S) \in Nat BY <2>1, FS_CardinalityType
  <2>3. IsFiniteSet(S \cup {k}) /\ Cardinality(S \cup {k}) \in {Cardinality(S), Cardinality(S) + 1}
    BY <2>1, FS_AddElement
  <2> QED BY <1>n, <1>2, <2>2, <2>3
<1>3. CASE k \notin Stored /\ Cardinality(Stored) < MaxEntries
  <2>1. out = {} BY <1>3 DEF evictions
  <2>2. Stored \ out = Stored BY <2>1
  <2> QED BY <1>2, <1>3, <2>2
<1>4. CASE k \notin Stored /\ ~(Cardinality(Stored) < MaxEntries) /\ Cardinality(left) < MaxEntries
  <2>1. out = swept BY <1>4 DEF evictions
  <2>2. Stored \ out = left BY <2>1
  <2> QED BY <1>2, <1>4, <2>2
<1>5. CASE k \notin Stored /\ ~(Cardinality(Stored) < MaxEntries) /\ ~(Cardinality(left) < MaxEntries)
  <2>1. PICK j \in left : out = swept \cup {j} BY <1>5 DEF evictions
  <2>2. IsFiniteSet(left) /\ Cardinality(left) <= Cardinality(Stored) BY <1>f, FS_Subset
  <2>3. Cardinality(left) \in Nat BY <2>2, FS_CardinalityType
  <2>4. Cardinality(left \ {j}) = Cardinality(left) - 1 BY <2>1, <2>2, FS_RemoveElement
  <2>5. Stored \ out = left \ {j} BY <2>1
  <2>6. Cardinality(Stored \ out) < MaxEntries BY <1>f, <1>n, <2>2, <2>3, <2>4, <2>5
  <2> QED BY <1>2, <2>6
<1> QED BY <1>1, <1>3, <1>4, <1>5
\* Storing a response, over whatever the cache had and with whatever it
\* pushes out, keeps the invariants.
LEMMA PutStep ==
  ASSUME CallInv, CacheInv, IInv, NEW w \in Workers, Put(w)
  PROVE  CallInv' /\ CacheInv'
<1> USE DEF CallInv
<1>t. /\ clock \in Nat /\ Requests \subseteq Workers
      /\ Timeout \in Nat /\ LongestTTL \in Nat /\ changedAt \in Nat
  BY BreakerConstantsOK, CacheConstantsOK DEF IInv, TypeOK, Workers, MatchShape, LongestTTL
<1>1. /\ at[w] = "leaving" /\ reply[w] # None /\ reply' = [reply EXCEPT ![w] = None]
      /\ UNCHANGED <<at, clock, asks, callStart, changedAt>>
  BY DEF Put, breakerVars
<1>2. RepliesOwn' BY <1>1 DEF RepliesOwn, MatchShape
<1>3. CallsTimed' BY <1>1 DEF CallsTimed
<1>4. OldReplies' BY <1>t, <1>1 DEF OldReplies, MatchShape
<1>5. CASE entries' = entries
  <2>1. MatchShape' BY <1>1, <1>5 DEF MatchShape
  <2> QED BY <1>1, <1>2, <1>3, <1>4, <1>5, <2>1, CacheKept
<1>6. CASE entries' # entries
  <2>r. reply[w] \in Reply /\ asks[w] \in Queries /\ reply[w].for = asks[w] /\ w \in Requests
    BY <1>1 DEF MatchShape, RepliesOwn
  <2>k. PICK k \in CacheKeys : k = asks[w] BY <2>r, KeysAreQueries
  <2>l. PICK life \in 0 .. LongestTTL : life = lifetime(reply[w].ttl)
    BY <2>r, LifetimeBounded DEF Reply
  <2> DEFINE new == [for |-> reply[w].for, old |-> reply[w].old,
                     expiresAt |-> clock + life, insertedAt |-> clock]
  <2>1. PICK out \in evictions(k) :
          entries' = [j \in CacheKeys |-> IF j = k THEN new ELSE IF j \in out THEN None ELSE entries[j]]
    BY <1>6, <2>k, <2>l DEF Put, contextCacheKey
  <2>2. new \in Entry BY <1>t, <2>r, <2>l DEF Entry, Reply
  <2>3. MatchShape' BY <1>1, <2>1, <2>2 DEF MatchShape
  <2>4. /\ new.for = k /\ new.expiresAt <= clock + LongestTTL /\ new.expiresAt \in Nat
        /\ (new.old /\ changedAt # 0) => new.expiresAt <= changedAt + Timeout + LongestTTL
    <3>1. new.for = k /\ new.expiresAt = clock + life /\ new.old = reply[w].old BY <2>k, <2>r
    <3>2. (reply[w].old /\ changedAt # 0) => clock <= changedAt + Timeout
      BY <1>1, <2>r DEF OldReplies
    <3>3. new.expiresAt \in Nat /\ new.expiresAt <= clock + LongestTTL BY <1>t, <2>l, <3>1
    <3> HIDE DEF new
    <3> QED BY <1>t, <3>1, <3>2, <3>3
  <2> HIDE DEF new
  <2>5. EntriesOwn' BY <1>1, <2>1, <2>4 DEF CacheInv, EntriesOwn
  <2>6. Stored' \subseteq (Stored \ out) \cup {k} BY <2>1 DEF Stored
  <2>7. CacheCapped'
    <3> DEFINE S == (Stored \ out) \cup {k}
    <3>1. IsFiniteSet(S) /\ Cardinality(S) <= MaxEntries BY RoomForOne DEF CacheInv
    <3>2. IsFiniteSet(Stored') /\ Cardinality(Stored') <= Cardinality(S) BY <2>6, <3>1, FS_Subset
    <3>3. Cardinality(S) \in Nat /\ Cardinality(Stored') \in Nat BY <3>1, <3>2, FS_CardinalityType
    <3>4. Cardinality(Stored') <= MaxEntries BY <3>1, <3>2, <3>3, CacheConstantsOK
    <3> QED BY <3>2, <3>4 DEF CacheCapped
  <2> QED BY <1>2, <1>3, <1>4, <2>3, <2>5, <2>7 DEF CacheInv
<1> QED BY <1>5, <1>6

\* Every step of the fan-out keeps the invariants.
LEMMA MatchInvNext == CallInv /\ CacheInv /\ IInv /\ [MatchNext]_matchVars => CallInv' /\ CacheInv'
<1> SUFFICES ASSUME CallInv, CacheInv, IInv, [MatchNext]_matchVars PROVE CallInv' /\ CacheInv'
  OBVIOUS
<1>1. CASE UNCHANGED matchVars
  <2> USE <1>1 DEF matchVars, cacheVars, breakerVars
  <2>1. MatchShape' /\ RepliesOwn' /\ CallsTimed' /\ OldReplies'
    BY DEF CallInv, MatchShape, RepliesOwn, CallsTimed, OldReplies
  <2> QED BY <2>1, CacheKept DEF CallInv
<1>2. CASE \E w \in Workers, q \in Queries : CacheHit(w, q) BY <1>1, <1>2 DEF CacheHit
<1>3. CASE \E w \in Workers : Put(w) BY <1>3, PutStep
<1> QED BY <1>1, <1>2, <1>3, CallSteps, BeginSteps, ProviderSteps DEF MatchNext

\* The invariants of the fan-out hold in every state.
LEMMA MatchInvAlways == MatchSpec => [](CallInv /\ CacheInv /\ IInv)
<1>1. MatchInit => CallInv /\ CacheInv /\ IInv BY MatchInvInit, IInvInit DEF MatchInit
<1>2. CallInv /\ CacheInv /\ IInv /\ [MatchNext]_matchVars => (CallInv /\ CacheInv /\ IInv)'
  BY MatchInvNext, MatchBreaker, IInvNext
<1> QED BY <1>1, <1>2, PTL DEF MatchSpec

\* Type correctness of the fan-out; that the cache keeps its cap under any
\* concurrent fill is the part that takes an argument.
THEOREM MatchTypes == MatchSpec => []MatchTypeOK
<1>1. CallInv /\ CacheInv => MatchTypeOK
  BY DEF CallInv, CacheInv, MatchShape, RepliesOwn, CacheCapped, Stored, MatchTypeOK
<1> QED BY <1>1, MatchInvAlways, PTL

\* For any number of requests, keys and entries: the cache answers a query
\* only with what a provider answered for that query.
THEOREM AnswersAreOwn == MatchSpec => []OwnAnswers
<1>1. CallInv /\ CacheInv => OwnAnswers
  BY KeysAreQueries DEF CacheInv, EntriesOwn, OwnAnswers, Get, contextCacheKey
<1> QED BY <1>1, MatchInvAlways, PTL

\* For every timeout, every configured default and every TTL a provider
\* sends: an answer made before the targeting changed is gone one timeout and
\* one TTL later, the longer of the default and the ceiling.
THEOREM StalenessIsBounded == MatchSpec => []StaleBounded
<1>1. ASSUME CallInv, CacheInv, IInv PROVE StaleBounded
  <2> SUFFICES ASSUME NEW q \in Queries, Get(q) # None, Get(q).old, changedAt # 0
               PROVE  clock <= changedAt + Timeout + LongestTTL
    BY DEF StaleBounded
  <2>1. q \in CacheKeys /\ Get(q) = entries[q] /\ entries[q] # None /\ ~(clock > entries[q].expiresAt)
    BY KeysAreQueries DEF Get, expired, contextCacheKey
  <2>2. entries[q].expiresAt <= changedAt + Timeout + LongestTTL
    BY <1>1, <2>1 DEF CacheInv, EntriesOwn
  <2>3. /\ clock \in Nat /\ changedAt \in Nat /\ Timeout \in Nat /\ LongestTTL \in Nat
        /\ entries[q].expiresAt \in Nat
    BY <1>1, <2>1, CacheConstantsOK, BreakerConstantsOK
       DEF IInv, TypeOK, CallInv, MatchShape, Entry, LongestTTL
  <2> QED BY <2>1, <2>2, <2>3
<1> QED BY <1>1, MatchInvAlways, PTL

=============================================================================
