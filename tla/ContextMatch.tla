---------------------------- MODULE ContextMatch ----------------------------
(***************************************************************************)
(* The fan-out of a Context Match request (router.go, fanOutContext): the  *)
(* response cache (context_cache.go) in front of the circuit breaker.      *)
(*                                                                         *)
(* A request goroutine looks in the cache, passes the breaker, calls the   *)
(* provider, records the outcome and stores the response before it         *)
(* returns; the health checker uses the breaker only.  Of a response the   *)
(* model keeps the request it was made for, whether the provider made it   *)
(* before its targeting changed, and its cache_ttl.                        *)
(***************************************************************************)
EXTENDS CircuitBreaker

CONSTANTS
  Placements, Sellers,
  ProviderTTLs,   \* the cache_ttl values providers send, Absent among them
  Absent,         \* no cache_ttl in a response
  DefaultTTL,     \* ContextCache.defaultTTL, any positive duration
  MaxTTL,         \* MaxContextCacheTTL, the ceiling on a provider's cache_ttl
  MaxEntries,     \* ContextCache.maxEntries
  Timeout,        \* effectiveTimeout of a call
  LastChange,     \* bound on when the provider's targeting changes
  None            \* no cache key, no reply, no entry

ASSUME CacheConstantsOK ==
  /\ MaxTTL \in Nat \ {0} /\ DefaultTTL \in Nat \ {0}
  /\ MaxEntries \in Nat \ {0} /\ Timeout \in Nat /\ LastChange \in Nat
  /\ Absent \in ProviderTTLs /\ ProviderTTLs \ {Absent} \subseteq Int

\* A request's cache dimensions for one provider; the property and the country,
\* two more dimensions of the same key, are one each.
Queries == [placement : Placements, seller : Sellers, provider : Providers]

VARIABLES
  entries,     \* ContextCache.entries, None where the map has no key
  asks,        \* the query of each request in progress, None without a cache
  callStart,   \* when each call began
  reply,       \* the response on its way to, or in the hands of, a request
  changedAt    \* when the provider's targeting changed, 0 before

cacheVars == <<entries, asks, callStart, reply, changedAt>>
matchVars == <<breakerVars, cacheVars>>

\* Mutant: the seller is not part of the key.
contextCacheKeyNoSeller(q) == [placement |-> q.placement, provider |-> q.provider]

contextCacheKey(q) == q

CacheKeys == {contextCacheKey(q) : q \in Queries}

Reply == [for : Queries, old : BOOLEAN, ttl : ProviderTTLs]
Entry == [for : Queries, old : BOOLEAN, expiresAt : Nat, insertedAt : Nat]

\* The cache keeps its cap, a request in progress knows its query, and only a
\* call has a reply.
MatchTypeOK ==
  /\ Cardinality({k \in CacheKeys : entries[k] # None}) <= MaxEntries
  /\ \A k \in CacheKeys : entries[k] # None => entries[k] \in Entry
  /\ \A w \in Workers : asks[w] # None => asks[w] \in Queries /\ at[w] # "idle"
  /\ callStart \in [Workers -> 0 .. MaxTime]
  /\ \A w \in Workers : reply[w] # None => reply[w] \in Reply /\ at[w] \in {"calling", "leaving"}
  /\ changedAt \in 0 .. MaxTime

MatchInit ==
  /\ BreakerInit
  /\ entries = [k \in CacheKeys |-> None]
  /\ asks = [w \in Workers |-> None]
  /\ callStart = [w \in Workers |-> 0]
  /\ reply = [w \in Workers |-> None]
  /\ changedAt = 0

-----------------------------------------------------------------------------
(* The cache.                                                              *)

Stored == {k \in CacheKeys : entries[k] # None}

expired(k) == clock > entries[k].expiresAt

\* Mutant: an entry is served whatever its age.
GetAnyAge(q) == entries[contextCacheKey(q)]

\* What Get answers a request that asks q now.
Get(q) ==
  LET k == contextCacheKey(q) IN
  IF k \in Stored /\ ~expired(k) THEN entries[k] ELSE None

\* A hit returns before the breaker is asked.
CacheHit(w, q) ==
  /\ at[w] = "idle" /\ w \in Requests
  /\ Get(q) # None
  /\ UNCHANGED matchVars

\* A miss deletes the entry it found expired.
CacheMiss(w, q) ==
  /\ w \in Requests /\ Get(q) = None
  /\ Begin(w, q.provider)
  /\ entries' = [entries EXCEPT ![contextCacheKey(q)] = None]
  /\ asks' = [asks EXCEPT ![w] = q]
  /\ UNCHANGED <<callStart, reply, changedAt>>

\* The health checker.
BeginCheck(p) ==
  /\ Begin(Checker, p)
  /\ UNCHANGED cacheVars

\* Mutant: the provider's TTL is taken as it is.
lifetimeUnclamped(ttl) == IF ttl = Absent THEN DefaultTTL ELSE IF ttl < 0 THEN DefaultTTL ELSE ttl

\* How long Put keeps a response, cache_ttl = 0 apart.  Only the provider's
\* value is clamped: the configured default may be longer than MaxTTL.
lifetime(ttl) ==
  IF ttl = Absent THEN DefaultTTL
  ELSE IF ttl < 0 THEN DefaultTTL
  ELSE IF ttl > MaxTTL THEN MaxTTL ELSE ttl

\* Mutant: a full cache is swept and nothing is evicted.
evictionsSweepOnly(k) == {{j \in Stored : expired(j)}}

\* The sets of keys a new key k may push out: the expired ones and, when that
\* makes no room, the oldest left, any of them in a tie.
evictions(k) ==
  IF k \in Stored \/ Cardinality(Stored) < MaxEntries THEN {{}}
  ELSE LET swept == {j \in Stored : expired(j)}
           left == Stored \ swept
       IN IF Cardinality(left) < MaxEntries THEN {swept}
          ELSE {swept \cup {j} : j \in {i \in left :
                  \A h \in left : entries[i].insertedAt <= entries[h].insertedAt}}

\* A response with cache_ttl = 0 is not stored and removes nothing.
Put(w) ==
  LET k == contextCacheKey(asks[w])
      new == [for |-> reply[w].for, old |-> reply[w].old,
              expiresAt |-> clock + lifetime(reply[w].ttl), insertedAt |-> clock]
  IN
  /\ at[w] = "leaving" /\ reply[w] # None
  /\ \/ /\ reply[w].ttl = 0
        /\ UNCHANGED entries
     \/ /\ reply[w].ttl # 0
        /\ \E out \in evictions(k) :
             entries' = [j \in CacheKeys |->
               IF j = k THEN new ELSE IF j \in out THEN None ELSE entries[j]]
  /\ reply' = [reply EXCEPT ![w] = None]
  /\ UNCHANGED <<breakerVars, asks, callStart, changedAt>>

-----------------------------------------------------------------------------
(* The provider call.                                                      *)

\* The provider makes its response, with the targeting it has now.
Respond(w, ttl) ==
  /\ at[w] = "calling" /\ asks[w] # None /\ reply[w] = None
  /\ reply' = [reply EXCEPT ![w] = [for |-> asks[w], old |-> changedAt = 0, ttl |-> ttl]]
  /\ UNCHANGED <<breakerVars, entries, asks, callStart, changedAt>>

Call(w) ==
  /\ IncrInflight(w)
  /\ callStart' = [callStart EXCEPT ![w] = clock]
  /\ UNCHANGED <<entries, asks, reply, changedAt>>

\* The response arrives, or the call needs none the cache knows of.
Succeed(w) ==
  /\ asks[w] # None => reply[w] # None
  /\ RecordSuccess(w)
  /\ UNCHANGED cacheVars

\* A timeout or another failure: a response still on its way is not read.
Fail(w) ==
  /\ RecordFailure(w) \/ Abandon(w)
  /\ reply' = [reply EXCEPT ![w] = None]
  /\ UNCHANGED <<entries, asks, callStart, changedAt>>

Return(w) ==
  /\ reply[w] = None
  /\ DecrInflight(w)
  /\ asks' = [asks EXCEPT ![w] = None]
  /\ callStart' = [callStart EXCEPT ![w] = 0]
  /\ UNCHANGED <<entries, reply, changedAt>>

\* Turned away by the breaker, or one step further through it.
Gate(w) ==
  /\ LoadOpenUntil(w) \/ CompareAndSwap(w) \/ ResetFailures(w) \/ StoreOpenUntil(w)
  /\ asks' = IF at'[w] = "idle" THEN [asks EXCEPT ![w] = None] ELSE asks
  /\ UNCHANGED <<entries, callStart, reply, changedAt>>

\* The provider's operator changes its targeting.
Retarget ==
  /\ changedAt = 0 /\ clock <= LastChange
  /\ changedAt' = clock
  /\ UNCHANGED <<breakerVars, entries, asks, callStart, reply>>

\* Time passes while a call is out, up to its timeout, and anywhere in the
\* breaker; from a response to its Put the goroutine does not wait.
MatchTick ==
  /\ \A w \in Requests :
       /\ at[w] = "calling" => clock < callStart[w] + Timeout
       /\ at[w] = "leaving" => reply[w] = None
  /\ Tick
  /\ UNCHANGED cacheVars

MatchNext ==
  \/ \E w \in Workers, q \in Queries : CacheHit(w, q) \/ CacheMiss(w, q)
  \/ \E p \in Providers : BeginCheck(p)
  \/ \E w \in Workers : Gate(w) \/ Call(w) \/ Succeed(w) \/ Fail(w) \/ Put(w) \/ Return(w)
  \/ \E w \in Workers, ttl \in ProviderTTLs : Respond(w, ttl)
  \/ Retarget
  \/ MatchTick

MatchSpec == MatchInit /\ [][MatchNext]_matchVars

-----------------------------------------------------------------------------
(* What the cache promises.                                                *)

\* The longest Put can keep a response.
LongestTTL == IF DefaultTTL > MaxTTL THEN DefaultTTL ELSE MaxTTL

\* After the provider's targeting changed, an answer made before the change
\* is given out for at most one call timeout and one TTL more, the longer of
\* the configured default and the ceiling: whatever cache_ttl it came with,
\* however late a concurrent request stored it, over a newer answer or after
\* one that disabled caching ("the TTL bounds staleness", router.go 462-471;
\* Put, context_cache.go 191-235).
StaleBounded ==
  \A q \in Queries :
    (Get(q) # None /\ Get(q).old /\ changedAt # 0) => clock <= changedAt + Timeout + LongestTTL

\* A request is answered from the cache only with what a provider answered
\* for the same placement and the same seller: no concurrent fill or eviction
\* crosses tenants (contextCacheKey, context_cache.go 286-299).
OwnAnswers == \A q \in Queries : Get(q) # None => Get(q).for = q
=============================================================================
