-------------------------- MODULE AuthorizationKeys --------------------------
(***************************************************************************)
(* The key store that fetches an agent's signing keys on demand            *)
(* (tmproto/keystore_authorization.go, LazyAuthorizationKeyStore): a cache  *)
(* bounded in size, one fetch per agent at a time shared by the lookups    *)
(* that wait for it, a ceiling on concurrent fetches, a grace in which an  *)
(* expired entry is served while the registry fails, and one refetch for a *)
(* kid the cached set does not have.                                       *)
(*                                                                         *)
(* The module follows one agent; of the others it keeps the fetch slots    *)
(* they take and the evictions they cause.  The registry's rows are        *)
(* versioned: version v lists kid v, the last version lists none.  Between *)
(* two waits (for the registry, or for another lookup's fetch) a lookup    *)
(* takes no time.                                                          *)
(***************************************************************************)
EXTENDS Integers, FiniteSets

CONSTANTS
  Lookups,                     \* goroutines that verify the agent's signatures
  LastVersion,                 \* bound on registry changes
  PositiveTTL, NegativeTTL, ServeStaleGrace, UnknownKidRefetchCooldown,
  FetchTimeout,
  MaxConcurrentFetches,
  MaxKeyTime,                  \* bound on now
  ChangeTimes,                 \* bound on when the registry changes
  NoEntry                      \* no entry, no reply, no fetch

\* agentCacheEntry: the rows' version, and when they arrived.
KeyEntry == [version : Nat, fetchedAt : Nat]

ASSUME KeyConstantsOK ==
  /\ {PositiveTTL, NegativeTTL, MaxConcurrentFetches, FetchTimeout, LastVersion} \subseteq Nat \ {0}
  /\ ServeStaleGrace \in Nat /\ ChangeTimes \subseteq Nat /\ UnknownKidRefetchCooldown \in Nat
  /\ NoEntry \notin Nat \cup Lookups \cup KeyEntry

VARIABLES
  now,
  version,    \* of the registry's rows
  changed,    \* when each version came into force
  cache,      \* the agent's entry
  inflight,   \* the lookup that leads the agent's fetch
  fetchSem,   \* slots taken
  lookup,     \* each lookup's place and locals
  newest      \* the newest version a fetch has brought; history

keyVars == <<now, version, changed, cache, inflight, fetchSem, lookup, newest>>

Versions == 0 .. LastVersion
Kids == 0 .. (LastVersion - 1)

byKid(e) == Kids \cap {e.version}

expires(e) == e.fetchedAt + (IF byKid(e) = {} THEN NegativeTTL ELSE PositiveTTL)

staleUntil(e) == expires(e) + ServeStaleGrace

Idle == [pc |-> "idle", kid |-> 0, cached |-> NoEntry, refetch |-> FALSE,
         since |-> 0, reply |-> NoEntry, slot |-> FALSE, result |-> "none", entry |-> NoEntry]

KeysInit ==
  /\ now = 0 /\ version = 0
  /\ changed = [v \in Versions |-> 0]
  /\ cache = NoEntry /\ inflight = NoEntry
  /\ fetchSem = 0
  /\ lookup = [l \in Lookups |-> Idle]
  /\ newest = 0

At(l, pc) == lookup[l].pc = pc

-----------------------------------------------------------------------------
(* The answer.                                                             *)

\* Mutant: an expired entry is served for as long as the registry fails.
staleOrNilForever(e) == IF e = NoEntry THEN NoEntry ELSE IF byKid(e) = {} THEN NoEntry ELSE e

staleOrNil(e) ==
  IF e = NoEntry \/ ServeStaleGrace = 0 THEN NoEntry
  ELSE IF byKid(e) # {} /\ now < staleUntil(e) THEN e ELSE NoEntry

\* A lookup goes on with entry e: its key, one refetch, or no key.
With(me, e) ==
  IF e = NoEntry THEN Idle
  ELSE IF byKid(e) = {} THEN Idle
  ELSE IF me.kid \in byKid(e) THEN [Idle EXCEPT !.pc = "answered", !.entry = e]
  ELSE IF ~me.refetch /\ now - e.fetchedAt >= UnknownKidRefetchCooldown
       THEN [Idle EXCEPT !.pc = "miss", !.kid = me.kid, !.refetch = TRUE]
       ELSE Idle

\* A lookup goes on with its own fetch's result, or with the one it waited
\* for.  A panic ends the leader and leaves the others without an entry.
After(me) ==
  CASE me.result = "ok" -> With(me, me.entry)
    [] me.result = "failed" -> IF me.refetch THEN Idle ELSE With(me, staleOrNil(me.cached))
    [] me.result = "panicked" -> Idle

\* A lookup that shared a fetch takes the leader's result.
Given(me, lead) == [me EXCEPT !.result = lead.result, !.entry = lead.entry]

\* entryFor's first look in the cache, and the answer when it holds.
Look(l, k) ==
  LET me == [Idle EXCEPT !.kid = k]
      fresh == IF cache = NoEntry THEN FALSE ELSE now < expires(cache)
  IN
  /\ At(l, "idle")
  /\ lookup' = [lookup EXCEPT ![l] =
       IF fresh THEN With(me, cache) ELSE [me EXCEPT !.pc = "miss", !.cached = cache]]
  /\ UNCHANGED <<now, version, changed, cache, inflight, fetchSem, newest>>

\* LookupKeyForAgentCtx returns the key.
Return(l) ==
  /\ At(l, "answered")
  /\ lookup' = [lookup EXCEPT ![l] = Idle]
  /\ UNCHANGED <<now, version, changed, cache, inflight, fetchSem, newest>>

-----------------------------------------------------------------------------
(* The fetch.                                                              *)

\* A fetch is under way: wait for it.  One that has already woken the
\* lookups that waited is still in the map, and its result is taken.
Join(l) ==
  /\ At(l, "miss") /\ inflight # NoEntry
  /\ lookup' = [lookup EXCEPT ![l] =
       IF At(inflight, "deleting")
       THEN After(Given(@, lookup[inflight]))
       ELSE [@ EXCEPT !.pc = "waiting"]]
  /\ UNCHANGED <<now, version, changed, cache, inflight, fetchSem, newest>>

\* Mutant: a refetch for an unknown kid goes to the registry on its own.
LeadRefetchAlone(l) ==
  /\ At(l, "miss")
  /\ \/ /\ lookup[l].refetch
        /\ lookup' = [lookup EXCEPT ![l].pc = "fetching", ![l].since = now]
        /\ UNCHANGED <<inflight, fetchSem>>
     \/ /\ ~lookup[l].refetch /\ inflight = NoEntry /\ fetchSem < MaxConcurrentFetches
        /\ inflight' = l
        /\ fetchSem' = fetchSem + 1
        /\ lookup' = [lookup EXCEPT ![l].pc = "fetching", ![l].since = now, ![l].slot = TRUE]
  /\ UNCHANGED <<now, version, changed, cache, newest>>

\* The lookup leads a fetch, and is refused where the ceiling is reached.
Lead(l) ==
  /\ At(l, "miss") /\ inflight = NoEntry
  /\ inflight' = l
  /\ \/ /\ fetchSem < MaxConcurrentFetches
        /\ fetchSem' = fetchSem + 1
        /\ lookup' = [lookup EXCEPT ![l].pc = "fetching", ![l].since = now, ![l].slot = TRUE]
     \/ /\ fetchSem = MaxConcurrentFetches
        /\ lookup' = [lookup EXCEPT ![l].pc = "leaving", ![l].result = "failed"]
        /\ UNCHANGED fetchSem
  /\ UNCHANGED <<now, version, changed, cache, newest>>

\* The registry reads its rows and sends them.
RegistryAnswers(l) ==
  /\ At(l, "fetching") /\ lookup[l].reply = NoEntry
  /\ lookup' = [lookup EXCEPT ![l].reply = version]
  /\ UNCHANGED <<now, version, changed, cache, inflight, fetchSem, newest>>

\* The rows arrive and are added to the cache.
FetchSucceeds(l) ==
  LET e == [version |-> lookup[l].reply, fetchedAt |-> now] IN
  /\ At(l, "fetching") /\ lookup[l].reply # NoEntry
  /\ cache' = e
  /\ newest' = IF e.version > newest THEN e.version ELSE newest
  /\ lookup' = [lookup EXCEPT ![l].pc = "leaving", ![l].result = "ok", ![l].entry = e]
  /\ UNCHANGED <<now, version, changed, inflight, fetchSem>>

\* Mutant: a panic in the transport skips the cleanup.
FetchFailsNoDefer(l) ==
  /\ At(l, "fetching")
  /\ lookup' = [lookup EXCEPT ![l] = Idle]
  /\ UNCHANGED <<now, version, changed, cache, inflight, fetchSem, newest>>

\* A timeout, a bad answer, the caller's deadline, or a panic.
FetchFails(l) ==
  /\ At(l, "fetching")
  /\ \E r \in {"failed", "panicked"} :
       lookup' = [lookup EXCEPT ![l].pc = "leaving", ![l].result = r]
  /\ UNCHANGED <<now, version, changed, cache, inflight, fetchSem, newest>>

\* The deferred cleanup: the slot is freed, the lookups that wait are woken,
\* and then the fetch is taken out of the map.
Release(l) ==
  LET me == lookup[l] IN
  /\ At(l, "leaving")
  /\ fetchSem' = IF me.slot THEN fetchSem - 1 ELSE fetchSem
  /\ lookup' = [m \in Lookups |->
       IF m = l THEN [me EXCEPT !.pc = "deleting", !.slot = FALSE, !.since = 0, !.reply = NoEntry]
       ELSE IF At(m, "waiting")
       THEN After(Given(lookup[m], me))
       ELSE lookup[m]]
  /\ UNCHANGED <<now, version, changed, cache, inflight, newest>>

Delete(l) ==
  /\ At(l, "deleting")
  /\ inflight' = NoEntry
  /\ lookup' = [lookup EXCEPT ![l] = After(@)]
  /\ UNCHANGED <<now, version, changed, cache, fetchSem, newest>>

-----------------------------------------------------------------------------

\* Host code drops the entry, or another agent's entry pushes it out.
Invalidate ==
  /\ cache # NoEntry
  /\ cache' = NoEntry
  /\ UNCHANGED <<now, version, changed, inflight, fetchSem, lookup, newest>>

Leaders == {l \in Lookups : lookup[l].slot}

\* Lookups for other agents take and free slots.
OthersFetch ==
  /\ \/ fetchSem < MaxConcurrentFetches /\ fetchSem' = fetchSem + 1
     \/ fetchSem > Cardinality(Leaders) /\ fetchSem' = fetchSem - 1
  /\ UNCHANGED <<now, version, changed, cache, inflight, lookup, newest>>

RegistryChanges ==
  /\ version < LastVersion /\ now \in ChangeTimes
  /\ version' = version + 1
  /\ changed' = [changed EXCEPT ![version + 1] = now]
  /\ UNCHANGED <<now, cache, inflight, fetchSem, lookup, newest>>

\* Time passes while lookups wait, a fetch for at most FetchTimeout.
KeyTick ==
  /\ now < MaxKeyTime
  /\ \A l \in Lookups :
       \/ At(l, "idle") \/ At(l, "waiting")
       \/ At(l, "fetching") /\ now < lookup[l].since + FetchTimeout
  /\ now' = now + 1
  /\ UNCHANGED <<version, changed, cache, inflight, fetchSem, lookup, newest>>

\* What a lookup does once it has begun.
GoesOn(l) ==
  \/ Join(l) \/ Lead(l) \/ FetchSucceeds(l) \/ FetchFails(l)
  \/ Release(l) \/ Delete(l) \/ Return(l)

KeysNext ==
  \/ \E l \in Lookups, k \in Kids : Look(l, k)
  \/ \E l \in Lookups : GoesOn(l) \/ RegistryAnswers(l)
  \/ Invalidate
  \/ OthersFetch
  \/ RegistryChanges
  \/ KeyTick

KeysSpec == KeysInit /\ [][KeysNext]_keyVars

-----------------------------------------------------------------------------

\* A key that the registry no longer lists is accepted for at most one fetch,
\* one positive TTL and one grace more, through failing refetches, shared
\* fetches, invalidations that a late fetch undoes and refetches for other
\* kids ("bounded revocation window", keystore_authorization.go 162-171).
RevocationBounded ==
  \A l \in Lookups :
    (At(l, "answered") /\ lookup[l].entry.version < version) =>
      now <= changed[lookup[l].entry.version + 1] + FetchTimeout + PositiveTTL + ServeStaleGrace

\* What the cache holds is the newest answer the registry gave
\* for it: a slow fetch never replaces what a later one brought, because
\* first fetches and refetches share one single flight (inflight,
\* keystore_authorization.go 382-394 and 465-477).
NewestCached == cache # NoEntry => cache.version = newest

\* Every lookup ends: no leader's failure or panic leaves the lookups that
\* share its fetch waiting, and none goes round for ever (the deferred
\* cleanup, keystore_authorization.go 479-492).
LookupsEnd == \A l \in Lookups : ~At(l, "idle") ~> At(l, "idle")
=============================================================================
