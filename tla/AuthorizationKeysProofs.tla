---------------------- MODULE AuthorizationKeysProofs ----------------------
(***************************************************************************)
(* Proofs about AuthorizationKeys for every number of lookups and registry *)
(* versions and every TTL, grace, cooldown, timeout and fetch ceiling.     *)
(***************************************************************************)
EXTENDS AuthorizationKeys, TLAPS

KeyLabels == {"idle", "miss", "waiting", "fetching", "leaving", "deleting", "answered"}

LookupState ==
  [pc : KeyLabels, kid : Kids, cached : KeyEntry \cup {NoEntry}, refetch : BOOLEAN,
   since : Nat, reply : Nat \cup {NoEntry}, slot : BOOLEAN,
   result : {"none", "ok", "failed", "panicked"}, entry : KeyEntry \cup {NoEntry}]

RegistryOK ==
  /\ now \in Nat /\ version \in Versions /\ newest \in Nat /\ newest <= version
  /\ changed \in [Versions -> Nat]

\* An entry arrived in the past, and no later than a fetch after the change
\* that outdated it.
Good(e) ==
  /\ e \in KeyEntry /\ e.fetchedAt <= now /\ e.version <= version
  /\ e.version < version => e.fetchedAt <= changed[e.version + 1] + FetchTimeout

\* A leader's locals: its fetch is within its timeout, and the reply on its
\* way is no older than the cache's newest and was current after it began.
FetchOK(me) ==
  /\ me.since <= now /\ now <= me.since + FetchTimeout
  /\ me.reply # NoEntry =>
       /\ newest <= me.reply /\ me.reply <= version
       /\ me.reply < version => me.since <= changed[me.reply + 1]

\* A fetch's result, while no time passes.
ResultOK(me) ==
  /\ me.result # "none"
  /\ me.result = "ok" => Good(me.entry) /\ me.entry.fetchedAt = now

\* An answer is inside the lifetime and the grace of the entry it is from.
AnswerOK(me) == Good(me.entry) /\ now <= me.entry.fetchedAt + PositiveTTL + ServeStaleGrace

LookupOK(me) ==
  /\ me \in LookupState
  /\ me.cached # NoEntry => Good(me.cached)
  /\ me.pc \notin {"fetching", "leaving"} => me.reply = NoEntry
  /\ me.pc = "fetching" => FetchOK(me)
  /\ me.pc \in {"leaving", "deleting"} => ResultOK(me)
  /\ me.pc = "answered" => AnswerOK(me)

\* Everyone between Lead and Delete is the lookup that the map names.
SingleFlight ==
  \A l \in Lookups : lookup[l].pc \in {"fetching", "leaving", "deleting"} => inflight = l

CacheOK == cache # NoEntry => Good(cache) /\ cache.version = newest

KeysInv ==
  /\ RegistryOK /\ CacheOK
  /\ inflight \in Lookups \cup {NoEntry}
  /\ DOMAIN lookup = Lookups /\ lookup = [l \in Lookups |-> lookup[l]]
  /\ \A l \in Lookups : LookupOK(lookup[l])
  /\ SingleFlight

\* An idle lookup has nothing to answer for.
LEMMA IdleOK == LookupOK(Idle) /\ Idle.pc = "idle"
BY KeyConstantsOK DEF LookupOK, Idle, LookupState, KeyLabels, Kids

\* The store starts without an entry, a fetch or a lookup.
LEMMA KeysInvInit == KeysInit => KeysInv
BY IdleOK, KeyConstantsOK DEF KeysInit, KeysInv, RegistryOK, CacheOK, SingleFlight, Versions

\* Going on with an entry that is fresh, in its grace or just fetched.
LEMMA WithOK ==
  ASSUME KeysInv, NEW me \in LookupState, NEW e,
         e # NoEntry => Good(e) /\ (byKid(e) # {} => now <= e.fetchedAt + PositiveTTL + ServeStaleGrace)
  PROVE  LookupOK(With(me, e)) /\ With(me, e).pc \in {"idle", "answered", "miss"}
<1>1. CASE With(me, e) = Idle BY <1>1, IdleOK
<1>2. CASE /\ e # NoEntry /\ byKid(e) # {}
           /\ With(me, e) = [Idle EXCEPT !.pc = "answered", !.entry = e]
  <2> DEFINE r == [Idle EXCEPT !.pc = "answered", !.entry = e]
  <2>1. r.pc = "answered" /\ r.entry = e /\ r.cached = NoEntry /\ r.reply = NoEntry
    BY DEF Idle
  <2>0. e \in KeyEntry BY <1>2 DEF Good
  <2>2. r \in LookupState
    <3>1. 0 \in Kids BY KeyConstantsOK DEF Kids
    <3> QED BY <2>0, <3>1 DEF Idle, LookupState, KeyLabels
  <2> HIDE DEF r
  <2>3. LookupOK(r) BY <1>2, <2>1, <2>2 DEF LookupOK, AnswerOK
  <2> QED BY <1>2, <2>1, <2>3 DEF r
<1>3. CASE With(me, e) = [Idle EXCEPT !.pc = "miss", !.kid = me.kid, !.refetch = TRUE]
  <2> DEFINE r == [Idle EXCEPT !.pc = "miss", !.kid = me.kid, !.refetch = TRUE]
  <2>1. r.pc = "miss" /\ r.cached = NoEntry /\ r.reply = NoEntry
    BY DEF Idle
  <2>2. r \in LookupState
    BY KeyConstantsOK DEF Idle, LookupState, KeyLabels, Kids
  <2> HIDE DEF r
  <2>3. LookupOK(r) BY <2>1, <2>2 DEF LookupOK
  <2> QED BY <1>3, <2>1, <2>3 DEF r
<1> QED BY <1>1, <1>2, <1>3 DEF With

\* Going on with the result of a fetch, one's own or a shared one.
LEMMA AfterOK ==
  ASSUME KeysInv, NEW me \in LookupState, ResultOK(me), me.cached # NoEntry => Good(me.cached)
  PROVE  LookupOK(After(me)) /\ After(me).pc \in {"idle", "answered", "miss"}
<1>n. now \in Nat BY DEF KeysInv, RegistryOK
<1>1. CASE me.result = "ok"
  <2>1. Good(me.entry) /\ now <= me.entry.fetchedAt + PositiveTTL + ServeStaleGrace
    BY <1>1, <1>n, KeyConstantsOK DEF ResultOK, Good, KeyEntry
  <2> QED BY <1>1, <2>1, WithOK DEF After
<1>2. CASE me.result = "failed"
  <2> DEFINE e == staleOrNil(me.cached)
  <2>1. ASSUME e # NoEntry
        PROVE  Good(e) /\ (byKid(e) # {} => now <= e.fetchedAt + PositiveTTL + ServeStaleGrace)
    <3>1. e = me.cached /\ me.cached # NoEntry /\ byKid(e) # {} /\ now < staleUntil(e)
      BY <2>1 DEF staleOrNil
    <3>2. Good(e) BY <3>1
    <3> QED BY <3>1, <3>2, <1>n, KeyConstantsOK DEF staleUntil, expires, Good, KeyEntry
  <2> HIDE DEF e
  <2>2. LookupOK(With(me, e)) /\ With(me, e).pc \in {"idle", "answered", "miss"}
    BY <2>1, WithOK
  <2>3. After(me) = Idle \/ After(me) = With(me, e) BY <1>2 DEF After, e
  <2> QED BY <2>2, <2>3, IdleOK
<1>3. CASE me.result = "panicked" BY <1>3, IdleOK DEF After
<1> QED BY <1>1, <1>2, <1>3 DEF ResultOK, LookupState

\* While the clock, the registry and newest stand still, what is known of
\* entries and lookups stays known.
LEMMA StillOK ==
  ASSUME UNCHANGED <<now, version, changed>>, newest' = newest
  PROVE  /\ \A e : Good(e)' = Good(e)
         /\ \A me : LookupOK(me)' = LookupOK(me)
BY DEF Good, LookupOK, FetchOK, ResultOK, AnswerOK

\* A step of one lookup that changes neither the registry nor the cache.
LEMMA OneLookup ==
  ASSUME KeysInv, NEW l \in Lookups, NEW me, lookup' = [lookup EXCEPT ![l] = me], LookupOK(me),
         UNCHANGED <<now, version, changed, cache, newest>>,
         inflight' \in Lookups \cup {NoEntry},
         me.pc \in {"fetching", "leaving", "deleting"} => inflight' = l,
         inflight' # inflight => inflight \in {l, NoEntry}
  PROVE  KeysInv'
<1>1. /\ \A e : Good(e)' = Good(e)
      /\ \A x : LookupOK(x)' = LookupOK(x)
  BY StillOK
<1>2. RegistryOK' /\ CacheOK' BY <1>1 DEF KeysInv, RegistryOK, CacheOK
<1>3. \A m \in Lookups : lookup'[m] = IF m = l THEN me ELSE lookup[m] BY DEF KeysInv
<1>4. \A m \in Lookups : LookupOK(lookup[m])' BY <1>1, <1>3 DEF KeysInv
<1>5. SingleFlight' BY <1>3, KeyConstantsOK DEF KeysInv, SingleFlight
<1>6. DOMAIN lookup' = Lookups /\ lookup' = [m \in Lookups |-> lookup'[m]] BY DEF KeysInv
<1> QED BY <1>2, <1>4, <1>5, <1>6 DEF KeysInv

\* The first look: a fresh entry answers, anything else is a miss.
LEMMA LookStep == ASSUME KeysInv, NEW l \in Lookups, NEW k \in Kids, Look(l, k) PROVE KeysInv'
<1> DEFINE me == [Idle EXCEPT !.kid = k]
           miss == [me EXCEPT !.pc = "miss", !.cached = cache]
<1>1. me \in LookupState
  BY IdleOK DEF LookupOK, LookupState
<1>2. cache = NoEntry \/ Good(cache) BY DEF KeysInv, CacheOK
<1>3. LookupOK(miss) /\ miss.pc = "miss"
  <2>1. miss.pc = "miss" /\ miss.cached = cache /\ miss.reply = NoEntry BY DEF Idle
  <2>2. miss \in LookupState
    <3>1. cache \in KeyEntry \cup {NoEntry} BY <1>2 DEF Good
    <3> QED BY <1>1, <3>1 DEF LookupState, KeyLabels
  <2> HIDE DEF miss
  <2> QED BY <1>2, <2>1, <2>2 DEF LookupOK
<1>4. ASSUME cache # NoEntry, now < expires(cache)
      PROVE  LookupOK(With(me, cache)) /\ With(me, cache).pc \in {"idle", "answered", "miss"}
  <2>1. Good(cache) BY <1>2, <1>4
  <2>2. byKid(cache) # {} => now <= cache.fetchedAt + PositiveTTL + ServeStaleGrace
    BY <1>4, <2>1, KeyConstantsOK DEF expires, Good, KeyEntry, KeysInv, RegistryOK
  <2> HIDE DEF me
  <2> QED BY <1>1, <2>1, <2>2, WithOK
<1>5. \E x : /\ lookup' = [lookup EXCEPT ![l] = x] /\ LookupOK(x)
             /\ x.pc \in {"idle", "answered", "miss"}
  <2>1. \/ cache # NoEntry /\ now < expires(cache) /\ lookup' = [lookup EXCEPT ![l] = With(me, cache)]
        \/ lookup' = [lookup EXCEPT ![l] = miss]
    BY DEF Look
  <2> HIDE DEF me, miss
  <2> QED BY <2>1, <1>3, <1>4
<1>6. inflight' \in Lookups \cup {NoEntry} BY DEF Look, KeysInv
<1> HIDE DEF me, miss
<1> QED BY <1>5, <1>6, OneLookup DEF Look

\* A lookup joins the fetch that is under way, or takes its result.
LEMMA JoinStep == ASSUME KeysInv, NEW l \in Lookups, Join(l) PROVE KeysInv'
<1>1. LookupOK(lookup[l]) /\ lookup[l].pc = "miss" /\ inflight \in Lookups /\ inflight' = inflight
  BY DEF KeysInv, Join, At
<1>2. CASE At(inflight, "deleting")
  <2> DEFINE me == Given(lookup[l], lookup[inflight])
  <2>1. lookup' = [lookup EXCEPT ![l] = After(me)] BY <1>1, <1>2 DEF Join, KeysInv
  <2>2. LookupOK(lookup[inflight]) /\ ResultOK(lookup[inflight])
    BY <1>1, <1>2 DEF KeysInv, LookupOK, At
  <2>3. me \in LookupState
    BY <1>1, <2>2 DEF LookupOK, LookupState, Given
  <2>4. /\ me.cached = lookup[l].cached /\ me.result = lookup[inflight].result
        /\ me.entry = lookup[inflight].entry
    BY <1>1 DEF LookupOK, LookupState, Given
  <2> HIDE DEF me
  <2>5. ResultOK(me) /\ (me.cached # NoEntry => Good(me.cached))
    BY <1>1, <2>2, <2>4 DEF ResultOK, LookupOK
  <2>6. LookupOK(After(me)) /\ After(me).pc \in {"idle", "answered", "miss"}
    BY <2>3, <2>5, AfterOK
  <2> QED BY <1>1, <2>1, <2>6, OneLookup DEF Join
<1>3. CASE ~At(inflight, "deleting")
  <2> DEFINE me == [lookup[l] EXCEPT !.pc = "waiting"]
  <2>1. lookup' = [lookup EXCEPT ![l] = me] BY <1>1, <1>3 DEF Join, KeysInv
  <2>2. LookupOK(me) /\ me.pc = "waiting"
    BY <1>1 DEF LookupOK, LookupState, KeyLabels
  <2> HIDE DEF me
  <2> QED BY <1>1, <2>1, <2>2, OneLookup DEF Join
<1> QED BY <1>2, <1>3

\* A lookup leads the fetch, alone.
LEMMA LeadStep == ASSUME KeysInv, NEW l \in Lookups, Lead(l) PROVE KeysInv'
<1>1. /\ LookupOK(lookup[l]) /\ lookup[l].pc = "miss" /\ inflight = NoEntry /\ inflight' = l
      /\ now \in Nat
  BY DEF KeysInv, Lead, At, RegistryOK
<1> DEFINE go == [lookup[l] EXCEPT !.pc = "fetching", !.since = now, !.slot = TRUE]
           no == [lookup[l] EXCEPT !.pc = "leaving", !.result = "failed"]
<1>2. \/ lookup' = [lookup EXCEPT ![l] = go]
      \/ lookup' = [lookup EXCEPT ![l] = no]
  BY <1>1 DEF Lead, KeysInv, LookupOK, LookupState
<1>3. LookupOK(go) /\ go.pc = "fetching"
  <2>1. /\ go.pc = "fetching" /\ go.since = now /\ go.reply = NoEntry /\ go.cached = lookup[l].cached
        /\ go \in LookupState
    BY <1>1 DEF LookupOK, LookupState, KeyLabels
  <2> HIDE DEF go
  <2> QED BY <1>1, <2>1, KeyConstantsOK DEF LookupOK, FetchOK
<1>4. LookupOK(no) /\ no.pc = "leaving"
  <2>1. /\ no.pc = "leaving" /\ no.result = "failed" /\ no.cached = lookup[l].cached
        /\ no \in LookupState
    BY <1>1 DEF LookupOK, LookupState, KeyLabels
  <2> HIDE DEF no
  <2> QED BY <1>1, <2>1 DEF LookupOK, ResultOK
<1> HIDE DEF go, no
<1>5. \E me : lookup' = [lookup EXCEPT ![l] = me] /\ LookupOK(me) BY <1>2, <1>3, <1>4
<1> QED BY <1>1, <1>5, OneLookup DEF Lead

\* The registry answers with the rows it has now.
LEMMA AnswersStep == ASSUME KeysInv, NEW l \in Lookups, RegistryAnswers(l) PROVE KeysInv'
<1>1. /\ LookupOK(lookup[l]) /\ lookup[l].pc = "fetching" /\ inflight' = inflight /\ inflight = l
      /\ version \in Nat /\ newest <= version
  BY KeyConstantsOK DEF KeysInv, SingleFlight, RegistryAnswers, At, RegistryOK, Versions
<1> DEFINE me == [lookup[l] EXCEPT !.reply = version]
<1>2. lookup' = [lookup EXCEPT ![l] = me] BY DEF RegistryAnswers
<1>3. /\ me.pc = "fetching" /\ me.since = lookup[l].since /\ me.reply = version
      /\ me.cached = lookup[l].cached /\ me \in LookupState
  BY <1>1 DEF LookupOK, LookupState
<1> HIDE DEF me
<1>4. LookupOK(me)
  BY <1>1, <1>3 DEF LookupOK, FetchOK
<1> QED BY <1>1, <1>2, <1>3, <1>4, OneLookup DEF RegistryAnswers

\* The reply is cached.  It is no older than what the cache had, because no
\* other fetch has ended since it was sent.
LEMMA SucceedsStep == ASSUME KeysInv, NEW l \in Lookups, FetchSucceeds(l) PROVE KeysInv'
<1> DEFINE e == [version |-> lookup[l].reply, fetchedAt |-> now]
           me == [lookup[l] EXCEPT !.pc = "leaving", !.result = "ok", !.entry = e]
<1>1. /\ LookupOK(lookup[l]) /\ lookup[l].pc = "fetching" /\ inflight = l
      /\ lookup[l].reply # NoEntry /\ FetchOK(lookup[l]) /\ lookup[l] \in LookupState
  BY DEF KeysInv, SingleFlight, FetchSucceeds, At, LookupOK
<1>2. /\ now \in Nat /\ version \in Nat /\ newest \in Nat /\ changed \in [Versions -> Nat]
      /\ lookup[l].reply \in Nat /\ lookup[l].since \in Nat
      /\ version <= LastVersion
  BY <1>1, KeyConstantsOK DEF KeysInv, RegistryOK, Versions, LookupState
<1>3. Good(e)
  <2>1. /\ e \in KeyEntry /\ e.fetchedAt = now /\ e.version = lookup[l].reply
    BY <1>2 DEF KeyEntry
  <2>2. lookup[l].reply < version => changed[lookup[l].reply + 1] \in Nat
    BY <1>2, KeyConstantsOK DEF Versions
  <2> HIDE DEF e
  <2> QED BY <1>1, <1>2, <2>1, <2>2, KeyConstantsOK DEF Good, FetchOK
<1>4. newest' = lookup[l].reply /\ cache' = e
  BY <1>1, <1>2 DEF FetchSucceeds, FetchOK
<1>u. UNCHANGED <<now, version, changed, inflight>> BY DEF FetchSucceeds
<1>g. \A x : Good(x)' = Good(x) BY <1>u DEF Good
<1>5. lookup' = [lookup EXCEPT ![l] = me]
  BY <1>1 DEF FetchSucceeds, KeysInv, LookupState
<1>6. /\ me.pc = "leaving" /\ me.result = "ok" /\ me.entry = e /\ me.cached = lookup[l].cached
      /\ me \in LookupState
  <2>1. e \in KeyEntry BY <1>3 DEF Good
  <2> HIDE DEF e
  <2> QED BY <1>1, <2>1 DEF LookupState, KeyLabels
<1>7. e.version = lookup[l].reply /\ e.fetchedAt = now OBVIOUS
<1> HIDE DEF e, me
<1>8. RegistryOK' BY <1>1, <1>2, <1>4, <1>u DEF KeysInv, RegistryOK, FetchOK
<1>9. CacheOK' BY <1>3, <1>4, <1>7, <1>g DEF CacheOK
<1>10. ASSUME NEW x, x = me PROVE LookupOK(x)'
  BY <1>1, <1>3, <1>6, <1>7, <1>g, <1>u, <1>10 DEF LookupOK, ResultOK
<1>11. ASSUME NEW m \in Lookups, m # l PROVE LookupOK(lookup[m])'
  <2>1. lookup'[m] = lookup[m] /\ LookupOK(lookup[m]) /\ lookup[m].pc # "fetching"
    BY <1>1, <1>5, <1>11 DEF KeysInv, SingleFlight
  <2> QED BY <2>1, <1>g, <1>u DEF LookupOK, ResultOK, AnswerOK
<1>12. SingleFlight' BY <1>1, <1>5, <1>6, <1>u DEF KeysInv, SingleFlight
<1>13. \A m \in Lookups : lookup'[m] = IF m = l THEN me ELSE lookup[m] BY <1>5 DEF KeysInv
<1>14. DOMAIN lookup' = Lookups /\ lookup' = [m \in Lookups |-> lookup'[m]] BY <1>5 DEF KeysInv
<1>15. \A m \in Lookups : LookupOK(lookup[m])' BY <1>10, <1>11, <1>13
<1> QED BY <1>8, <1>9, <1>12, <1>14, <1>15, <1>u DEF KeysInv

\* A fetch that fails keeps the cache; a panic too.
LEMMA FailsStep == ASSUME KeysInv, NEW l \in Lookups, FetchFails(l) PROVE KeysInv'
<1>1. /\ LookupOK(lookup[l]) /\ lookup[l].pc = "fetching" /\ inflight' = inflight /\ inflight = l
  BY DEF KeysInv, SingleFlight, FetchFails, At
<1>2. PICK r \in {"failed", "panicked"} :
        lookup' = [lookup EXCEPT ![l].pc = "leaving", ![l].result = r]
  BY DEF FetchFails
<1> DEFINE me == [lookup[l] EXCEPT !.pc = "leaving", !.result = r]
<1>3. lookup' = [lookup EXCEPT ![l] = me] BY <1>1, <1>2 DEF KeysInv, LookupOK, LookupState
<1>4. /\ me.pc = "leaving" /\ me.result = r /\ me.cached = lookup[l].cached /\ me \in LookupState
  BY <1>1 DEF LookupOK, LookupState, KeyLabels
<1> HIDE DEF me
<1>5. LookupOK(me) BY <1>1, <1>4 DEF LookupOK, ResultOK
<1> QED BY <1>1, <1>3, <1>4, <1>5, OneLookup DEF FetchFails

\* The leader wakes everyone who waits; each goes on with its result.
LEMMA ReleaseStep == ASSUME KeysInv, NEW l \in Lookups, Release(l) PROVE KeysInv'
<1>1. /\ LookupOK(lookup[l]) /\ lookup[l].pc = "leaving" /\ inflight' = inflight /\ inflight = l
      /\ ResultOK(lookup[l]) /\ lookup[l] \in LookupState
  BY DEF KeysInv, SingleFlight, Release, At, LookupOK
<1> DEFINE gone == [lookup[l] EXCEPT !.pc = "deleting", !.slot = FALSE, !.since = 0, !.reply = NoEntry]
<1>u. UNCHANGED <<now, version, changed, cache, newest>> BY DEF Release
<1>s. /\ \A e : Good(e)' = Good(e)
      /\ \A x : LookupOK(x)' = LookupOK(x)
  BY <1>u, StillOK
<1>2. LookupOK(gone) /\ gone.pc = "deleting"
  <2>1. /\ gone.pc = "deleting" /\ gone.reply = NoEntry /\ gone.cached = lookup[l].cached
        /\ gone.result = lookup[l].result /\ gone.entry = lookup[l].entry /\ gone \in LookupState
    BY <1>1 DEF LookupState, KeyLabels
  <2> HIDE DEF gone
  <2> QED BY <1>1, <2>1 DEF LookupOK, ResultOK
<1>3. ASSUME NEW m \in Lookups, m # l, At(m, "waiting")
      PROVE  LET x == After(Given(lookup[m], lookup[l]))
             IN  LookupOK(x) /\ x.pc \in {"idle", "answered", "miss"}
  <2> DEFINE me == Given(lookup[m], lookup[l])
  <2>1. LookupOK(lookup[m]) BY DEF KeysInv
  <2>2. me \in LookupState BY <1>1, <2>1 DEF LookupOK, LookupState, Given
  <2>3. /\ me.cached = lookup[m].cached /\ me.result = lookup[l].result /\ me.entry = lookup[l].entry
    BY <2>1 DEF LookupOK, LookupState, Given
  <2> HIDE DEF me
  <2>4. ResultOK(me) /\ (me.cached # NoEntry => Good(me.cached))
    BY <1>1, <2>1, <2>3 DEF ResultOK, LookupOK
  <2>5. LookupOK(After(me)) /\ After(me).pc \in {"idle", "answered", "miss"}
    BY <2>2, <2>4, AfterOK
  <2> QED BY <2>5 DEF me
<1>4. lookup' = [m \in Lookups |-> IF m = l THEN gone
                   ELSE IF At(m, "waiting") THEN After(Given(lookup[m], lookup[l])) ELSE lookup[m]]
  BY DEF Release
<1>5. ASSUME NEW m \in Lookups
      PROVE  /\ LookupOK(lookup'[m])
             /\ m # l => lookup'[m].pc \notin {"fetching", "leaving", "deleting"}
  <2> HIDE DEF gone
  <2>1. CASE m = l BY <1>2, <1>4, <2>1
  <2>2. CASE m # l /\ At(m, "waiting") BY <1>3, <1>4, <2>2
  <2>3. CASE m # l /\ ~At(m, "waiting")
    BY <1>1, <1>4, <2>3 DEF KeysInv, SingleFlight
  <2> QED BY <2>1, <2>2, <2>3
<1>6. \A m \in Lookups : LookupOK(lookup[m])' BY <1>5, <1>s
<1>7. RegistryOK' /\ CacheOK' BY <1>s, <1>u DEF KeysInv, RegistryOK, CacheOK
<1>8. SingleFlight' BY <1>1, <1>5 DEF SingleFlight
<1>9. DOMAIN lookup' = Lookups /\ lookup' = [m \in Lookups |-> lookup'[m]] BY <1>4
<1> QED BY <1>1, <1>6, <1>7, <1>8, <1>9 DEF KeysInv

\* The fetch leaves the map, and its leader goes on with its result.
LEMMA DeleteStep == ASSUME KeysInv, NEW l \in Lookups, Delete(l) PROVE KeysInv'
<1>1. LookupOK(lookup[l]) /\ lookup[l].pc = "deleting" /\ inflight' = NoEntry /\ inflight = l
  BY DEF KeysInv, SingleFlight, Delete, At
<1>2. LookupOK(After(lookup[l])) /\ After(lookup[l]).pc \in {"idle", "answered", "miss"}
  BY <1>1, AfterOK DEF LookupOK
<1>3. lookup' = [lookup EXCEPT ![l] = After(lookup[l])] BY DEF Delete
<1> QED BY <1>1, <1>2, <1>3, OneLookup DEF Delete

\* The registry changes: entries that were up to date arrived before now.
LEMMA ChangesStep == ASSUME KeysInv, RegistryChanges PROVE KeysInv'
<1>1. /\ now \in Nat /\ version \in Nat /\ version + 1 \in Versions /\ version' = version + 1
      /\ changed \in [Versions -> Nat] /\ changed' = [changed EXCEPT ![version + 1] = now]
      /\ UNCHANGED <<now, cache, inflight, lookup, newest>> /\ newest \in Nat /\ newest <= version
      /\ Versions \subseteq Nat
  BY KeyConstantsOK DEF KeysInv, RegistryOK, RegistryChanges, Versions
<1>2. ASSUME NEW e, Good(e) PROVE Good(e)'
  <2>1. /\ e \in KeyEntry /\ e.version \in Nat /\ e.fetchedAt \in Nat /\ e.fetchedAt <= now
        /\ e.version <= version
        /\ e.version < version => e.fetchedAt <= changed[e.version + 1] + FetchTimeout
    BY <1>2 DEF Good, KeyEntry
  <2>2. CASE e.version = version
    BY <1>1, <2>1, <2>2, KeyConstantsOK DEF Good
  <2>3. CASE e.version < version
    <3>1. changed'[e.version + 1] = changed[e.version + 1] BY <1>1, <2>1, <2>3 DEF Versions
    <3> QED BY <1>1, <2>1, <2>3, <3>1 DEF Good
  <2> QED BY <1>1, <2>1, <2>2, <2>3
<1>3. ASSUME NEW me, LookupOK(me) PROVE LookupOK(me)'
  <2>1. me.pc = "fetching" => FetchOK(me)'
    <3> SUFFICES ASSUME me.pc = "fetching" PROVE FetchOK(me)' OBVIOUS
    <3>1. FetchOK(me) /\ me \in LookupState BY <1>3 DEF LookupOK
    <3>2. ASSUME me.reply # NoEntry PROVE me.reply \in Nat BY <3>1, <3>2 DEF LookupState
    <3>3. ASSUME me.reply # NoEntry, me.reply < version
          PROVE  changed'[me.reply + 1] = changed[me.reply + 1]
      BY <1>1, <3>1, <3>2, <3>3 DEF Versions
    <3> QED BY <1>1, <3>1, <3>2, <3>3 DEF FetchOK
  <2> QED BY <1>1, <1>2, <1>3, <2>1 DEF LookupOK, ResultOK, AnswerOK
<1>4. RegistryOK' BY <1>1 DEF RegistryOK, Versions
<1>5. CacheOK' BY <1>1, <1>2 DEF KeysInv, CacheOK
<1>6. \A l \in Lookups : LookupOK(lookup[l])' BY <1>1, <1>3 DEF KeysInv
<1> QED BY <1>1, <1>4, <1>5, <1>6 DEF KeysInv, SingleFlight

\* Time passes only where no result and no answer waits, and never beyond a
\* fetch's timeout.
LEMMA KeyTickStep == ASSUME KeysInv, KeyTick PROVE KeysInv'
<1>1. /\ now \in Nat /\ now' = now + 1
      /\ UNCHANGED <<version, changed, cache, inflight, lookup, newest>>
  BY DEF KeysInv, RegistryOK, KeyTick
<1>2. ASSUME NEW e, Good(e) PROVE Good(e)'
  BY <1>1, <1>2 DEF Good, KeyEntry
<1>3. ASSUME NEW l \in Lookups PROVE LookupOK(lookup[l])'
  <2>1. LookupOK(lookup[l]) /\ lookup[l] \in LookupState BY DEF KeysInv, LookupOK
  <2>2. lookup[l].since \in Nat BY <2>1 DEF LookupState
  <2>3. CASE At(l, "fetching") /\ now < lookup[l].since + FetchTimeout
    <3>1. FetchOK(lookup[l])'
      BY <1>1, <2>1, <2>2, <2>3, KeyConstantsOK DEF LookupOK, FetchOK, At
    <3> QED BY <1>1, <1>2, <2>1, <2>3, <3>1 DEF LookupOK, At
  <2>4. CASE At(l, "idle") \/ At(l, "waiting")
    BY <1>1, <1>2, <2>1, <2>4 DEF LookupOK, At
  <2> QED BY <2>3, <2>4 DEF KeyTick
<1>4. RegistryOK' BY <1>1 DEF KeysInv, RegistryOK
<1>5. CacheOK' BY <1>1, <1>2 DEF KeysInv, CacheOK
<1> QED BY <1>1, <1>3, <1>4, <1>5 DEF KeysInv, SingleFlight

\* Every step of the store, the registry and the clock keeps the invariant.
LEMMA KeysInvNext == KeysInv /\ [KeysNext]_keyVars => KeysInv'
<1> SUFFICES ASSUME KeysInv, [KeysNext]_keyVars PROVE KeysInv' OBVIOUS
<1>1. ASSUME UNCHANGED <<now, version, changed, lookup, inflight, newest>>, cache' \in {cache, NoEntry}
      PROVE  KeysInv'
  <2>1. /\ \A e : Good(e)' = Good(e)
        /\ \A x : LookupOK(x)' = LookupOK(x)
    BY <1>1, StillOK
  <2>2. \A l \in Lookups : LookupOK(lookup[l])' BY <1>1, <2>1 DEF KeysInv
  <2> QED BY <1>1, <2>1, <2>2 DEF KeysInv, RegistryOK, CacheOK, SingleFlight
<1>2. ASSUME NEW l \in Lookups, Return(l) PROVE KeysInv'
  <2>1. inflight' = inflight /\ inflight \in Lookups \cup {NoEntry} BY <1>2 DEF Return, KeysInv
  <2> QED BY <1>2, <2>1, IdleOK, OneLookup DEF Return
<1>3. CASE \E l \in Lookups, k \in Kids : Look(l, k) BY <1>3, LookStep
<1>4. CASE \E l \in Lookups : GoesOn(l) \/ RegistryAnswers(l)
  BY <1>4, <1>2, JoinStep, LeadStep, SucceedsStep, FailsStep, ReleaseStep, DeleteStep, AnswersStep
     DEF GoesOn
<1>5. CASE Invalidate \/ OthersFetch \/ UNCHANGED keyVars
  BY <1>5, <1>1 DEF Invalidate, OthersFetch, keyVars
<1>6. CASE RegistryChanges BY <1>6, ChangesStep
<1>7. CASE KeyTick BY <1>7, KeyTickStep
<1> QED BY <1>3, <1>4, <1>5, <1>6, <1>7 DEF KeysNext

\* For any number of lookups: what the cache holds is the newest answer the
\* registry gave, because first fetches and refetches share one flight.
THEOREM CacheIsNewest == KeysSpec => []NewestCached
<1>1. KeysInv => NewestCached BY DEF KeysInv, CacheOK, NewestCached
<1> QED BY <1>1, KeysInvInit, KeysInvNext, PTL DEF KeysSpec

\* For every TTL, grace and timeout: a key the registry no longer lists is
\* accepted for at most one fetch, one positive TTL and one grace more.
THEOREM RevocationIsBounded == KeysSpec => []RevocationBounded
<1>1. KeysInv => RevocationBounded
  <2> SUFFICES ASSUME KeysInv, NEW l \in Lookups, At(l, "answered"), lookup[l].entry.version < version
               PROVE  now <= changed[lookup[l].entry.version + 1] + FetchTimeout + PositiveTTL + ServeStaleGrace
    BY DEF RevocationBounded
  <2> DEFINE e == lookup[l].entry
  <2>1. /\ Good(e) /\ now <= e.fetchedAt + PositiveTTL + ServeStaleGrace
        /\ now \in Nat /\ version \in Versions /\ e.version < version
    BY DEF KeysInv, RegistryOK, LookupOK, AnswerOK, At
  <2> HIDE DEF e
  <2>2. /\ e.fetchedAt \in Nat /\ e.version \in Nat
        /\ e.fetchedAt <= changed[e.version + 1] + FetchTimeout
    BY <2>1 DEF Good, KeyEntry
  <2>3. changed[e.version + 1] \in Nat
    BY <2>1, <2>2, KeyConstantsOK DEF KeysInv, RegistryOK, Versions
  <2> QED BY <2>1, <2>2, <2>3, KeyConstantsOK DEF e
<1> QED BY <1>1, KeysInvInit, KeysInvNext, PTL DEF KeysSpec
=============================================================================
