# TLA+ models of adcp-go

This directory models the stateful core of adcp-go, the Go SDK and reference
implementation of the Ad Context Protocol: the idempotency store, webhook
delivery, the registry syncer and the snapshots the router makes of it, the
router's circuit breaker, response cache and provider set, and the key store,
replay store, revocation checker and configuration service that agents consult.
TLC checks each model on small instances, and that the idempotency store
implements an abstract ledger; TLAPS proves the invariants, the action properties
and that refinement for every instance.
`PROJECT.json` lists the components, the runs, the source lines each definition
stands for, the hazards and the theorems.

## The system

| part | state | operations | what is hard about it |
|---|---|---|---|
| `adcp/v3/idempotency` | rows of a backend (memory, PostgreSQL, custom) | `Store.Wrap`, `runClaimed`, sweep | duplicates race; database errors are ambiguous; processes die holding a claim; clocks and windows |
| `adcp/v3/idempotent.go` | none beyond the store | `WithIdempotency` around an MCP tool | joined errors: what may the buyer conclude? |
| `adcp/v3/webhook` | the publisher's attempts, the receiver's store | `Publisher.Emit`, `HTTPHandler`, `Store.Dedup` | lost and late messages, retries overlapping the first delivery |
| `registry` | three indexes in memory and in a store, a feed cursor | `Syncer.Run`, `applyEvent`, rebootstrap | one step of several failing, restarts between any two steps, a feed that compacts |
| `router/health.go`, `healthcheck.go` | atomics per provider | `IsCircuitOpen`, `Record*`, `IncrInflight` | no lock: every load and store interleaves |
| `router/providerset.go`, `discovery.go`, `drain.go` | one atomic snapshot | `poll`, `reconcile`, `Swap`, `DrainProvider` | read, decide, write without the lock; requests that are not counted yet |
| `router/router.go` | none beyond the above | `fanOutContext`, `fanOutIdentity`, mergers | uses the snapshot it read for the rest of the request |
| `router/context_cache.go` | TTL cache | `Get`, `Put`, eviction | concurrent responses that disagree about caching, a full cache |
| `cmd/router/registry_bridge.go`, `router/registry.go` | the router's property snapshot | rebuild after each poll | partial indexes during a rebootstrap, restarts with an empty snapshot or a new key |
| `tmproto/keystore_remote.go` | keys of a polled snapshot | `Refresh`, `Run` | an empty snapshot is not taken at its word |
| `tmproto/keystore_authorization.go` | keys cached per seller agent | lookup, refetch, `Invalidate` | shared fetches whose leader fails; stale entries; late fetches |
| `adcp/v3/signing` | replay store, JWKS cache | verify, claim a nonce, refresh keys | capacity, expiry on two clocks, check and record apart |
| `adcp/v3/signing/wba_revocation.go` | a signed list per origin, a History | `CheckWBAKey`, discover, refresh, evict | shared refreshes, objects used after their eviction, old lists, a History that fails |
| `targeting/identityconfig` | one atomic snapshot of configurations | `Start`, refresh, `Stop` | overlapping Starts and Stops, deltas on an older snapshot |
| `targeting` (the rest) | exposure counters, audiences | cap check, record | counting races |

The webhook receiver and the MCP tools call the idempotency store; the router's
fan-out reads the provider set and the breaker, which discovery, the health
checker and an operator's drain read and write; the syncer fills the indexes
that the registry bridge publishes to the router, and providers poll the router
for its key. An agent asks the key store, the replay store, the revocation
checker and the configuration service in turn for every request; the four share
no state.

What makes them correct: a key's handler takes effect once per window and
everyone gets the same answer; an event is handled once however often it is
posted; the indexes recover the registry's state from wherever the process died;
a failing provider is cut off, and only until its cooldown is over; the provider
set follows the list and never becomes empty; a cached response or key outlives
its withdrawal by a bounded time only; a signed request is accepted once; a
revoked key stays revoked, and a stale list vouches for none; a configuration snapshot is the source's contents at its watermark.

## Modules

**Idempotency** — `Wrap` and `runClaimed`. An attempt is one call; it is also
its claim's random token and the name of its response. Each backend call is one
step (`Get`, `PutClaim`, `Reclaim`, `Record`, `Release`), and each has a failing
twin that may or may not have applied its write. `Begin` reads the clock, which
is used for everything after it, as in the code. The handler returns, fails
without effect, reports an unknown outcome, or dies. `Sweep`, the operator's
`Reconcile` and `Tick` are the environment. The history variables `effected`,
`early` and `removed` let the properties speak about effects.

**IdempotencyLedger** — what the store promises, without backends, reads, races
or failures: one line per key, taken by one call at a time, bound to one payload,
answered once. `Idempotency!ImplementsLedger` maps a claim to a running line, a
failure marker to an open one and a stored response to an answered one. A step
of `Wrap` that touches no row is a stutter; a failing call that applied its write
is the step it applied.

**IdempotentTool** (extends Idempotency) — the error switch of `WithIdempotency`
as `Told`, the answer the buyer gets, one more handler outcome, an output that
cannot be encoded, and outputs whose stored form is `null` or no JSON object
(`NonObject`, replayed as an internal error).

**WebhookDelivery** (extends Idempotency) — one `Emit` and the receiver. Every
POST is an attempt of the store under the same key and body. A transport error
may happen at any time after `Send`; the receiver may still get the request.
`timed` says whether the caller gave the POSTs a time limit (a client with a
`Timeout`, or a context with a deadline); the default client has none.

**RegistrySync** — `Run` with its store calls. `mem` is what lookups see, `disk`
what a restart hydrates, `saved` the stored cursor. The feed is external: an
ordered log whose events up to the horizon are kept only while they describe a
live item; a cursor older than the horizon is answered 410. `orphans` are the
items a bootstrap over a non-empty store says nothing of; `rewind` says whether
a bootstrap forced over a saved cursor is under way or was cut short.

**RegistryBridge** (extends RegistrySync) — the same syncer as the router runs it,
without a store: after each successful poll `rebuildRouterSnapshot` publishes the
property index with the router's key, and a provider's `RemoteKeyStore` polls it
(`down`, `starting`, `polling`, or `frozen` when `Run`'s first refresh failed).
The router and the provider restart at any time, the router perhaps with a new
key. `deployment` says whether a behaviour is a service with a store or a router.

**CircuitBreaker** — `health.go` at the grain of its atomics, used by fan-out
goroutines and by the health checker, which goes on when the circuit is open.

**ContextMatch** (extends CircuitBreaker) — `fanOutContext`: the response cache in
front of the breaker. A goroutine looks in the cache, passes the breaker, calls,
records the outcome, and stores the response. Of a response the model keeps whom
it answers, whether the provider made it before its targeting changed, and its
`cache_ttl` (absent, negative, zero, too large). The provider's value is clamped to
`MaxTTL`; the configured default, used for an absent or negative one, is not.
`ContextMatchMC` bounds a behaviour for one of two questions (`focus`): for the
breaker, with failures and the checker on a short clock, or for the cache, with
a change of targeting on a longer one.

**ProviderLifecycle** (extends CircuitBreaker) — the provider set, the discovery
poll in its three steps (read, reconcile, swap) and `DrainProvider` in its three
(set draining, look, set inactive). The health checker changes neither the set
nor the in-flight counts and is left out of this composition.

**AuthorizationKeys** — `LazyAuthorizationKeyStore` for one seller agent. A lookup
goes through `entryFor` (read the cache, join or lead a fetch, store, serve
stale) and, on an unknown kid, `refetchAgent`. `FetchFails` covers errors, a full
semaphore and a panic under the deferred cleanup; other agents' fetches only
take slots. The registry is external: its versions number what it lists.

**ReplayStore** — `MemoryReplayStore` under concurrent verifications of the AdCP
profile (`HitCap`, `Seen`, `Insert`) or the Web Bot Auth one (`Seen`, `HitCap`,
`Claim`). Time runs in fractions of a second; verifiers read whole seconds.

**ConfigService** — `identityconfig.Service`: each `Start` is a process with its
own cancellation token that loads in its start mode and then runs its refresh
loop; `Stop` cancels and waits. What the source answers and what is stored are
steps of their own, and in a refresh so is taking the snapshot before the call.
`tables` is the history of the source.

**RevocationLists** — `OriginRevocationChecker` for one origin and one kid.
`CheckWBAKey` reads what is retained, is admitted (at once, by waiting for the
one discovery, or not) and asks `fresh`; `discover` seeds an object from the
History, asks `fresh` too, and admits it or enters a cooldown; `refresh` fetches,
commits under the lock and then stores outside it. An origin object that was
evicted lives on while a check or its refresh uses it, so there are several
`objects`; `orphaned` remembers that one was dropped in use, or before its list
was stored. Other origins evict this one, prune its cooldown and fill quotas.
The origin is external: it signs lists that may leave out what they revoked
before, and serves an old one, a 304, a 404 or nothing. The grace is a multiple of
the list's interval or of `MaxInterval`, whichever is shorter.

**AgentServicesMC** puts the last four side by side; a behaviour runs one.

`*MC` modules hold model values and symmetry. The theorems are in `IdempotencyProofs`,
`IdempotencyUsersProofs` (the tool and the webhook receiver), `CircuitBreakerProofs`,
`RouterProofs` (the provider lifecycle and the fan-out), `RegistryProofs` (the syncer
and the bridge), `AuthorizationKeysProofs`, `SigningProofs` (the replay store and the
revocation lists) and `ConfigServiceProofs`.
Operators introduced as `Mutant:` are plausible bugs, used to confirm that each
property can fail.

## Runs

| run | bounds | shows |
|---|---|---|
| `idempotency` | 3 attempts, 2 at once, 1 key, 2 payloads, window, skew and grace 1, clock to 3 | `AtMostOnce`, `AnswerFidelity`, `AnswersAgree`, `ClaimsFenced`, `BindingLasts` |
| `idempotent_tool` | 2 attempts, 2 keys, 2 payloads, all backends | `HonestFailure`, `EffectsAcknowledged`, `ImplementsLedger` |
| `idempotent_tool_replay` | as above, a tool without structured output | violates `ReplaysAnswered` |
| `webhook_delivery` | several POSTs over a lossy network | `EffectOnce`, `DeliveredMeansHandled`, `EmitEnds` |
| `webhook_attempts` | as above | violates `AttemptsCapped` |
| `registry_sync` | 3 events, 2 faults, pages of 1 (bootstrap 2), 2 save strikes, 2 router keys | `Recoverable`, `CaughtUp`, `Converges`; for the router `ServedAsOfCursor`, `KeyKept`, `SnapshotsReachProviders` |
| `registry_revokes` | 2 events, 3 faults | violates `RevokesHonoured` |
| `registry_poison` | 2 events, no faults | violates `CursorProgresses` |
| `router_fanout` | 1 provider, 2 requests and the checker, threshold 2, cooldown 1, 2 failures and clock to 3 (breaker) or clock to 6 (cache), default TTL 2, ceiling 1, timeout 1, a change by time 2, 1 cache entry, 2 sellers | `TripNotMissed`, `OneProbe`, `CooldownHonoured`, `OpensOnStreak`, `StaleBounded`, `OwnAnswers`, and in `MatchTypeOK` the cache's cap |
| `provider_lifecycle` | 2 providers, 2 requests, 4 lists, 1 change of list, 1 drain | `DrainedClean`, `NeverEmptied`, `FollowsListing` |
| `drain_undone` | 2 providers, 1 request | violates `StatusPreserved` |
| `agent_services` | keys: 2 lookups, 2 changes at time 1, clock to 5, 1 fetch slot, every duration 1; replay: 2 verifiers, 2 signatures, half seconds, cap 2; revocations: 1 check and the discovery, 2 objects, 2 lists of 2 kids, clock to 3, interval 2, capped at 1 for the grace, cooldown 1; configuration: 2 Starts, 3 modes, 2 Stops, 2 changes, 1 failure | `RevocationBounded`, `NewestCached`, `LookupsEnd`; `OnceInWindow`, `CountCovers`; `CurrentIsRecent`, `NeverUnrevoked`; `SnapshotAsOf`, `CatchesUp` |

Why the bounds are enough. Three attempts on one key are an owner, a racer and a
late comer; a clock of 3 with a window of 1 and skew of 1 passes every expiry.
Three registry events are a grant, its revocation and something after it, or
both halves of an agent's removal; two faults are a failure and a crash that
meets it. Two requests and the checker on one provider hold a goroutine with a
stale opening, one that resets it and one that opens it again; providers do not
share breaker state. One cache entry and two sellers make every second fill an
eviction; a default above the ceiling is what a configuration may say, and a
clock of 6 passes a change at 2, a call begun before it that stores a unit later,
and the longest TTL after that. In `provider_lifecycle` failures are bounded to none, since the breaker
is `router_fanout`'s subject and the writers only read the in-flight count. Two
lookups are the leader of a fetch and one that joins or overtakes it; a clock of 5
lets a fetch happen before the changes and passes a fetch, a TTL and a grace
after them. Two verifiers are two copies at once or a
copy and a sweep, and half seconds are enough to meet the window's last second
from both sides. One check shares refreshes with the discovery; two objects are an
evicted one in use and its successor; two lists are one that revokes and one that
does not, in either order, and a clock of 3 reaches the end of the grace of the
first. In `registry_sync` one property and a bootstrap page of two never spread
what survives compaction over several pages: for `ServedAsOfCursor` in the middle
of such a rebootstrap the theorem `ServedAsOf` speaks, not the run. Two Starts with two Stops overlap a load with a loop.

Fairness. `Converges` and `CursorProgresses` assume weak fairness of the syncer's
own steps: every wait in `Run` is a timer. `EmitEnds` assumes that the
publisher posts, that its timers fire, and that a POST with a time limit ends,
answered or not; a POST without one may wait for ever, and `EmitEnds` says that
this is the only way for `Emit` not to return. `FollowsListing` assumes that
discovery polls (a ticker), that a fetch of the list succeeds in the end, and that
a request, once started, ends (its context has a deadline).
`SnapshotsReachProviders` assumes the syncer's steps and the provider's ticker;
faults and restarts are bounded. `LookupsEnd` assumes that a goroutine that can
run does and that a registry call ends (`FetchTimeout`); `CatchesUp` that a load
or refresh of a Start ends (the source's HTTP timeout) and that its ticker ticks.
`LookupsEnd` assumes no success; `CatchesUp` does, since failures are bounded:
the source answers in the end. Runs that stop at their bounds, or where the modelled program simply idles, do not check deadlock.

`Recoverable` says nothing once the saved cursor has expired, as the feed then
answers 410 and the store is emptied. That such a syncer gets back to the
registry's state, though clearing the stores or saving the empty cursor fails
or is cut short, is `Converges`.

Symmetry is used only in runs without liveness properties. An idle attempt's
key and payload are an arbitrary default that nothing reads, so permuting the
payloads is sound.

## Proofs

Every invariant, action property and refinement that a passing run checks is
also a theorem, for any number of processes, keys, items and faults, any duration
and any limit. Each proof module rests on the named assumptions about the
constants in the modules it extends, and each theorem on an inductive invariant.

`IdempotencyProofs`, from `ConstantsOK` (a grace at least the clock skew, as
`New` demands) and `BlankOK` (the ledger's blank is not a line):

- `TypeCorrect`.
- `ExecutesAtMostOnce`. `AtMostOnce` is not inductive: it needs to know that an
  attempt inside its handler owns its row (`ClaimHeld`), that an effect is
  shielded by its claim and then by its response until the window is over
  (`EffectShielded`), and that a handler started inside another's window followed
  a failure that can no longer take effect (`EarlyHarmless`). The step proof sorts
  the actions of `Wrap` into five kinds of step (`QuietStep`, `StartStep`,
  `OwnStep`, `LostClaimStep`, `UnfencedStart`).
- `ClaimsAreFenced` and `KeysStayBound`, from what one step may do to a row
  (`RowSteps`) and from `SeenMine`: a reclaim holds a marker of its own payload.
- `AnswersFaithful` and `AnswersAreOne`, from `FInv`: a response in a row is that of
  an execution under its key (`FinalOK`), and what was answered stays recorded
  until a window of the key is over (`Kept`). The second is the difficult half for
  custom backends, which have no claims: there the response that beat an attempt to
  the row is what `Kept` keeps.
- `StoreImplementsLedger`. The refinement mapping takes only the rows, the requests
  and the answers; every step of an attempt is one of the ways `LedgerStep` lists,
  each a step of the ledger or a stutter. `LInv` adds that nobody read the clock in
  the future and that a claim in the store is the one its attempt wrote.

`IdempotencyUsersProofs`: a behaviour of the tool, or of the receiver under any
`Emit`, is a behaviour of the store (`ToolRunsStore`, `ReceiverRunsStore`), so the
store's theorems hold of both; `ToolImplementsLedger` is one of them. What a caller
may conclude is `TellsOK`: which errors `Wrap` can join, that a plain handler error
leaves neither an effect nor a claim, and that an effect is acknowledged.
`FailuresAreHonest`, `EffectsAreAcknowledged` and `DeliveriesAreHandled` follow from it.
`EmitTakesEffectOnce` has the hypothesis `MaxTime <= TTL + ClockSkew`: the retries
end within the receiver's window, which is what the window is for.

`CircuitBreakerProofs`: `BreakerTypes` (the in-flight count is the cardinality of the
calls in progress), `TripsNotMissed`, `SingleProbe`, `CooldownsHonoured` and
`OpensOnlyOnStreak`, all from one inductive invariant: a goroutine about to swap
holds an opening that is over, the count never runs ahead of the streak, and an
opening that is still there has not been reset by anyone.

`RouterProofs`: the provider lifecycle and the fan-out run the breaker
(`LifecycleRunsBreaker`, `MatchRunsBreaker`), so its theorems hold in them.

- `LifecycleTypes`, `DrainsAreClean` and `SetNeverEmptied`, from `SetInv`: from
  the start of a drain until discovery stores the set again no request can choose the
  provider (`DrainCloses`), after the look at the in-flight count the requests left
  are those that were not counted then (`DrainLeaves`), and while the set has
  providers so has what a poll is about to store (`PollCarries`).
- `MatchTypes`, `AnswersAreOwn` and `StalenessIsBounded`, from `CallInv` (a response
  in a goroutine's hands answers its own query, its call is within its timeout, and
  a response made before the change belongs to a call that had begun by then) and
  `CacheInv` (an entry answers the query it is filed under; the cache is within its
  cap). The bound is the call's timeout and `LongestTTL`, the longer of default and
  ceiling, for any positive values of the two.

`RegistryProofs`, from `RegistryConstantsOK` and `BridgeConstantsOK`: `BridgeTypes`,
`StoreRecovers`, `SyncersCatchUp`, `ServedAsOf` and `KeysAreKept`, all from `BridgeInv`.

- A set of items is `Sound` before a set of events when it agrees with the registry
  on every item that none of those events touches. The invariant says so of the
  store before the feed after the saved cursor (`StoreFollows`), of memory before the
  feed after the cursor in hand (`CursorFollows`), and in the middle of a page before
  what is left of it and the feed after it (`PageFollows`). The rest bounds what a
  crash or a failed step can leave: cursors that were issued, a saved one that is
  not ahead, an agent removed with its grants still there.
- The lemmas about the feed: the last event about an item decides whether it is
  live (`FeedDecides`, `PageDecides`), a bootstrap is told of every live item
  (`LiveIsFed`), and a page's events are in the feed of every answered cursor behind
  it (`PageFed`). The last event is found with `LeastExists` and its counterpart.
- A router's memory is exactly what was delivered up to its cursor (`Delivered`),
  its snapshot is that memory (`ServedIsMemory`), and its kids are its own (`KidsOwn`).
- Two statements were wrong before they were proved, each confirmed by TLC on a
  larger instance than the run's. `rewind` ended with every 410, though a 410 during
  a forced bootstrap whose empty cursor then fails to save leaves an old cursor that
  is still answered over an emptied store. And `ServedAsOfCursor` claimed
  completeness of a router whose cursor had expired while it was not yet told.

`AuthorizationKeysProofs`, from `KeyConstantsOK`: `CacheIsNewest` and
`RevocationIsBounded`. `KeysInv` says that one lookup leads at a time (`SingleFlight`),
that its reply is no older than the newest cached, and that every entry, cached or in
a lookup's hands, arrived within a fetch of the change that outdated it (`Good`).

`SigningProofs`: `AcceptedOnce` and `CountsCover` from `ReplayInv` (a signature once
accepted keeps its entry until the first tick past its window; the count is the
number of entries); `CurrentMeansRecent` and `RevocationsStay` from `RevocationInv`
(a list kept anywhere has the time of a signed one and revokes all that it revokes;
a discovery runs only while no origin is admitted; until one is dropped in use, only
the admitted object and the one being discovered are used or refreshed; what the
History revokes, the object being discovered revokes too).

`ConfigServiceProofs`: `SnapshotsAsOf` from `ConfigInv`: the snapshot and what each
refresh captured are the source's contents at their watermarks, and a refresh was
answered no earlier than what it captured; a delta then leads from one watermark to
the next.

Only model-checked: liveness, since fairness and `ENABLED` are out of the prover's
reach: `EmitEnds`, `Converges`, `SnapshotsReachProviders`, `FollowsListing`, `LookupsEnd`
and `CatchesUp`; and the five violations.

## What the models show about the code

Disagreements with a comment or document, each with a run:

1. `idempotent.go:168` — a tool without structured output caches `null`; its
   replay writes to a nil map and panics.
2. `syncer.go:107` — a bootstrap forced by a failed hydrate rewinds the store
   while the old cursor stays saved; a restart in the middle trusts a revoked
   grant for good.
3. `redisstore/store.go:201` (and the glide store) — a grant without an
   `authorization_type` is refused by the store on every delivery and the cursor
   never moves past it.
4. `publisher.go:284` — answers with `Retry-After` are not counted against
   `MaxAttempts`.
5. `discovery.go:190` — a poll that read the set before a drain stores the old
   status after it; the drained provider is active again.

Seen while modelling and built into the models as they are:

- The default webhook client has no timeout (`http.go:290-294`) and `MaxElapsed` is
  only looked at before a sleep (`publisher.go:302-313`). Without a deadline in the
  context a receiver that takes the request and never answers, or never ends the
  body that is drained (`publisher.go:264`), keeps `Emit` from returning.
- A response's `cache_ttl` is clamped to `MaxContextCacheTTL`; the configured
  default is not (`serverconfig.go:93-98`, `context_cache.go:129-132, 195`), so a
  response without one may be served longer than the ceiling.
- After `ErrClaimLost` the buyer is told "Retry safely" (`idempotent.go:151`),
  though the handler took effect and the row is gone; `EffectsAcknowledged`
  leaves those keys out. The same holds of an output that cannot be encoded: its
  claim is released after the effect.
- A bootstrap over a non-empty store keeps items whose removal the feed has
  compacted away (`orphans`).
- A 410 in the middle of a bootstrap that a failed hydrate forced empties the store;
  when the empty cursor then fails to save (`syncer.go:144`), the older cursor the
  hydrate distrusted stays saved over it, and the feed may still answer it. `rewind`
  stays `underway` there, so that `Recoverable` leaves it out as it does finding 2.
- `DrainProvider` cannot see a request that has read the active set and has not
  reached `IncrInflight`; `DrainedClean` says exactly which requests remain.
- A provider dropped from the list while it has a request in flight is kept as
  draining; listed again without a status before it is dropped, it inherits
  `draining` and gets no more requests (`discovery.go:214-216`). This is why
  `FollowsListing` only speaks of statuses the list gives.
- `Put`'s comment says that after a `cache_ttl` of zero "subsequent requests fan
  out live until the provider raises the TTL again" (`context_cache.go:184-186`);
  an entry that a concurrent request stored survives it until its own TTL is
  over, and so does one stored afterwards from an older answer. `StaleBounded`
  is the bound that holds.
- A router with the bridge seeds nothing, so its snapshot has no keys until the
  first successful poll; providers with keys keep them (`keystore_remote.go:158`).
  A provider whose `Run` fails in its first refresh goes on with the keys it has
  and never polls again (`frozen`). During a rebootstrap of several pages the
  router serves the pages so far.
- A lookup that read an expired entry, was overtaken by a successful fetch and
  then led a failing one serves the old entry within its grace although the cache
  holds a newer one (`keystore_authorization.go:515`). `RevocationBounded` covers
  it. After a panic the followers get no entry, without the grace.
- The AdCP verifier's entry lacks the second that Web Bot Auth adds
  (`verify.go:388`, `wba.go:642`), so a copy in the last second of its window can
  be accepted again; and `Insert` counts a nonce that is there already a second
  time, which no sweep takes back. This is why the exact half of `CountCovers` and
  `OnceInWindow` speak of the Web Bot Auth profile. The AdCP verifier asks
  `HitCap` before anything sweeps, so a key at its cap is not freed by its own
  requests.
- `Start`'s comment says "Stop continues to halt" the loop
  (`identityconfig/service.go:205`). When a Stop and a second Start fall into the
  first Start's load, the first one's failure resets `running` and `cancel`, and a
  later Stop does nothing while the second loop runs; with a third Start, a Stop
  cancels the third's token and waits for the second's loop. The loads of the two
  Starts overlap, though `source.go:12-15` says that they are serialized.
- With a retained list past its grace, a 404 is passed on wrapped
  (`wba_revocation.go:772`), so the checks that waited for that discovery answer
  `RevocationNoList`, though 762-763 and 576-577 reserve that for an origin of
  which nothing is retained. Checks in the cooldown after it answer stale.
- "Revocation is monotonic" (`wba_revocation.go:445`) has a gap: an origin that is
  evicted, or whose discovery gives up, while its refresh is under way may store
  a revocation after the rediscovered object has read the History, and `retained`
  reads only that object. The same holds of a list the History has refused when
  its origin is evicted. `NeverUnrevoked` leaves these cases out (`orphaned`).
- After a probe has reset the circuit every request passes, not only the probe,
  until the threshold is reached again.

## Plan

1. **FrequencyCap** (`targeting/fcap`): exposures against the cap check.
2. The JWKS cache (`signing/jwks_fetcher.go`) and the directory resolver
   (`signing/wba_resolver.go`): refreshes, backoff and stale keys.
3. The shutdown order of the identity agent (`identityagent/shutdown.go`).

## Not modelled

Cryptography and canonical hashing (a hash is a model value), wire formats,
request validation and merging, generated types (about a quarter of the lines of
the repository), configuration parsing, the frozen v2 module, benchmarks and
reference agents. None of these keeps state that two steps could disagree about.
The JWKS cache, the directory resolver, frequency caps and shutdown do, and are in
the plan. Of revocations the details (reason and invalidity date) are left out.
`PROJECT.json` gives the reason for each part.
