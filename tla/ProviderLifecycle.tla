------------------------- MODULE ProviderLifecycle -------------------------
(***************************************************************************)
(* The router's provider set (router/providerset.go) and its two writers:  *)
(* discovery, which polls a provider list and swaps the set, and           *)
(* DrainProvider, which an operator calls.  The requests that use the set  *)
(* and the in-flight counts both writers read are CircuitBreaker's.        *)
(*                                                                         *)
(* The set is one atomic snapshot: a read or a write of it is one step,    *)
(* and what a writer decides from it is in another.  Providers discovery   *)
(* rejects as invalid are not in the listing.                              *)
(***************************************************************************)
EXTENDS CircuitBreaker

CONSTANTS
  Listings,     \* the provider lists the discovery endpoint may serve
  MaxListings,  \* bound on the changes of the list
  MaxDrains     \* bound on the calls of DrainProvider

\* Not in the set, or its EffectiveStatus.
Statuses == {"absent", "active", "draining", "inactive"}

\* unset: listed without a status.
Listed == {"absent", "unset", "active", "draining", "inactive"}

ASSUME LifecycleConstantsOK ==
  /\ Listings \subseteq [Providers -> Listed]
  /\ MaxListings \in Nat /\ MaxDrains \in Nat

VARIABLES
  status,     \* the provider set
  listing,    \* what the discovery endpoint serves
  listings, drains,
  poll,       \* where Discovery.poll is: "idle", "reconcile" or "swap"
  incoming,   \* the list it fetched
  draft,      \* the set it read, and then the one it will store
  drain,      \* DrainProvider of each provider
  uncounted,  \* history: requests not yet counted when a drain saw none in flight
  swapped     \* history: providers whose entry discovery stored since their drain began

discovery == <<poll, incoming, draft>>
endpoint == <<listing, listings>>
draining == <<drain, drains, uncounted>>
vars == <<breakerVars, status, endpoint, discovery, draining, swapped>>

DrainStates == {"none", "waiting", "quiet", "clean", "forced"}

LifecycleTypeOK ==
  /\ status \in [Providers -> Statuses] /\ draft \in [Providers -> Statuses]
  /\ listing \in Listings /\ incoming \in Listings
  /\ listings \in 0 .. MaxListings /\ drains \in 0 .. MaxDrains
  /\ poll \in {"idle", "reconcile", "swap"}
  /\ drain \in [Providers -> DrainStates]
  /\ uncounted \in [Providers -> SUBSET Requests]
  /\ swapped \subseteq Providers

Init ==
  /\ BreakerInit
  /\ status \in [Providers -> {"absent", "active"}]
  /\ listing \in Listings /\ incoming = listing
  /\ listings = 0 /\ drains = 0
  /\ poll = "idle" /\ draft = status
  /\ drain = [p \in Providers |-> "none"]
  /\ uncounted = [p \in Providers |-> {}]
  /\ swapped = {}

-----------------------------------------------------------------------------
(* Requests.  The health checker changes neither the set nor the counts.   *)

\* A request selects a provider of the active snapshot.
Match(r, p) ==
  /\ status[p] = "active"
  /\ Begin(r, p)
  /\ UNCHANGED <<status, endpoint, discovery, draining, swapped>>

Serve(r) ==
  /\ Proceed(r)
  /\ uncounted' = IF at'[r] = "idle" THEN [p \in Providers |-> uncounted[p] \ {r}] ELSE uncounted
  /\ UNCHANGED <<status, endpoint, discovery, drain, drains, swapped>>

-----------------------------------------------------------------------------
(* Discovery.poll.                                                         *)

\* The discovery endpoint changes its list.
Relist(l) ==
  /\ listings < MaxListings /\ l # listing
  /\ listing' = l /\ listings' = listings + 1
  /\ UNCHANGED <<breakerVars, status, discovery, draining, swapped>>

Present(s) == {p \in Providers : s[p] # "absent"}

\* Mutant: an empty list is taken at its word.
PollReadEmpty ==
  /\ poll = "idle"
  /\ incoming' = listing /\ draft' = status
  /\ poll' = "reconcile"
  /\ UNCHANGED <<breakerVars, status, endpoint, draining, swapped>>

\* Fetch the list and read the set.  An empty list ends the poll when there
\* is a provider to lose; so does a failed fetch.
PollRead ==
  /\ poll = "idle"
  /\ Present(listing) # {} \/ Present(status) = {}
  /\ incoming' = listing /\ draft' = status
  /\ poll' = "reconcile"
  /\ UNCHANGED <<breakerVars, status, endpoint, draining, swapped>>

\* Mutant: a removed provider is always kept as draining.
reconcileKeeps(cur, inc) ==
  [p \in Providers |->
    IF inc[p] = "absent" THEN IF cur[p] # "absent" THEN "draining" ELSE "absent"
    ELSE IF inc[p] # "unset" THEN inc[p]
    ELSE IF cur[p] # "absent" THEN cur[p] ELSE "active"]

\* Mutant: a list without a status is stored as it is.
reconcileVerbatim(cur, inc) ==
  [p \in Providers |->
    IF inc[p] # "absent" THEN inc[p]
    ELSE IF cur[p] # "absent" /\ inflight[p] > 0 THEN "draining" ELSE "absent"]

\* A listed provider keeps its status unless the list gives one; a removed
\* one is kept as draining while it has requests in flight.
reconcile(cur, inc) ==
  [p \in Providers |->
    IF inc[p] = "absent"
    THEN IF cur[p] # "absent" /\ inflight[p] > 0 THEN "draining" ELSE "absent"
    ELSE IF inc[p] # "unset" THEN inc[p]
    ELSE IF cur[p] # "absent" THEN cur[p] ELSE "active"]

PollReconcile ==
  /\ poll = "reconcile"
  /\ draft' = reconcile(draft, incoming)
  /\ poll' = "swap"
  /\ UNCHANGED <<breakerVars, status, endpoint, incoming, draining, swapped>>

Swap ==
  /\ poll = "swap"
  /\ status' = draft
  /\ swapped' = Providers
  /\ poll' = "idle"
  /\ UNCHANGED <<breakerVars, endpoint, incoming, draft, draining>>

-----------------------------------------------------------------------------
(* DrainProvider.                                                          *)

SetStatus(p, s) == status' = IF status[p] = "absent" THEN status ELSE [status EXCEPT ![p] = s]

\* An unknown provider is an error and nothing is changed.
DrainStart(p) ==
  /\ drain[p] \notin {"waiting", "quiet"} /\ drains < MaxDrains
  /\ status[p] # "absent"
  /\ SetStatus(p, "draining")
  /\ drain' = [drain EXCEPT ![p] = "waiting"]
  /\ drains' = drains + 1
  /\ swapped' = swapped \ {p}
  /\ UNCHANGED <<breakerVars, endpoint, discovery, uncounted>>

\* Requests that have the provider but are not counted as in flight.
NotCounted(p) == {r \in Requests : on[r] = p /\ at[r] \in {"gate", "cas", "reset", "admitted"}}

\* Mutant: one request may still be in flight.
DrainLookOff(p) ==
  /\ drain[p] = "waiting" /\ inflight[p] <= 1
  /\ drain' = [drain EXCEPT ![p] = "quiet"]
  /\ uncounted' = [uncounted EXCEPT ![p] = NotCounted(p)]
  /\ UNCHANGED <<breakerVars, status, endpoint, discovery, drains, swapped>>

\* The ticker's look at the in-flight count.
DrainLook(p) ==
  /\ drain[p] = "waiting" /\ inflight[p] = 0
  /\ drain' = [drain EXCEPT ![p] = "quiet"]
  /\ uncounted' = [uncounted EXCEPT ![p] = NotCounted(p)]
  /\ UNCHANGED <<breakerVars, status, endpoint, discovery, drains, swapped>>

DrainFinish(p) ==
  /\ drain[p] = "quiet"
  /\ SetStatus(p, "inactive")
  /\ drain' = [drain EXCEPT ![p] = "clean"]
  /\ UNCHANGED <<breakerVars, endpoint, discovery, drains, uncounted, swapped>>

\* The caller's context ends first.
DrainExpire(p) ==
  /\ drain[p] = "waiting"
  /\ SetStatus(p, "inactive")
  /\ drain' = [drain EXCEPT ![p] = "forced"]
  /\ UNCHANGED <<breakerVars, endpoint, discovery, drains, uncounted, swapped>>

-----------------------------------------------------------------------------
Poll == PollRead \/ PollReconcile \/ Swap

Next ==
  \/ \E r \in Requests, p \in Providers : Match(r, p)
  \/ \E r \in Requests : Serve(r)
  \/ Tick /\ UNCHANGED <<status, endpoint, discovery, draining, swapped>>
  \/ \E l \in Listings : Relist(l)
  \/ Poll
  \/ \E p \in Providers :
       DrainStart(p) \/ DrainLook(p) \/ DrainFinish(p) \/ DrainExpire(p)

\* Discovery polls on a ticker and a request's call has a deadline.
Spec ==
  /\ Init /\ [][Next]_vars
  /\ WF_vars(Poll)
  /\ \A r \in Requests : WF_vars(Serve(r))

-----------------------------------------------------------------------------
\* A drain that returned without error left no request behind but those that
\* had chosen the provider and were not yet counted when DrainProvider looked:
\* Active() is read (router.go 322) well before IncrInflight (router.go 494).
\* Until discovery next stores the set, no request starts after it.
DrainedClean ==
  \A p \in Providers :
    (drain[p] = "clean" /\ p \notin swapped) =>
      \A r \in Requests : (on[r] = p /\ at[r] # "idle") => r \in uncounted[p]

\* Discovery never empties the set: whatever the endpoint serves, and however
\* stale the set a poll started from, a router with providers keeps one
\* (discovery.go 183-187).
NeverEmptied ==
  [][Present(status) # {} => Present(status') # {}]_vars

\* When the list is stable, is not empty and no one drains, the set comes to
\* hold the listed providers and no others, with the statuses the list gives:
\* a removed provider is dropped once its requests have ended, though polls,
\* drains and requests overlap (discovery.go 131-245).
FollowsListing ==
  <>[](Present(listing) # {} =>
         /\ Present(status) = Present(listing)
         /\ \A p \in Present(listing) : listing[p] # "unset" => status[p] = listing[p])

\* reconcile's comment (discovery.go 194-197): "Changed providers get their
\* config updated while preserving status and health state."  A list without
\* statuses never makes a drained provider active again.
StatusPreserved ==
  [][\A p \in Providers :
       (status[p] = "inactive" /\ listing[p] = "unset" /\ incoming[p] = "unset")
         => status'[p] # "active"]_vars
=============================================================================
