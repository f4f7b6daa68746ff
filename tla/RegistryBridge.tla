--------------------------- MODULE RegistryBridge ---------------------------
(***************************************************************************)
(* The router's registry bridge (cmd/router/registry_bridge.go): after     *)
(* every successful poll the syncer's property index is projected, with    *)
(* the router's own signing key on each authorized property, into the      *)
(* registry that GET /registry/snapshot serves; and a provider that polls  *)
(* the snapshot for signing keys (tmproto.RemoteKeyStore).                 *)
(*                                                                         *)
(* A signing key is its kid, a number; a router restarted with a new key   *)
(* takes the next one.  Of a snapshot the model keeps the feed's           *)
(* properties and the kids; what no reader in the repository uses (the     *)
(* sequence number, the secondary lookups) is left out.                    *)
(***************************************************************************)
EXTENDS RegistrySync

CONSTANT MaxKid    \* bound on the router's signing keys

ASSUME BridgeConstantsOK == MaxKid \in Nat \ {0}

VARIABLES
  routerKey,   \* the kid of the running router's signer
  served,      \* router.Registry: the feed's properties and the kids in it
  provider,    \* where the provider's key store is
  trusted      \* RemoteKeyStore.keys

bridgeVars == <<routerKey, served, provider, trusted>>
allVars == <<vars, bridgeVars>>

Kids == 1 .. MaxKid

\* down: not started.  starting: the agent's own Refresh succeeded and Run's
\* first is due.  polling: Run's ticker.  frozen: Run returned an error and
\* the agent goes on with the keys it has.
ProviderStates == {"down", "starting", "polling", "frozen"}

BridgeTypeOK ==
  /\ TypeOK
  /\ routerKey \in Kids
  /\ served \in [props : SUBSET Properties, kids : SUBSET Kids]
  /\ provider \in ProviderStates
  /\ trusted \subseteq Kids

\* router.NewRegistry.  With a bridge nothing is seeded: the registry is
\* empty until the first successful poll.
NewRegistry == [props |-> {}, kids |-> {}]

BridgeInit ==
  /\ Init
  /\ routerKey = 1
  /\ served = NewRegistry
  /\ provider = "down" /\ trusted = {}

\* The bridge projects properties only, so its feed is given no others.
BridgeEvents == IF Stored THEN Event ELSE {e \in Event : e.item \in Properties}

-----------------------------------------------------------------------------
(* The router.                                                             *)

\* Mutant: a rebuild only adds.
rebuildMerges ==
  served' = [props |-> served.props \cup (mem \cap Properties), kids |-> {routerKey}]

\* One list of the feed's properties and a record with the router's key for
\* every authorized property, the feed's or a placeholder; one map swap.
rebuildRouterSnapshot ==
  served' = [props |-> mem \cap Properties, kids |-> {routerKey}]

\* Mutant: a poll that brought no events rebuilds nothing.
PollsWithEvents ==
  /\ IF ~Stored /\ saveFailures' = 0 /\ page' = {} /\ cur' # cur
     THEN rebuildRouterSnapshot ELSE UNCHANGED served
  /\ UNCHANGED <<routerKey, provider, trusted>>

\* A poll that ends well calls OnSuccessfulPoll, which rebuilds; so does a
\* page without events.  Events in the middle of a page rebuild nothing.
Polls ==
  /\ IF ~Stored /\ saveFailures' = 0 /\ page' = {}
     THEN rebuildRouterSnapshot ELSE UNCHANGED served
  /\ UNCHANGED <<routerKey, provider, trusted>>

\* The router is started again, perhaps with a new signing key.
RestartRouter ==
  /\ Crash
  /\ served' = NewRegistry
  /\ routerKey' \in {routerKey, routerKey + 1} \cap Kids
  /\ UNCHANGED <<provider, trusted>>

-----------------------------------------------------------------------------
(* The provider.                                                           *)

providerOnly == <<feed, pc, mem, disk, saved, loop, history, routerKey, served>>

\* Mutant: an empty snapshot replaces the keys like any other.
RefreshAlways ==
  /\ ~Stored /\ provider # "frozen"
  /\ trusted' = served.kids
  /\ provider' = IF provider = "down" THEN "starting" ELSE "polling"
  /\ UNCHANGED <<providerOnly, faults>>

\* HandleSnapshot answers from the maps as they are.  Nothing else touches
\* the keys, so a response applied late is one step with its fetch.  A
\* snapshot without keys is taken for a passing condition.
Refresh ==
  /\ ~Stored /\ provider # "frozen"
  /\ trusted' = IF served.kids = {} THEN trusted ELSE served.kids
  /\ provider' = IF provider = "down" THEN "starting" ELSE "polling"
  /\ UNCHANGED <<providerOnly, faults>>

\* No response, or none that parses: before Run the agent does not start, in
\* Run's first refresh the store is frozen, later the keys stay as they are.
RefreshFails ==
  /\ ~Stored /\ provider # "frozen"
  /\ Fault
  /\ provider' = IF provider = "starting" THEN "frozen" ELSE provider
  /\ UNCHANGED <<providerOnly, trusted>>

\* The provider's process is started again.
RestartProvider ==
  /\ provider # "down"
  /\ Fault
  /\ provider' = "down" /\ trusted' = {}
  /\ UNCHANGED providerOnly

-----------------------------------------------------------------------------
BridgeSync ==
  \/ (FetchFeed \/ EndPage) /\ Polls
  \/ /\ \/ \E F \in SUBSET Indexes : Hydrate(F) \/ ClearFails(F)
        \/ LoadCursorFails \/ Rebootstrap \/ ApplyEvent \/ CascadeGrants
     /\ UNCHANGED bridgeVars

BridgeNext ==
  \/ BridgeSync
  \/ /\ \/ \E e \in BridgeEvents : Publish(e)
        \/ \E b \in base + 1 .. Len(log) : Compact(b)
     /\ UNCHANGED bridgeVars
  \/ RestartRouter
  \/ Refresh \/ RefreshFails \/ RestartProvider

\* The syncer waits on timers only, and so does the provider's poller.
BridgeSpec ==
  BridgeInit /\ [][BridgeNext]_allVars /\ WF_allVars(BridgeSync) /\ WF_allVars(Refresh)

-----------------------------------------------------------------------------
(* What the router and its providers rely on.                              *)

\* What the router serves is the registry as of the feed position the syncer
\* has reached: never a property removed by then, never half a page, and
\* with none missing unless the syncer is still being given the survivors of
\* the feed's retention, page by page, has been spared a property removed
\* since, or is about to be told that its cursor has expired
\* (rebuildRouterSnapshot, registry_bridge.go 165-222).
ServedAsOfCursor ==
  (~Stored /\ pc = "fetch" /\ cur # Start) =>
    LET then == TruthAt(cur.at) \cap Properties
        kept == IF cur.horizon > cur.at THEN then \cap TruthAt(cur.horizon) ELSE then
    IN /\ served.props \subseteq then
       /\ (~Expired(cur) /\ \A i \in Feed(cur) : i > cur.horizon) => kept \subseteq served.props

\* A running provider that has the router's key keeps it, whatever the
\* router publishes and however often it restarts with that key: no snapshot
\* carries properties without the key, and the empty one served after a
\* restart is not taken at its word (registry_bridge.go 146-153,
\* keystore_remote.go 162-175).
KeyKept ==
  [][(routerKey \in trusted /\ routerKey' = routerKey /\ provider' # "down") =>
       routerKey \in trusted']_allVars

\* Once restarts and failures are over, the router serves the registry's
\* properties and every provider whose key store is still refreshing trusts
\* the router's key, however it missed a snapshot or a key change before.
SnapshotsReachProviders ==
  <>[](Stored \/ (/\ served.props = Truth \cap Properties
                  /\ provider # "frozen" => routerKey \in trusted))
=============================================================================
