---------------------------- MODULE RegistrySync ----------------------------
(***************************************************************************)
(* The registry syncer (registry/syncer.go): it polls the registry's       *)
(* change feed and applies each event to the property, authorization and   *)
(* agent indexes, in memory and in the persistent Store, saving the feed   *)
(* cursor after every page.                                                *)
(*                                                                         *)
(* An item is a property, an agent or a grant (an agent, publisher pair);  *)
(* an index is the set of its items, so replacing a record is the          *)
(* identity.  mem is what lookups and AuthIndex.Check see, disk what a     *)
(* restart hydrates from.  A store call is one step with its outcome; a    *)
(* failed one may or may not have been applied.  The router's bridge runs  *)
(* the syncer without a store and with its cursor in memory.               *)
(*                                                                         *)
(* The feed itself is external.  It is an ordered log of which events up   *)
(* to a retention horizon are only kept while they describe a live item;   *)
(* a cursor older than the horizon is answered 410.                        *)
(***************************************************************************)
EXTENDS Naturals, Sequences, FiniteSets

CONSTANTS
  Properties, Agents, Grants,
  AgentOf,         \* the agent of each grant
  Deployments,     \* with a persistent store, or as the router's bridge
  Ops,             \* what the registry publishes, see AllOps
  FeedLimit,       \* SyncerConfig.FeedLimit
  BootstrapLimit,  \* SyncerConfig.BootstrapLimit
  SaveStrikes,     \* consecutive cursor save failures that end Run (3 in the code)
  MaxEvents,       \* bound on the events published
  MaxFaults        \* bound on failed calls and crashes

Items == Properties \cup Agents \cup Grants
Indexes == {"property", "auth", "agent"}

\* put: created, updated, granted, discovered.  remove: removed, merged,
\* revoked.  ignored: what applyEvent drops (malformed, missing fields, a bad
\* publisher domain, an unknown type).  untyped: a grant without an
\* authorization_type, which the redis and glide stores reject.
AllOps == {"put", "remove", "ignored", "untyped"}

ASSUME RegistryConstantsOK ==
  /\ AgentOf \in [Grants -> Agents]
  /\ Properties \cap Agents = {} /\ Properties \cap Grants = {} /\ Agents \cap Grants = {}
  /\ Ops \subseteq AllOps /\ Deployments \subseteq {"store", "bridge"}
  /\ FeedLimit \in Nat \ {0} /\ BootstrapLimit \in Nat \ {0} /\ SaveStrikes \in Nat \ {0}
  /\ MaxEvents \in Nat /\ MaxFaults \in Nat

IndexOf(x) == IF x \in Properties THEN "property" ELSE IF x \in Agents THEN "agent" ELSE "auth"
GrantsOf(a) == {g \in Grants : AgentOf[g] = a}

Event == [op : Ops, item : Items]

\* A cursor names the last event delivered and the horizon it was issued under.
Cursor == [horizon : Nat, at : Nat]
Start == [horizon |-> 0, at |-> 0]   \* the empty cursor: bootstrap

VARIABLES
  deployment,    \* one of Deployments
  log,           \* every event published
  base,          \* the feed's retention horizon
  pc,            \* where Run is
  mem, disk,     \* the indexes, and what the Store holds of them
  saved,         \* the cursor in the CursorStore
  cur,           \* cursorVal
  boot,          \* bootstrapping
  page, next, more,  \* the events of the page still to apply, its Cursor, its HasMore
  failed,        \* persistFailed
  saveFailures,
  faults,
  orphans,       \* history: items kept through a bootstrap that says nothing of them
  rewind         \* history: a bootstrap over a saved cursor is under way, or was cut short

feed == <<deployment, log, base>>
loop == <<cur, boot, page, next, more, failed, saveFailures>>
history == <<orphans, rewind>>
vars == <<feed, pc, mem, disk, saved, loop, faults, history>>

PcValues == {"start", "fetch", "apply", "cascade", "stopped"}

TypeOK ==
  /\ deployment \in Deployments
  /\ log \in Seq(Event) /\ base \in 0 .. Len(log)
  /\ pc \in PcValues
  /\ mem \subseteq Items /\ disk \subseteq Items /\ orphans \subseteq Items
  /\ saved \in Cursor /\ cur \in Cursor /\ next \in Cursor
  /\ boot \in BOOLEAN /\ more \in BOOLEAN /\ failed \in BOOLEAN
  /\ page \subseteq DOMAIN log
  /\ saveFailures \in 0 .. SaveStrikes /\ (saveFailures < SaveStrikes \/ pc = "stopped")
  /\ faults \in 0 .. MaxFaults
  /\ rewind \in {"no", "underway", "torn"}

-----------------------------------------------------------------------------
(* The feed.                                                               *)

Creates(e, x) == e.op \in {"put", "untyped"} /\ e.item = x
\* Removing an agent removes its grants.
Deletes(e, x) == e.op = "remove" /\ (e.item = x \/ (x \in Grants /\ AgentOf[x] = e.item))
Touches(e, x) == Creates(e, x) \/ Deletes(e, x)

\* The registry's own state after its first n events.
TruthAt(n) ==
  {x \in Items : \E i \in 1 .. n : Creates(log[i], x) /\ \A j \in i + 1 .. n : ~Deletes(log[j], x)}
Truth == TruthAt(Len(log))

Survives(i) == \E x \in Items : Creates(log[i], x) /\ \A j \in i + 1 .. base : ~Touches(log[j], x)

\* The events the feed still delivers after cursor c.
Feed(c) == {i \in DOMAIN log : i > c.at /\ (i > base \/ Survives(i))}

Expired(c) == c # Start /\ c.at < base /\ c.horizon # base

FirstOf(I, n) == {i \in I : Cardinality({j \in I : j < i}) < n}
Least(I) == CHOOSE i \in I : \A j \in I : i <= j
Greatest(I) == CHOOSE i \in I : \A j \in I : j <= i

Publish(e) ==
  /\ Len(log) < MaxEvents
  /\ e.op = "remove" => e.item \in Truth
  /\ e.op = "untyped" => e.item \in Grants
  /\ e.op = "ignored" => e.item = CHOOSE x \in Properties : TRUE
  /\ log' = Append(log, e)
  /\ UNCHANGED <<deployment, base, pc, mem, disk, saved, loop, faults, history>>

\* Retention: the horizon moves up to event b.
Compact(b) ==
  /\ base' = b
  /\ UNCHANGED <<deployment, log, pc, mem, disk, saved, loop, faults, history>>

-----------------------------------------------------------------------------
Init ==
  /\ deployment \in Deployments
  /\ log = <<>> /\ base = 0
  /\ pc = "start"
  /\ mem = {} /\ disk = {} /\ orphans = {}
  /\ saved = Start /\ cur = Start /\ next = Start
  /\ boot = FALSE /\ more = FALSE /\ failed = FALSE
  /\ page = {}
  /\ saveFailures = 0 /\ faults = 0
  /\ rewind = "no"

Fault == faults < MaxFaults /\ faults' = faults + 1

\* Without a store nothing is persisted, and the cursor's saves cannot fail.
Stored == deployment = "store"

StoreFault == Stored /\ Fault

\* Mutant: a failed hydrate is only logged and the saved cursor resumed.
HydrateResumes(F) ==
  /\ pc = "start"
  /\ IF F = {} THEN UNCHANGED faults ELSE StoreFault
  /\ mem' = {x \in disk : IndexOf(x) \notin F}
  /\ cur' = saved
  /\ boot' = (cur' = Start)
  /\ pc' = "fetch"
  /\ UNCHANGED <<feed, disk, saved, page, next, more, failed, saveFailures, history>>

\* Run before its loop: hydrate the three indexes, those of F failing, and
\* load the cursor.  A failed hydrate forces a bootstrap over what the store
\* and the other indexes hold.
Hydrate(F) ==
  /\ pc = "start"
  /\ IF F = {} THEN UNCHANGED faults ELSE StoreFault
  /\ mem' = {x \in disk : IndexOf(x) \notin F}
  /\ cur' = IF F = {} THEN saved ELSE Start
  /\ boot' = (cur' = Start)
  /\ rewind' = IF cur' # saved THEN "underway" ELSE rewind
  /\ pc' = "fetch"
  /\ UNCHANGED <<feed, disk, saved, page, next, more, failed, saveFailures, orphans>>

LoadCursorFails ==
  /\ pc = "start"
  /\ StoreFault
  /\ mem' = disk
  /\ pc' = "stopped"
  /\ UNCHANGED <<feed, disk, saved, loop, history>>

\* What a bootstrap leaves behind: items it holds no event about.
Unmentioned == {x \in mem \cup disk : \A i \in Feed(Start) : ~Touches(log[i], x)}

\* A page of the feed.  Any other failed poll changes nothing but the backoff.
FetchFeed ==
  /\ pc = "fetch" /\ ~Expired(cur)
  /\ orphans' = IF cur = Start THEN Unmentioned ELSE orphans
  /\ LET I == Feed(cur)
         P == FirstOf(I, IF boot THEN BootstrapLimit ELSE FeedLimit)
     IN \/ /\ P # {}
           /\ page' = P
           /\ next' = [horizon |-> base, at |-> Greatest(P)]
           /\ more' = (P # I)
           /\ failed' = FALSE
           /\ pc' = "apply"
           /\ UNCHANGED <<cur, boot, saveFailures>>
        \/ /\ P = {}
           /\ boot' = FALSE
           /\ UNCHANGED <<pc, cur, page, next, more, failed, saveFailures>>
  /\ UNCHANGED <<feed, mem, disk, saved, faults, rewind>>

\* Mutant: the indexes are cleared and the expired cursor kept.
RebootstrapKeepsCursor ==
  /\ pc = "fetch" /\ Expired(cur)
  /\ mem' = {} /\ disk' = {} /\ orphans' = {} /\ rewind' = "no"
  /\ UNCHANGED <<feed, pc, saved, loop, faults>>

\* 410, and clearAllForRebootstrap succeeds: the empty cursor's own save is
\* best effort.  What stays saved then has expired too, unless this was a
\* forced bootstrap that had not saved a page yet.
Rebootstrap ==
  /\ pc = "fetch" /\ Expired(cur)
  /\ mem' = {} /\ disk' = {} /\ orphans' = {}
  /\ cur' = Start
  /\ boot' = TRUE
  /\ \/ saved' = Start /\ UNCHANGED faults
     \/ StoreFault /\ UNCHANGED saved
  /\ rewind' = IF saved' = Start \/ Expired(saved) THEN "no" ELSE "underway"
  /\ UNCHANGED <<feed, pc, page, next, more, failed, saveFailures>>

\* 410, and the stores of the indexes F are not cleared, or only in part:
\* memory is empty, the cursor stays and the next poll is answered 410 again.
ClearFails(F) ==
  /\ pc = "fetch" /\ Expired(cur)
  /\ F # {} /\ StoreFault
  /\ mem' = {}
  /\ \E kept \in SUBSET {x \in disk : IndexOf(x) \in F} : disk' = kept
  /\ UNCHANGED <<feed, pc, saved, loop, history>>

-----------------------------------------------------------------------------
(* The events of a page, in order, each whatever became of the last.       *)

\* The index changes in memory, then in the store: del leaves, add arrives.
Write(del, add, ok, written) ==
  /\ mem' = (mem \ del) \cup add
  /\ disk' = IF written /\ Stored THEN (disk \ del) \cup add ELSE disk
  /\ failed' = (failed \/ ~ok)

\* Mutant: a failed store write is logged and not returned.
PersistSwallows(del, add) ==
  \/ Write(del, add, TRUE, TRUE) /\ UNCHANGED faults
  \/ StoreFault /\ \E written \in BOOLEAN : Write(del, add, TRUE, written)

\* A store write that succeeds, or fails before or after taking effect.
Persist(del, add) ==
  \/ Write(del, add, TRUE, TRUE) /\ UNCHANGED faults
  \/ StoreFault /\ \E written \in BOOLEAN : Write(del, add, FALSE, written)

Done(i) == page' = page \ {i} /\ pc' = "apply"

ApplyEvent ==
  /\ pc = "apply" /\ page # {}
  /\ LET i == Least(page)  e == log[i] IN
     \/ /\ e.op = "ignored"
        /\ Done(i)
        /\ UNCHANGED <<mem, disk, failed, faults>>
     \/ /\ e.op = "put"
        /\ Persist({}, {e.item})
        /\ Done(i)
     \/ /\ e.op = "untyped"
        /\ Write({}, {e.item}, ~Stored, FALSE)
        /\ Done(i)
        /\ UNCHANGED faults
     \/ /\ e.op = "remove" /\ e.item \notin Agents
        /\ Persist({e.item}, {})
        /\ Done(i)
     \/ \* agents.Remove; only when it persisted are the grants removed too
        /\ e.op = "remove" /\ e.item \in Agents
        /\ \/ /\ Write({e.item}, {}, TRUE, TRUE)
              /\ pc' = "cascade"
              /\ UNCHANGED <<page, faults>>
           \/ /\ StoreFault
              /\ \E written \in BOOLEAN : Write({e.item}, {}, FALSE, written)
              /\ Done(i)
  /\ UNCHANGED <<feed, saved, cur, boot, next, more, saveFailures, history>>

\* agent.removed, second half: auth.RemoveAgent.
CascadeGrants ==
  /\ pc = "cascade"
  /\ LET i == Least(page) IN Persist(GrantsOf(log[i].item), {}) /\ Done(i)
  /\ UNCHANGED <<feed, saved, cur, boot, next, more, saveFailures, history>>

\* Mutant: a cursor that cannot be saved never ends Run.
EndPageNeverStops ==
  /\ pc = "apply" /\ page = {}
  /\ cur' = IF failed THEN cur ELSE next
  /\ pc' = "fetch"
  /\ \/ saved' = cur' /\ saveFailures' = 0 /\ UNCHANGED faults
     \/ ~failed /\ StoreFault /\ saveFailures' = saveFailures + 1 /\ UNCHANGED saved
  /\ boot' = (boot /\ more)
  /\ UNCHANGED <<feed, mem, disk, page, next, more, failed, history>>

\* After the page: refetch it when a write failed, else move the cursor and
\* save it.  A failed save is retried with the next page's cursor.
EndPage ==
  /\ pc = "apply" /\ page = {}
  /\ \/ /\ failed
        /\ pc' = "fetch"
        /\ UNCHANGED <<saved, cur, boot, saveFailures, faults, rewind>>
     \/ /\ ~failed
        /\ cur' = next
        /\ \/ /\ saved' = next /\ saveFailures' = 0
              /\ pc' = "fetch"
              /\ boot' = (boot /\ more)
              /\ rewind' = IF rewind = "underway" THEN "no" ELSE rewind
              /\ UNCHANGED faults
           \/ /\ StoreFault
              /\ saveFailures' = saveFailures + 1
              /\ pc' = IF saveFailures' >= SaveStrikes THEN "stopped" ELSE "fetch"
              /\ boot' = (boot /\ (more \/ pc' = "stopped"))
              /\ UNCHANGED <<saved, rewind>>
  /\ UNCHANGED <<feed, mem, disk, page, next, more, failed, orphans>>

\* The process dies, or ends after Run returned, and is started again.
Crash ==
  /\ pc # "start"
  /\ Fault
  /\ pc' = "start"
  /\ mem' = {}
  /\ cur' = Start /\ next' = Start /\ page' = {}
  /\ boot' = FALSE /\ more' = FALSE /\ failed' = FALSE /\ saveFailures' = 0
  /\ rewind' = IF rewind = "underway" THEN "torn" ELSE rewind
  /\ saved' = IF Stored THEN saved ELSE Start
  /\ UNCHANGED <<feed, disk, orphans>>

-----------------------------------------------------------------------------
Sync ==
  \/ \E F \in SUBSET Indexes : Hydrate(F) \/ ClearFails(F)
  \/ LoadCursorFails
  \/ FetchFeed
  \/ Rebootstrap
  \/ ApplyEvent
  \/ CascadeGrants
  \/ EndPage

Next ==
  \/ Sync
  \/ Crash
  \/ \E e \in Event : Publish(e)
  \/ \E b \in base + 1 .. Len(log) : Compact(b)

\* Run's loop never blocks for good: every wait is a timer.
Spec == Init /\ [][Next]_vars /\ WF_vars(Sync)

-----------------------------------------------------------------------------
(* What the syncer promises.                                               *)

\* The state reached from S by applying the events I in order.
Replay(S, I) ==
  {x \in Items :
     LET T == {i \in I : Touches(log[i], x)}
     IN IF T = {} THEN x \in S ELSE Creates(log[Greatest(T)], x)}

\* Wherever the process dies, in the middle of a page, between the two halves
\* of an agent removal or with the cursor not saved, the saved cursor and the
\* store recover the registry's state: replaying what the feed holds after
\* the cursor over the store loses nothing, and keeps nothing that was removed
\* but the orphans of an earlier bootstrap (syncer.go 165-203).  Left out is a
\* bootstrap forced over a saved cursor, until its first page is saved.
Recoverable ==
  (Stored /\ rewind = "no" /\ ~Expired(saved)) =>
    LET R == Replay(disk, Feed(saved)) IN
      /\ Truth \subseteq R
      /\ saved # Start => R \subseteq Truth \cup orphans

InStep == \A S \in {mem} \cup (IF Stored THEN {disk} ELSE {}) : Truth \subseteq S /\ S \subseteq Truth \cup orphans

\* A syncer whose cursor is at the end of the feed serves the registry's
\* state, from memory and from the store alike: nothing was skipped by a
\* partial hydrate, a page that failed to persist, a retried page or a
\* rebootstrap, and nothing removed is still there but orphans.
CaughtUp ==
  (pc = "fetch" /\ cur.at = Len(log) /\ rewind # "torn") => InStep

\* AuthIndex's comment (auth_index.go 29-33): "persistence failures are
\* returned so the Syncer can refuse to advance the feed cursor - auth is
\* load-bearing [...] since a missed revoke leaves a permanently-trusted
\* grant".  A syncer at the end of the feed must not serve a revoked grant.
RevokesHonoured ==
  (pc = "fetch" /\ cur.at = Len(log)) => mem \cap Grants \subseteq Truth \cup orphans

Poisoned == \E i \in DOMAIN log : log[i].op = "untyped"

\* Once the registry is quiet and the stores answer, memory and store reach
\* the registry's state and stay there, unless Run has returned its error, a
\* forced bootstrap was cut short, or the store rejects a grant without a type.
Converges == <>[](pc = "stopped" \/ rewind = "torn" \/ (Stored /\ Poisoned) \/ InStep)

\* applyEvent's comment (syncer.go 283-285): "dropping is the only progress
\* path.  Returning the error would block the cursor and the same event would
\* re-deliver forever."  Whatever the feed holds, a syncer that keeps running
\* gets its cursor past it.
CursorProgresses == <>[](pc = "stopped" \/ Feed(cur) = {})
=============================================================================
