-------------------------- MODULE RevocationLists --------------------------
(***************************************************************************)
(* The revocation checker of Web Bot Auth (signing/wba_revocation.go,      *)
(* OriginRevocationChecker) for one origin and one of its keys: checks     *)
(* share a discovery that admits the origin and a refresh of its signed    *)
(* list, the origins table evicts, and a History outlives both.            *)
(*                                                                         *)
(* Of a list the model keeps its signed time and the kids it revokes;      *)
(* next_update is Interval later.  An admitted origin is an object: one    *)
(* that was evicted lives on while a check or its refresh uses it.         *)
(* Other origins only evict, take discovery slots and use up quotas.       *)
(***************************************************************************)
EXTENDS Integers, Sequences, FiniteSets

CONSTANTS
  Checks,             \* CheckWBAKey calls
  Key,                \* the kid they ask about
  Revocable,          \* the sets of kids that lists revoke
  Discoverer,         \* the discover goroutine
  Objects,            \* originRevocations that may exist at once
  Interval,           \* next_update minus updated
  MinInterval,        \* revocationMinInterval
  MaxInterval,        \* revocationMaxInterval, the cap on the interval the grace is taken of
  GraceMultiplier,
  Cooldown,           \* discoveryNegativeTTL
  DiscoveryTimeout,
  MaxLists, SignsBy,  \* bounds on what the origin signs, and when
  MaxListTime,        \* bound on the clock
  Missing             \* no list, no object, no cooldown

\* A verified list: when it was signed and the kids it revokes.
RevocationList == [updated : Nat, kids : SUBSET UNION Revocable]

ASSUME RevocationConstantsOK ==
  /\ MinInterval \in Nat /\ Interval \in Nat /\ MaxInterval \in Nat
  /\ Interval >= MinInterval /\ DiscoveryTimeout \in 0 .. MinInterval - 1
  /\ GraceMultiplier \in Nat /\ Cooldown \in Nat
  /\ Discoverer \notin Checks /\ Missing \notin Objects /\ Missing \notin RevocationList

VARIABLES
  time,
  signed,      \* the lists the origin has signed, in order
  history,     \* what the RevocationHistory holds for the origin
  admitted,    \* OriginRevocationChecker.origins
  objects,     \* the originRevocations
  failure,     \* OriginRevocationChecker.failures
  caller,      \* the checks and the discovery, which is also pending
  orphaned     \* an origin was dropped while in use or not stored; history

revocationVars == <<time, signed, history, admitted, objects, failure, caller, orphaned>>

Callers == Checks \cup {Discoverer}

\* ref is the refresh goroutine: fetching (refreshing is set) or storing.
Blank == [list |-> Missing, etag |-> FALSE, lastAttempt |-> 0 - MinInterval,
          unpersisted |-> FALSE, ref |-> "none"]

Resting == [pc |-> "idle", obj |-> Missing, since |-> 0, err |-> "none", state |-> "none"]

Revokes(l) == l # Missing /\ Key \in l.kids

\* RevocationList.NextUpdate.
NextUpdate(l) == l.updated + Interval

\* Past next_update, a list is good for this long.
grace == GraceMultiplier * (IF Interval > MaxInterval THEN MaxInterval ELSE Interval)

RevocationInit ==
  /\ time = 0 /\ signed = <<>>
  /\ history = Missing /\ admitted = Missing /\ failure = Missing
  /\ objects = [i \in Objects |-> Blank]
  /\ caller = [p \in Callers |-> Resting]
  /\ orphaned = FALSE

On(p, pc) == caller[p].pc = pc

Used(i, call, adm, obj) ==
  i = adm \/ obj[i].ref # "none" \/ \E p \in Callers : call[p].obj = i

\* The next objects; one that nothing refers to is garbage.
Become(call, adm, obj) ==
  /\ caller' = call /\ admitted' = adm
  /\ objects' = [i \in Objects |-> IF Used(i, call, adm, obj) THEN obj[i] ELSE Blank]

\* A check's answer; the ones no property reads end it at once.
Answered(s) ==
  IF s \in {"current", "no_list"} THEN [Resting EXCEPT !.pc = "answered", !.state = s] ELSE Resting

-----------------------------------------------------------------------------
(* CheckWBAKey.                                                            *)

\* What retained returns: the admitted list, or the History's.
Retained == IF admitted # Missing THEN objects[admitted].list ELSE history

\* A History that cannot be read is never "nothing retained".
CheckBegins(c) ==
  /\ On(c, "idle")
  /\ \/ caller' = [caller EXCEPT ![c] =
          IF Revokes(Retained) THEN Answered("revoked") ELSE [Resting EXCEPT !.pc = "admit"]]
     \/ /\ admitted = Missing
        /\ caller' = [caller EXCEPT ![c] = Answered("unavailable")]
  /\ UNCHANGED <<time, signed, history, admitted, objects, failure, orphaned>>

CoolingDown == failure # Missing /\ time < failure.until

\* admit: the tracked origin, a cooldown, a discovery to wait for, a full
\* table of discoveries, or a discovery of its own.
Admit(c) ==
  LET to(me) == caller' = [caller EXCEPT ![c] = me] IN
  /\ On(c, "admit")
  /\ \/ /\ admitted # Missing
        /\ to([Resting EXCEPT !.pc = "fresh", !.obj = admitted])
     \/ /\ admitted = Missing /\ CoolingDown
        /\ to(Answered(IF failure.noList THEN "no_list" ELSE "stale"))
     \/ /\ admitted = Missing /\ ~CoolingDown
        /\ \/ ~On(Discoverer, "idle") /\ to([Resting EXCEPT !.pc = "awaiting"])
           \/ On(Discoverer, "idle") /\ to(Answered("stale"))
           \/ /\ On(Discoverer, "idle")
              /\ caller' = [caller EXCEPT
                   ![c] = [Resting EXCEPT !.pc = "awaiting"],
                   ![Discoverer] = [Resting EXCEPT !.pc = "load", !.since = time]]
  /\ UNCHANGED <<time, signed, history, admitted, objects, failure, orphaned>>

CheckReturns(c) ==
  /\ On(c, "answered")
  /\ caller' = [caller EXCEPT ![c] = Resting]
  /\ UNCHANGED <<time, signed, history, admitted, objects, failure, orphaned>>

-----------------------------------------------------------------------------
(* fresh, called by a check or by the discovery.                           *)

\* A caller with a result: the discovery goes on to admit the origin.
Leave(p, state, err) ==
  IF p = Discoverer THEN [caller[p] EXCEPT !.pc = "admitting", !.err = err] ELSE Answered(state)

FreshReturns(p, l) == Leave(p, IF Revokes(l) THEN "revoked" ELSE "current", "none")

\* On an error a check still answers from the list it has.
FreshFails(p, l, err) == Leave(p, IF Revokes(l) THEN "revoked" ELSE "stale", err)

\* The list is good, or a refresh is joined, or started, or not due.
Fresh(p) ==
  LET i == caller[p].obj
      o == objects[i]
      due == o.ref = "none" /\ (o.list = Missing \/ time - o.lastAttempt >= MinInterval)
      good == o.list # Missing /\ ~o.unpersisted /\ time < NextUpdate(o.list)
  IN
  /\ On(p, "fresh")
  /\ \/ good /\ Become([caller EXCEPT ![p] = FreshReturns(p, o.list)], admitted, objects)
     \/ ~good /\ Become([caller EXCEPT ![p].pc = IF o.ref = "fetch" \/ due THEN "waiting" ELSE "settle"],
                        admitted,
                        IF due THEN [objects EXCEPT ![i].ref = "fetch", ![i].lastAttempt = time]
                        ELSE objects)
  /\ UNCHANGED <<time, signed, history, failure, orphaned>>

\* Mutant: a list that could not be refreshed is used for as long as it is there.
SettleForever(p) ==
  LET o == objects[caller[p].obj] IN
  /\ On(p, "settle")
  /\ Become([caller EXCEPT ![p] =
       IF o.unpersisted \/ o.list = Missing THEN FreshFails(p, o.list, caller[p].err)
       ELSE FreshReturns(p, o.list)], admitted, objects)
  /\ UNCHANGED <<time, signed, history, failure, orphaned>>

\* After the refresh: a list that is stored, and not past the grace.
Settle(p) ==
  LET o == objects[caller[p].obj]
      err == IF caller[p].err = "none" THEN "failed" ELSE caller[p].err
      past == time >= NextUpdate(o.list) + grace
  IN
  /\ On(p, "settle")
  /\ Become([caller EXCEPT ![p] =
       IF o.unpersisted THEN FreshFails(p, o.list, "failed")
       ELSE IF o.list = Missing THEN FreshFails(p, o.list, err)
       ELSE IF past THEN FreshFails(p, o.list, err)
       ELSE FreshReturns(p, o.list)], admitted, objects)
  /\ UNCHANGED <<time, signed, history, failure, orphaned>>

\* The context of a check, or the discovery's timeout, ends the wait.
GivesUp(p) ==
  /\ \/ /\ On(p, "awaiting")
        /\ Become([caller EXCEPT ![p] = Answered("stale")], admitted, objects)
     \/ /\ On(p, "waiting")
        /\ Become([caller EXCEPT ![p] = FreshFails(p, objects[caller[p].obj].list, "failed")],
                  admitted, objects)
  /\ UNCHANGED <<time, signed, history, failure, orphaned>>

-----------------------------------------------------------------------------
(* refresh, one per object at a time.                                      *)

\* The refresh's end wakes who waited for it.
Woken(i, err) ==
  [p \in Callers |-> IF On(p, "waiting") /\ caller[p].obj = i
                     THEN [caller[p] EXCEPT !.pc = "settle", !.err = err] ELSE caller[p]]

RefreshEnds(i, o, err) == Become(Woken(i, err), admitted, [objects EXCEPT ![i] = [o EXCEPT !.ref = "none"]])

\* RevocationList.Retain.
Retain(l, previous) == IF previous = Missing THEN l ELSE [l EXCEPT !.kids = @ \cup previous.kids]

Commit(o, l) == [o EXCEPT !.list = Retain(l, o.list), !.etag = TRUE]

\* The fetch fails, or the list does not verify, or is over the bound.
FetchListFails(i) ==
  /\ objects[i].ref = "fetch"
  /\ \E err \in {"failed", "nolist"} : RefreshEnds(i, objects[i], err)
  /\ UNCHANGED <<time, signed, history, failure, orphaned>>

\* A 304 authenticates nothing; a list that is not stored yet is tried again.
NotModified(i) ==
  LET o == objects[i] IN
  /\ o.ref = "fetch" /\ o.etag
  /\ IF o.unpersisted
     THEN Become(caller, admitted, [objects EXCEPT ![i].ref = "store"])
     ELSE RefreshEnds(i, o, "none")
  /\ UNCHANGED <<time, signed, history, failure, orphaned>>

\* A list the origin signed, perhaps an old one, is fetched and committed, or
\* refused as older than the one retained.
ListFetched(i, n) ==
  LET o == objects[i]
      l == signed[n]
  IN
  /\ o.ref = "fetch"
  /\ IF o.list # Missing /\ l.updated < o.list.updated
     THEN RefreshEnds(i, o, "failed")
     ELSE Become(caller, admitted, [objects EXCEPT ![i] = [Commit(o, l) EXCEPT !.ref = "store"]])
  /\ UNCHANGED <<time, signed, history, failure, orphaned>>

\* What StoreRevocations makes of a list: never a revocation less, never an
\* older time, and nothing of a list that revokes nothing.
Merged(l) ==
  IF history = Missing THEN (IF l.kids # {} THEN l ELSE Missing)
  ELSE IF l.updated < history.updated THEN Retain(history, l)
  ELSE Retain(l, history)

ListStored(i) ==
  LET o == objects[i] IN
  /\ o.ref = "store"
  /\ history' = Merged(o.list)
  /\ RefreshEnds(i, [o EXCEPT !.unpersisted = FALSE], "none")
  /\ UNCHANGED <<time, signed, failure, orphaned>>

\* The default History refuses what does not fit its quotas, which other
\* origins fill; another, which is taken to merge as the default does, may
\* fail having stored the list or not.
StoreFails(i) ==
  LET o == objects[i] IN
  /\ o.ref = "store"
  /\ history' \in {history, Merged(o.list)}
  /\ RefreshEnds(i, [o EXCEPT !.unpersisted = TRUE], "failed")
  /\ UNCHANGED <<time, signed, failure, orphaned>>

-----------------------------------------------------------------------------
(* discover.                                                               *)

\* Mutant: an origin is discovered without the history kept for it.
LoadHistoryNothing ==
  /\ On(Discoverer, "load")
  /\ \E i \in Objects :
       /\ ~Used(i, caller, admitted, objects)
       /\ caller' = [caller EXCEPT ![Discoverer].pc = "fresh", ![Discoverer].obj = i]
  /\ UNCHANGED <<time, signed, history, admitted, objects, failure, orphaned>>

\* A new object is seeded with the history.
LoadHistory ==
  /\ On(Discoverer, "load")
  /\ \/ LET free == {i \in Objects : ~Used(i, caller, admitted, objects)}
            i == CHOOSE i \in free : TRUE
        IN /\ free # {}
           /\ caller' = [caller EXCEPT ![Discoverer].pc = "fresh", ![Discoverer].obj = i]
           /\ objects' = [objects EXCEPT ![i].list = history]
     \/ /\ caller' = [caller EXCEPT ![Discoverer].pc = "admitting", ![Discoverer].err = "history"]
        /\ UNCHANGED objects
  /\ UNCHANGED <<time, signed, history, admitted, failure, orphaned>>

\* The discovery's end wakes the checks that wait for it; pending is empty.
Announced(me) ==
  [p \in Callers |-> IF p = Discoverer THEN Resting
                     ELSE IF On(p, "awaiting") THEN me ELSE caller[p]]

\* A verified list is admitted, also one that could not be stored.
DiscoverAdmits ==
  LET d == caller[Discoverer]
      o == objects[d.obj]
  IN
  /\ On(Discoverer, "admitting") /\ d.obj # Missing
  /\ d.err = "none" \/ (o.unpersisted /\ o.list # Missing)
  /\ failure' = Missing
  /\ Become(Announced([Resting EXCEPT !.pc = "admit"]), d.obj, objects)
  /\ UNCHANGED <<time, signed, history, orphaned>>

\* A failure costs a cooldown.  The error is passed on wrapped, so a 404 is
\* told to the checks that wait as "no list" whatever was retained.
DiscoverFails ==
  LET d == caller[Discoverer]
      list == IF d.obj = Missing THEN Missing ELSE objects[d.obj].list
  IN
  /\ On(Discoverer, "admitting") /\ d.err # "none"
  /\ d.obj # Missing => ~(objects[d.obj].unpersisted /\ list # Missing)
  /\ failure' = [until |-> time + Cooldown, noList |-> d.err = "nolist" /\ list = Missing]
  /\ Become(Announced(Answered(CASE d.err = "nolist" -> "no_list"
                                [] d.err = "history" -> "unavailable"
                                [] d.err = "failed" -> "stale")), admitted, objects)
  /\ orphaned' = (orphaned \/ (d.obj # Missing /\ objects[d.obj].ref # "none"))
  /\ UNCHANGED <<time, signed, history>>

-----------------------------------------------------------------------------
(* The rest of the checker's world.                                        *)

InUse(i) == objects[i].ref # "none" \/ \E p \in Callers : caller[p].obj = i

\* Another origin is admitted and this one is the least recently used.
Evict ==
  /\ admitted # Missing
  /\ orphaned' = (orphaned \/ InUse(admitted) \/ (Revokes(Retained) /\ ~Revokes(history)))
  /\ Become(caller, Missing, objects)
  /\ UNCHANGED <<time, signed, history, failure>>

\* Another origin's failure is entered, and this one's is the first to go.
PruneFailures ==
  /\ failure # Missing
  /\ failure' = Missing
  /\ UNCHANGED <<time, signed, history, admitted, objects, caller, orphaned>>

\* The process restarts, and the History is left.  (The default one is in
\* memory and does not survive, as its comment says.)
Restart ==
  /\ orphaned' = (orphaned \/ (Revokes(Retained) /\ ~Revokes(history)))
  /\ failure' = Missing
  /\ Become([p \in Callers |-> Resting], Missing, [i \in Objects |-> Blank])
  /\ UNCHANGED <<time, signed, history>>

\* The origin signs a list; it may leave out a kid it has revoked before.
OriginSigns ==
  /\ Len(signed) < MaxLists /\ time <= SignsBy
  /\ \E r \in Revocable : signed' = Append(signed, [updated |-> time, kids |-> r])
  /\ UNCHANGED <<time, history, admitted, objects, failure, caller, orphaned>>

\* Time passes while the checks wait, a refresh and a discovery for at most
\* their timeout.
ListTick ==
  /\ time < MaxListTime
  /\ \A c \in Checks : On(c, "idle") \/ On(c, "awaiting") \/ On(c, "waiting")
  /\ \A i \in Objects : objects[i].ref # "none" => time < objects[i].lastAttempt + DiscoveryTimeout
  /\ ~On(Discoverer, "idle") => time < caller[Discoverer].since + DiscoveryTimeout
  /\ time' = time + 1
  /\ UNCHANGED <<signed, history, admitted, objects, failure, caller, orphaned>>

RevocationNext ==
  \/ \E c \in Checks : CheckBegins(c) \/ Admit(c) \/ CheckReturns(c)
  \/ \E p \in Callers : Fresh(p) \/ Settle(p) \/ GivesUp(p)
  \/ \E i \in Objects :
       \/ FetchListFails(i) \/ NotModified(i) \/ ListStored(i) \/ StoreFails(i)
       \/ \E n \in 1 .. Len(signed) : ListFetched(i, n)
  \/ LoadHistory \/ DiscoverAdmits \/ DiscoverFails
  \/ Evict \/ PruneFailures \/ Restart \/ OriginSigns \/ ListTick

RevocationSpec == RevocationInit /\ [][RevocationNext]_revocationVars

-----------------------------------------------------------------------------

\* A key is called current only while there is a signed list that does not
\* revoke it and is not past its next_update plus the grace: no 304, failed
\* refresh, eviction, history or shared refresh stretches an old list
\* (RevocationStale "past next_update plus the grace", wba_revocation.go
\* 571-583 and 861-884).
CurrentIsRecent ==
  \A c \in Checks : caller[c].state = "current" =>
    \E n \in 1 .. Len(signed) :
      Key \notin signed[n].kids /\ time < NextUpdate(signed[n]) + grace

\* A key the checker holds as revoked stays revoked: no older or shorter
\* list, 404, eviction, rediscovery, refused store or restart takes that back.
\* Left out is what follows when an origin is dropped, by an eviction or a
\* failed discovery, that a refresh or a check still uses or whose list is
\* not stored ("Revocation is monotonic", wba_revocation.go 445-449).
NeverUnrevoked == [][(Revokes(Retained) /\ ~orphaned') => Revokes(Retained')]_revocationVars
=============================================================================
