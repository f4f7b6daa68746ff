---------------------------- MODULE ConfigService ----------------------------
(***************************************************************************)
(* The identity configuration service (targeting/identityconfig/          *)
(* service.go): Start loads every config from a Source and launches a loop *)
(* that refreshes an immutable snapshot by deltas after its watermark;     *)
(* Stop cancels the loop and waits for it.                                 *)
(*                                                                         *)
(* Start releases the mutex for the initial load, so calls of Start and    *)
(* Stop interleave, and a load or a refresh ends at any time after the     *)
(* source has answered it.  A call of Start is identified by its number,   *)
(* which also names its cancellation token and its loop.                   *)
(***************************************************************************)
EXTENDS Integers, Sequences

CONSTANTS
  Starts,          \* the calls of Start
  StartModes,      \* of {"failfast", "retry", "besteffort"}, those explored
  Packages,        \* (seller_agent_url, package_id) pairs
  Rules,           \* TargetSegments rules
  MaxChanges,      \* bound on the source's changes
  MaxLoadFailures, \* bound on failing source calls
  MaxStops,        \* bound on calls of Stop
  Nobody           \* no token, no loop; a package without a config

ASSUME ConfigConstantsOK ==
  /\ StartModes \subseteq {"failfast", "retry", "besteffort"}
  /\ {MaxChanges, MaxLoadFailures, MaxStops} \subseteq Nat

VARIABLES
  tables,     \* the source's contents, one per watermark
  mode,       \* StartConfig.Mode
  snap,       \* Service.snap: configs and watermark
  running, cancel, done,   \* Service.running, .cancel, .done
  starting,   \* each Start's place, and the watermark its load answered
  cancelled,  \* the tokens cancelled
  loop,       \* each refresh loop's place, its captured snapshot and answer
  stopping,   \* the loop a call of Stop waits for
  stops, failures

configVars == <<tables, mode, snap, running, cancel, done, starting, cancelled,
                loop, stopping, stops, failures>>

service == <<running, cancel, done>>

Latest == Len(tables)
Empty == [p \in Packages |-> Nobody]
NoLoop == [pc |-> "none", current |-> Nobody, answer |-> 0]

\* The zero time, watermark 1, is before every config.
ConfigInit ==
  /\ tables = <<Empty>>
  /\ mode \in StartModes
  /\ snap = [configs |-> Empty, watermark |-> 1]
  /\ running = FALSE /\ cancel = Nobody /\ done = Nobody
  /\ starting = [i \in Starts |-> [pc |-> "idle", answer |-> 0]]
  /\ cancelled = {}
  /\ loop = [i \in Starts |-> NoLoop]
  /\ stopping = Nobody
  /\ stops = 0 /\ failures = 0

SourceChanges ==
  /\ Latest <= MaxChanges
  /\ \E p \in Packages, r \in Rules \cup {Nobody} :
       /\ tables[Latest][p] # r
       /\ tables' = Append(tables, [tables[Latest] EXCEPT ![p] = r])
  /\ UNCHANGED <<mode, snap, service, starting, cancelled, loop, stopping, stops, failures>>

-----------------------------------------------------------------------------
(* Start.                                                                  *)

Moves(i, pc) == starting' = [starting EXCEPT ![i] = [pc |-> pc, answer |-> 0]]

StartBegins(i) ==
  /\ starting[i].pc = "idle"
  /\ \/ /\ running
        /\ Moves(i, "over")
        /\ UNCHANGED service
     \/ /\ ~running
        /\ running' = TRUE /\ cancel' = i
        /\ Moves(i, "loading")
        /\ UNCHANGED done
  /\ UNCHANGED <<tables, mode, snap, cancelled, loop, stopping, stops, failures>>

\* The source answers LoadAll.
LoadAnswered(i) ==
  /\ starting[i].pc = "loading" /\ starting[i].answer = 0
  /\ starting' = [starting EXCEPT ![i].answer = Latest]
  /\ UNCHANGED <<tables, mode, snap, service, cancelled, loop, stopping, stops, failures>>

LoadStored(i) ==
  LET w == starting[i].answer IN
  /\ starting[i].pc = "loading" /\ w # 0
  /\ snap' = [configs |-> tables[w], watermark |-> w]
  /\ Moves(i, "launching")
  /\ UNCHANGED <<tables, mode, service, cancelled, loop, stopping, stops, failures>>

\* The load fails, by the source or because Stop cancelled it: one mode gives
\* up, one goes on without configs, one tries again until it is cancelled or
\* out of attempts.
LoadFails(i) ==
  /\ starting[i].pc = "loading"
  /\ \/ i \in cancelled /\ UNCHANGED failures
     \/ failures < MaxLoadFailures /\ failures' = failures + 1
  /\ \/ mode = "failfast" /\ Moves(i, "failing")
     \/ mode = "besteffort" /\ Moves(i, "launching")
     \/ mode = "retry" /\ (Moves(i, "failing") \/ (i \notin cancelled /\ Moves(i, "loading")))
  /\ UNCHANGED <<tables, mode, snap, service, cancelled, loop, stopping, stops>>

\* A failed Start resets the service, whoever runs it now.
StartFails(i) ==
  /\ starting[i].pc = "failing"
  /\ running' = FALSE /\ cancel' = Nobody
  /\ cancelled' = cancelled \cup {i}
  /\ Moves(i, "over")
  /\ UNCHANGED <<tables, mode, snap, done, loop, stopping, stops, failures>>

\* Launches the loop unless the service was stopped meanwhile.
Launch(i) ==
  /\ starting[i].pc = "launching"
  /\ \/ /\ ~running
        /\ cancelled' = cancelled \cup {i}
        /\ UNCHANGED <<done, loop>>
     \/ /\ running
        /\ done' = i
        /\ loop' = [loop EXCEPT ![i].pc = "waiting"]
        /\ UNCHANGED cancelled
  /\ Moves(i, "over")
  /\ UNCHANGED <<tables, mode, snap, running, cancel, stopping, stops, failures>>

-----------------------------------------------------------------------------
(* The refresh loop.                                                       *)

\* A tick: the loop takes the snapshot.
Refresh(i) ==
  /\ loop[i].pc = "waiting"
  /\ loop' = [loop EXCEPT ![i] = [pc |-> "refreshing", current |-> snap, answer |-> 0]]
  /\ UNCHANGED <<tables, mode, snap, service, starting, cancelled, stopping, stops, failures>>

\* The source answers with what changed after the snapshot's watermark.
RefreshAnswered(i) ==
  /\ loop[i].pc = "refreshing" /\ loop[i].answer = 0
  /\ loop' = [loop EXCEPT ![i].answer = Latest]
  /\ UNCHANGED <<tables, mode, snap, service, starting, cancelled, stopping, stops, failures>>

\* What LoadUpdatedAfter answers between two watermarks.
Delta(after, upto) ==
  LET changedSince == {p \in Packages : tables[after][p] # tables[upto][p]} IN
  [upserted |-> {p \in changedSince : tables[upto][p] # Nobody},
   removed |-> {p \in changedSince : tables[upto][p] = Nobody},
   watermark |-> upto]

\* Mutant: removed configs stay in the rebuilt index.
applyDeltaUpserts(current, delta) ==
  [configs |-> [p \in Packages |->
     IF p \in delta.upserted THEN tables[delta.watermark][p] ELSE current.configs[p]],
   watermark |-> delta.watermark]

applyDelta(current, delta) ==
  [configs |-> [p \in Packages |->
     IF p \in delta.removed THEN Nobody
     ELSE IF p \in delta.upserted THEN tables[delta.watermark][p]
     ELSE current.configs[p]],
   watermark |-> IF delta.watermark < current.watermark THEN current.watermark
                 ELSE delta.watermark]

\* The delta is applied to the snapshot the loop took, and stored; an answer
\* with nothing new stores nothing.
RefreshStored(i) ==
  LET cur == loop[i].current IN
  /\ loop[i].pc = "refreshing" /\ loop[i].answer # 0
  /\ snap' = IF loop[i].answer = cur.watermark THEN snap
             ELSE applyDelta(cur, Delta(cur.watermark, loop[i].answer))
  /\ loop' = [loop EXCEPT ![i] = [NoLoop EXCEPT !.pc = "waiting"]]
  /\ UNCHANGED <<tables, mode, service, starting, cancelled, stopping, stops, failures>>

\* Mutant: a failed refresh ends the loop.
RefreshFailsEnds(i) ==
  /\ loop[i].pc = "refreshing"
  /\ i \in cancelled \/ failures < MaxLoadFailures
  /\ failures' = IF i \in cancelled THEN failures ELSE failures + 1
  /\ loop' = [loop EXCEPT ![i] = [NoLoop EXCEPT !.pc = "closed"]]
  /\ UNCHANGED <<tables, mode, snap, service, starting, cancelled, stopping, stops>>

\* A failed refresh keeps the snapshot.
RefreshFails(i) ==
  /\ loop[i].pc = "refreshing"
  /\ i \in cancelled \/ failures < MaxLoadFailures
  /\ failures' = IF i \in cancelled THEN failures ELSE failures + 1
  /\ loop' = [loop EXCEPT ![i] = [NoLoop EXCEPT !.pc = "waiting"]]
  /\ UNCHANGED <<tables, mode, snap, service, starting, cancelled, stopping, stops>>

LoopEnds(i) ==
  /\ loop[i].pc = "waiting" /\ i \in cancelled
  /\ loop' = [loop EXCEPT ![i].pc = "closed"]
  /\ UNCHANGED <<tables, mode, snap, service, starting, cancelled, stopping, stops, failures>>

-----------------------------------------------------------------------------
(* Stop.                                                                   *)

\* A call on a service that is not running does nothing.
StopIdle == stopping = Nobody /\ ~running /\ UNCHANGED configVars

StopBegins ==
  /\ stopping = Nobody /\ running
  /\ stops < MaxStops /\ stops' = stops + 1
  /\ cancelled' = IF cancel = Nobody THEN cancelled ELSE cancelled \cup {cancel}
  /\ stopping' = done
  /\ running' = FALSE /\ cancel' = Nobody /\ done' = Nobody
  /\ UNCHANGED <<tables, mode, snap, starting, loop, failures>>

StopReturns ==
  /\ stopping # Nobody
  /\ loop[stopping].pc = "closed"
  /\ stopping' = Nobody
  /\ UNCHANGED <<tables, mode, snap, service, starting, cancelled, loop, stops, failures>>

Loading(i) == LoadAnswered(i) \/ LoadStored(i) \/ LoadFails(i) \/ StartFails(i) \/ Launch(i)

Refreshing(i) == Refresh(i) \/ RefreshAnswered(i) \/ RefreshStored(i) \/ RefreshFails(i)

ConfigNext ==
  \/ SourceChanges
  \/ \E i \in Starts : StartBegins(i) \/ Loading(i) \/ Refreshing(i) \/ LoopEnds(i)
  \/ StopIdle \/ StopBegins \/ StopReturns

ConfigSpec == ConfigInit /\ [][ConfigNext]_configVars

-----------------------------------------------------------------------------

\* The snapshot that lookups read is the source's contents at its watermark,
\* though loads and refreshes of overlapping Starts store over each other, a
\* delta is applied to a snapshot taken earlier, and refreshes fail
\* (refreshDelta and applyDeltaWithLogger, service.go 379-401, 463-489).
SnapshotAsOf == snap.configs = tables[snap.watermark]

\* A service that stays started comes to have every config of the source, an
\* initial load that failed included ("retries the load on the normal refresh
\* tick", start_mode.go 18-22; refreshLoop, service.go 360-377).
CatchesUp == <>[]running => <>[](snap.watermark = Latest)
=============================================================================
