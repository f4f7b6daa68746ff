------------------------ MODULE ConfigServiceProofs ------------------------
(***************************************************************************)
(* Proofs about ConfigService for every number of Starts, packages, rules, *)
(* source changes, failures and Stops.                                     *)
(***************************************************************************)
EXTENDS ConfigService, TLAPS

Table == [Packages -> Rules \cup {Nobody}]

Snapshot == [configs : Table, watermark : Nat]

\* A snapshot is what the source held at its watermark.
AsOf(s) == s.watermark \in 1 .. Latest /\ s.configs = tables[s.watermark]

TablesOK == tables \in Seq(Table) /\ Latest >= 1

SnapOK == snap \in Snapshot /\ AsOf(snap)

LoadLabels == {"idle", "loading", "launching", "failing", "over"}

\* A load in progress was answered, if at all, at a watermark of the source.
LoadsOK == starting \in [Starts -> [pc : LoadLabels, answer : 0 .. Latest]]

\* What a refresh took from the service is as of its watermark, and the
\* source answered, if at all, no earlier than that.
RefreshesOK ==
  /\ DOMAIN loop = Starts
  /\ \A i \in Starts :
       /\ loop[i] = [pc |-> loop[i].pc, current |-> loop[i].current, answer |-> loop[i].answer]
       /\ loop[i].pc = "refreshing" =>
            /\ loop[i].current \in Snapshot /\ AsOf(loop[i].current)
            /\ loop[i].answer = 0 \/ loop[i].answer \in loop[i].current.watermark .. Latest

ConfigInv == TablesOK /\ SnapOK /\ LoadsOK /\ RefreshesOK

\* Before the first Start the service holds the empty snapshot.
LEMMA ConfigInvInit == ConfigInit => ConfigInv
<1> SUFFICES ASSUME ConfigInit PROVE ConfigInv OBVIOUS
<1>1. Empty \in Table BY DEF Empty, Table
<1>2. TablesOK BY <1>1 DEF ConfigInit, TablesOK, Latest
<1>3. SnapOK BY <1>1, <1>2 DEF ConfigInit, SnapOK, Snapshot, AsOf, Latest
<1>4. LoadsOK BY <1>2 DEF ConfigInit, LoadsOK, Latest, TablesOK, LoadLabels
<1>5. RefreshesOK BY DEF ConfigInit, RefreshesOK, NoLoop
<1> QED BY <1>2, <1>3, <1>4, <1>5 DEF ConfigInv

\* The delta between two watermarks turns the snapshot of the earlier into
\* the snapshot of the later: nothing that changed is left out, and what it
\* leaves alone was the same at both.
LEMMA DeltaExact ==
  ASSUME TablesOK, NEW cur \in Snapshot, AsOf(cur), NEW upto \in cur.watermark .. Latest
  PROVE  applyDelta(cur, Delta(cur.watermark, upto)) =
           [configs |-> tables[upto], watermark |-> upto]
<1> DEFINE new == applyDelta(cur, Delta(cur.watermark, upto))
<1>1. /\ cur.watermark \in Nat /\ upto \in Nat /\ Latest \in Nat
      /\ cur.watermark \in 1 .. Latest /\ upto \in 1 .. Latest
  BY DEF TablesOK, AsOf, Latest, Snapshot
<1>2. tables[upto] \in Table /\ tables[cur.watermark] \in Table
  BY <1>1 DEF TablesOK, Latest
<1>3. new.watermark = upto
  BY <1>1 DEF applyDelta, Delta
<1>4. new.configs = [p \in Packages |-> tables[upto][p]]
  <2>1. ASSUME NEW p \in Packages PROVE new.configs[p] = tables[upto][p]
    BY <1>2 DEF applyDelta, Delta, AsOf
  <2> QED BY <2>1 DEF applyDelta
<1>5. new.configs = tables[upto]
  BY <1>2, <1>4 DEF Table
<1> QED BY <1>3, <1>5 DEF applyDelta

\* Every step of Start, the loop, Stop and the source keeps the invariant.
LEMMA ConfigInvNext == ConfigInv /\ [ConfigNext]_configVars => ConfigInv'
<1> SUFFICES ASSUME ConfigInv, [ConfigNext]_configVars PROVE ConfigInv' OBVIOUS
<1>l. Latest \in Nat /\ Latest >= 1 BY DEF ConfigInv, TablesOK, Latest
\* A step that leaves the tables and the snapshot alone, and touches one
\* Start and one loop.
<1>q. ASSUME UNCHANGED <<tables, snap>>, LoadsOK', RefreshesOK' PROVE ConfigInv'
  BY <1>q DEF ConfigInv, TablesOK, SnapOK, AsOf, Latest
<1>m. ASSUME NEW i \in Starts, NEW l \in LoadLabels, Moves(i, l), UNCHANGED tables PROVE LoadsOK'
  <2>1. Latest' = Latest /\ 0 \in 0 .. Latest BY <1>m, <1>l DEF Latest
  <2> QED BY <1>m, <2>1 DEF ConfigInv, LoadsOK, Moves
<1>u. ASSUME UNCHANGED <<tables, starting>> PROVE LoadsOK'
  BY <1>u DEF ConfigInv, LoadsOK, Latest
<1>r. ASSUME UNCHANGED <<tables, loop>> PROVE RefreshesOK'
  BY <1>r DEF ConfigInv, RefreshesOK, AsOf, Latest
<1>s. ASSUME NEW i \in Starts, NEW l \in {"waiting", "closed"}, UNCHANGED tables,
             loop' = [loop EXCEPT ![i].pc = l] \/ loop' = [loop EXCEPT ![i] = [NoLoop EXCEPT !.pc = l]]
      PROVE  RefreshesOK'
  BY <1>s DEF ConfigInv, RefreshesOK, AsOf, Latest, NoLoop
<1>1. CASE SourceChanges
  <2>0. PICK p \in Packages, r \in Rules \cup {Nobody} :
        tables' = Append(tables, [tables[Latest] EXCEPT ![p] = r])
    BY <1>1 DEF SourceChanges
  <2>1. [tables[Latest] EXCEPT ![p] = r] \in Table
    BY <1>l DEF ConfigInv, TablesOK, Table, Latest
  <2>2. /\ Latest' = Latest + 1 /\ TablesOK'
        /\ \A n \in 1 .. Latest : tables'[n] = tables[n]
    BY <1>l, <2>0, <2>1 DEF ConfigInv, TablesOK, Latest
  <2>3. ASSUME NEW s \in Snapshot, AsOf(s) PROVE s.watermark \in 1 .. Latest' /\ s.configs = tables'[s.watermark]
    <3>1. s.watermark \in 1 .. Latest /\ s.configs = tables[s.watermark] BY <2>3 DEF AsOf
    <3>2. tables'[s.watermark] = tables[s.watermark] BY <2>2, <3>1
    <3> QED BY <1>l, <2>2, <3>1, <3>2
  <2>4. UNCHANGED <<snap, starting, loop>> BY <1>1 DEF SourceChanges
  <2>5. SnapOK' BY <2>3, <2>4 DEF ConfigInv, SnapOK, AsOf
  <2>6. LoadsOK' BY <1>l, <2>2, <2>4 DEF ConfigInv, LoadsOK
  <2>7. RefreshesOK'
    <3>1. ASSUME NEW i \in Starts, loop[i].pc = "refreshing"
          PROVE  /\ loop[i].current \in Snapshot
                 /\ loop[i].answer = 0 \/ loop[i].answer \in loop[i].current.watermark .. Latest'
      BY <1>l, <2>2, <3>1 DEF ConfigInv, RefreshesOK, Snapshot
    <3>2. ASSUME NEW i \in Starts, loop[i].pc = "refreshing"
          PROVE  /\ loop[i].current.watermark \in 1 .. Latest'
                 /\ loop[i].current.configs = tables'[loop[i].current.watermark]
      BY <2>3, <3>2 DEF ConfigInv, RefreshesOK
    <3> QED BY <2>4, <3>1, <3>2 DEF ConfigInv, RefreshesOK, AsOf
  <2> QED BY <2>2, <2>5, <2>6, <2>7 DEF ConfigInv
<1>2. ASSUME NEW i \in Starts, StartBegins(i) PROVE ConfigInv'
  BY <1>2, <1>q, <1>m, <1>r DEF StartBegins, LoadLabels
<1>3. ASSUME NEW i \in Starts, LoadAnswered(i) PROVE ConfigInv'
  <2>1. LoadsOK' BY <1>3, <1>l DEF LoadAnswered, ConfigInv, LoadsOK, Latest
  <2> QED BY <1>3, <2>1, <1>q, <1>r DEF LoadAnswered
<1>4. ASSUME NEW i \in Starts, LoadStored(i) PROVE ConfigInv'
  <2>1. starting[i].answer \in 1 .. Latest
    BY <1>4, <1>l DEF LoadStored, ConfigInv, LoadsOK
  <2>2. SnapOK'
    BY <1>4, <1>l, <2>1 DEF LoadStored, ConfigInv, SnapOK, AsOf, Snapshot, TablesOK, Latest
  <2>3. LoadsOK' /\ RefreshesOK' BY <1>4, <1>m, <1>r DEF LoadStored, LoadLabels
  <2> QED BY <1>4, <2>2, <2>3 DEF LoadStored, ConfigInv, TablesOK, Latest
<1>5. ASSUME NEW i \in Starts, LoadFails(i) \/ StartFails(i) PROVE ConfigInv'
  BY <1>5, <1>q, <1>m, <1>r DEF LoadFails, StartFails, LoadLabels
<1>6. ASSUME NEW i \in Starts, Launch(i) PROVE ConfigInv'
  BY <1>6, <1>q, <1>m, <1>r, <1>s DEF Launch, LoadLabels
<1>7. ASSUME NEW i \in Starts, Refresh(i) PROVE ConfigInv'
  <2>1. RefreshesOK'
    BY <1>7, <1>l DEF Refresh, ConfigInv, SnapOK, RefreshesOK, AsOf, Latest, Snapshot
  <2> QED BY <1>7, <2>1, <1>q, <1>u DEF Refresh
<1>a. ASSUME NEW i \in Starts, RefreshAnswered(i) PROVE ConfigInv'
  <2>1. loop[i].current \in Snapshot /\ AsOf(loop[i].current)
    BY <1>a DEF RefreshAnswered, ConfigInv, RefreshesOK
  <2>2. Latest \in loop[i].current.watermark .. Latest BY <1>l, <2>1 DEF AsOf, Snapshot
  <2>3. RefreshesOK'
    BY <1>a, <2>1, <2>2 DEF RefreshAnswered, ConfigInv, RefreshesOK, AsOf, Latest
  <2> QED BY <1>a, <2>3, <1>q, <1>u DEF RefreshAnswered
<1>8. ASSUME NEW i \in Starts, RefreshStored(i) PROVE ConfigInv'
  <2> DEFINE cur == loop[i].current
  <2>1. cur \in Snapshot /\ AsOf(cur) /\ loop[i].answer \in cur.watermark .. Latest
    BY <1>8 DEF RefreshStored, ConfigInv, RefreshesOK
  <2>2. \/ snap' = snap
        \/ snap' = [configs |-> tables[loop[i].answer], watermark |-> loop[i].answer]
    BY <1>8, <2>1, DeltaExact DEF RefreshStored, ConfigInv
  <2>3. loop[i].answer \in 1 .. Latest
    BY <1>l, <2>1 DEF AsOf, Snapshot
  <2>4. UNCHANGED <<tables, starting>> BY <1>8 DEF RefreshStored
  <2>5. SnapOK'
    BY <1>l, <2>2, <2>3, <2>4 DEF ConfigInv, SnapOK, AsOf, Snapshot, TablesOK, Latest
  <2>6. RefreshesOK' BY <1>8, <2>4, <1>s DEF RefreshStored
  <2> QED BY <2>4, <2>5, <2>6, <1>u DEF ConfigInv, TablesOK, Latest
<1>9. ASSUME NEW i \in Starts, RefreshFails(i) \/ LoopEnds(i) PROVE ConfigInv'
  <2>1. UNCHANGED <<tables, snap, starting>> BY <1>9 DEF RefreshFails, LoopEnds
  <2>2. RefreshesOK' BY <1>9, <1>s DEF RefreshFails, LoopEnds
  <2> QED BY <2>1, <2>2, <1>q, <1>u
<1>10. CASE StopIdle \/ StopBegins \/ StopReturns \/ UNCHANGED configVars
  BY <1>10, <1>q, <1>u, <1>r DEF StopIdle, StopBegins, StopReturns, configVars
<1> QED
  BY <1>1, <1>2, <1>3, <1>4, <1>5, <1>6, <1>7, <1>a, <1>8, <1>9, <1>10
     DEF ConfigNext, Loading, Refreshing

\* For any number of overlapping Starts, refreshes, failures and Stops: what
\* lookups read is what the source held at the snapshot's watermark.
THEOREM SnapshotsAsOf == ConfigSpec => []SnapshotAsOf
<1>1. ConfigInv => SnapshotAsOf BY DEF ConfigInv, SnapOK, AsOf, SnapshotAsOf
<1> QED BY <1>1, ConfigInvInit, ConfigInvNext, PTL DEF ConfigSpec
=============================================================================
