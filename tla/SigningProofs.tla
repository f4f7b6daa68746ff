--------------------------- MODULE SigningProofs ---------------------------
(***************************************************************************)
(* Proofs about the stores behind signature verification.  ReplayStore:    *)
(* for every number of verifiers and signatures, every skew, expiry, cap   *)
(* and clock resolution.  RevocationLists: for every number of checks,     *)
(* objects and signed lists, every interval and grace.                     *)
(***************************************************************************)
EXTENDS ReplayStore, RevocationLists, FiniteSetTheorems, SequenceTheorems, TLAPS

\* The first tick past a signature's window.
End(s) == Ticks * (expiresOf[s] + Skew + 1)

ReplayTypes ==
  /\ ticks \in Nat /\ profile \in Profiles
  /\ expiresOf \in [Signatures -> Nat]
  /\ nonces \in [Signatures -> Nat \cup {NoTime}]
  /\ perKey \in Nat
  /\ accepted \in [Signatures -> Nat]

\* A verification under way knows its signature, which was in its window
\* when the verification began.
VerifierOK(me) ==
  me.pc # "free" =>
    /\ me.sig \in Signatures /\ me.at \in Nat
    /\ InWindow(me.sig, me.at) /\ Ticks * me.at <= ticks

VerifiersOK ==
  /\ DOMAIN verifier = Verifiers
  /\ \A v \in Verifiers :
       /\ verifier[v] = [pc |-> verifier[v].pc, sig |-> verifier[v].sig, at |-> verifier[v].at]
       /\ VerifierOK(verifier[v])

CountOK ==
  /\ IsFiniteSet(Entries) /\ Cardinality(Entries) <= perKey /\ perKey <= CapPerKey
  /\ profile = "wba" => perKey = Cardinality(Entries)

\* A signature accepted before keeps its entry until its window is over.
Remembered(s) ==
  /\ accepted[s] # 0 => ticks >= End(s) \/ (nonces[s] # NoTime /\ nonces[s] >= End(s))
  /\ ticks < End(s) => accepted[s] <= 1

OnceOK == profile = "wba" => \A s \in Signatures : Remembered(s)

ReplayInv == ReplayTypes /\ VerifiersOK /\ CountOK /\ OnceOK

\* A second that the clock is in, as ticks.
LEMMA SecondsAre ==
  ASSUME ReplayTypes
  PROVE  /\ seconds \in Nat /\ Ticks * seconds <= ticks
         /\ \A s \in Signatures : InWindow(s, seconds) <=> ticks < End(s)
<1>1. ticks \in Nat /\ Ticks \in Nat \ {0} /\ Skew \in Nat
  BY ReplayConstantsOK DEF ReplayTypes
<1>2. ASSUME NEW t \in Nat, NEW n \in Nat \ {0}
      PROVE  /\ t \div n \in Nat /\ n * (t \div n) <= t
             /\ \A x \in Int : (t \div n) < x <=> t < n * x
  OBVIOUS
<1>3. seconds \in Nat /\ Ticks * seconds <= ticks /\ \A x \in Int : seconds < x <=> ticks < Ticks * x
  BY <1>1, <1>2 DEF seconds
<1>4. ASSUME NEW s \in Signatures PROVE InWindow(s, seconds) <=> ticks < End(s)
  <2>1. expiresOf[s] \in Nat BY DEF ReplayTypes
  <2>2. expiresOf[s] + Skew + 1 \in Int BY <1>1, <2>1
  <2>3. seconds < expiresOf[s] + Skew + 1 <=> ticks < Ticks * (expiresOf[s] + Skew + 1)
    BY ONLY <1>3, <2>2, Zenon
  <2> QED BY <1>1, <1>3, <2>1, <2>3 DEF InWindow, End
<1> QED BY <1>3, <1>4

\* The store starts empty.
LEMMA ReplayInvInit == ReplayInit => ReplayInv
<1> SUFFICES ASSUME ReplayInit PROVE ReplayInv OBVIOUS
<1>1. ReplayTypes BY ReplayConstantsOK DEF ReplayInit, ReplayTypes
<1>2. VerifiersOK BY DEF ReplayInit, VerifiersOK, VerifierOK, Free
<1>3. Entries = {} BY DEF ReplayInit, Entries
<1>4. CountOK BY <1>3, FS_EmptySet, ReplayConstantsOK DEF ReplayInit, CountOK
<1>5. OnceOK
  <2>1. ASSUME NEW s \in Signatures PROVE Remembered(s)
    BY DEF ReplayInit, Remembered
  <2> QED BY <2>1 DEF OnceOK
<1> QED BY <1>1, <1>2, <1>4, <1>5 DEF ReplayInv

\* A sweep keeps the entries that are not over, and its count is right.
LEMMA SweepExact ==
  ASSUME ReplayInv
  PROVE  /\ Sweep \in [Signatures -> Nat \cup {NoTime}]
         /\ \A s \in Signatures : Sweep[s] # NoTime <=> s \in Left.entries
         /\ \A s \in Left.entries : s \in Signatures /\ Sweep[s] = nonces[s]
         /\ \A s \in Signatures : s \in Left.entries <=> nonces[s] # NoTime /\ ticks <= nonces[s]
         /\ IsFiniteSet(Left.entries) /\ Left.count \in Nat
         /\ Cardinality(Left.entries) <= Left.count /\ Left.count <= perKey
         /\ profile = "wba" => Left.count = Cardinality(Left.entries)
<1> DEFINE live == {s \in Entries : ticks <= nonces[s]}
           dead == Cardinality(Entries \ live)
<1>1. Left.entries = live /\ Left.count = IF dead > perKey THEN 0 ELSE perKey - dead
  BY DEF Left
<1>2. /\ IsFiniteSet(Entries) /\ IsFiniteSet(live) /\ IsFiniteSet(Entries \ live)
      /\ Cardinality(Entries) \in Nat /\ Cardinality(live) \in Nat /\ dead \in Nat
  <2>1. live \in SUBSET Entries /\ Entries \ live \in SUBSET Entries OBVIOUS
  <2>2. IsFiniteSet(Entries) BY DEF ReplayInv, CountOK
  <2>3. IsFiniteSet(live) /\ IsFiniteSet(Entries \ live) BY <2>1, <2>2, FS_Subset
  <2> HIDE DEF live
  <2>4. Cardinality(Entries) \in Nat BY <2>2, FS_CardinalityType
  <2>5. Cardinality(live) \in Nat BY <2>3, FS_CardinalityType
  <2>6. Cardinality(Entries \ live) \in Nat BY <2>3, FS_CardinalityType
  <2> QED BY <2>2, <2>3, <2>4, <2>5, <2>6
<1>3. Cardinality(Entries) = Cardinality(live) + dead
  <2>1. live \cup (Entries \ live) = Entries /\ live \cap (Entries \ live) = {} OBVIOUS
  <2> HIDE DEF live
  <2>2. Cardinality(live \cup (Entries \ live)) =
          Cardinality(live) + Cardinality(Entries \ live) - Cardinality(live \cap (Entries \ live))
    BY <1>2, FS_Union
  <2>3. Cardinality({}) = 0 BY FS_EmptySet
  <2> QED BY <1>2, <2>1, <2>2, <2>3
<1>4. perKey \in Nat /\ Cardinality(Entries) <= perKey /\ (profile = "wba" => perKey = Cardinality(Entries))
  BY DEF ReplayInv, ReplayTypes, CountOK
<1>5. /\ Left.count \in Nat /\ Cardinality(live) <= Left.count /\ Left.count <= perKey
      /\ profile = "wba" => Left.count = Cardinality(live)
  <2> HIDE DEF live, dead
  <2> QED BY <1>1, <1>2, <1>3, <1>4
<1>6. /\ \A s \in Signatures : s \in live <=> nonces[s] # NoTime /\ ticks <= nonces[s]
      /\ live \subseteq Signatures
  BY DEF Entries
<1> HIDE DEF live, dead
<1>7. /\ Sweep \in [Signatures -> Nat \cup {NoTime}]
      /\ \A s \in Signatures : Sweep[s] = IF s \in live THEN nonces[s] ELSE NoTime
  BY <1>1 DEF Sweep, ReplayInv, ReplayTypes
<1> QED BY <1>1, <1>2, <1>5, <1>6, <1>7

\* A verification moves on, or starts, and the store is as it was.
LEMMA VerifierStep ==
  ASSUME ReplayInv, NEW v \in Verifiers, NEW pc, NEW sig, NEW t,
         verifier' = [verifier EXCEPT ![v] = [pc |-> pc, sig |-> sig, at |-> t]],
         VerifierOK([pc |-> pc, sig |-> sig, at |-> t]),
         UNCHANGED <<ticks, profile, expiresOf, nonces, perKey, accepted>>
  PROVE  ReplayInv'
<1>1. ReplayTypes' BY DEF ReplayInv, ReplayTypes
<1>2. VerifiersOK' BY DEF ReplayInv, VerifiersOK, VerifierOK, InWindow
<1>3. CountOK' BY DEF ReplayInv, CountOK, Entries
<1>4. OnceOK' BY DEF ReplayInv, OnceOK, Remembered, End
<1> QED BY <1>1, <1>2, <1>3, <1>4 DEF ReplayInv

\* Where a verification goes next is a verification under way, or none.
LEMMA GotoOK ==
  ASSUME ReplayInv, NEW v \in Verifiers, NEW pc, verifier[v].pc # "free"
  PROVE  \E sig, t :
           /\ Goto(v, pc) => verifier' = [verifier EXCEPT ![v] = [pc |-> pc, sig |-> sig, at |-> t]]
           /\ VerifierOK([pc |-> pc, sig |-> sig, at |-> t])
<1>1. CASE pc = "free"
  <2>1. VerifierOK([pc |-> pc, sig |-> NoTime, at |-> 0]) BY <1>1 DEF VerifierOK
  <2>2. Goto(v, pc) => verifier' = [verifier EXCEPT ![v] = [pc |-> pc, sig |-> NoTime, at |-> 0]]
    BY <1>1 DEF Goto, Free
  <2> QED BY <2>1, <2>2
<1>2. CASE pc # "free"
  <2> DEFINE me == verifier[v]
  <2>1. me = [pc |-> me.pc, sig |-> me.sig, at |-> me.at] /\ VerifierOK(me)
    BY DEF ReplayInv, VerifiersOK
  <2>2. VerifierOK([pc |-> pc, sig |-> me.sig, at |-> me.at]) BY <2>1 DEF VerifierOK
  <2>3. [me EXCEPT !.pc = pc] = [pc |-> pc, sig |-> me.sig, at |-> me.at]
    <3> HIDE DEF me
    <3> QED BY <2>1
  <2>4. Goto(v, pc) => verifier' = [verifier EXCEPT ![v] = [pc |-> pc, sig |-> me.sig, at |-> me.at]]
    BY <1>2, <2>3 DEF Goto, ReplayInv, VerifiersOK
  <2> QED BY <2>2, <2>4
<1> QED BY <1>1, <1>2

\* Verifications stay sound when one of them moves on and no time passes.
LEMMA VerifiersMove ==
  ASSUME ReplayInv, NEW v \in Verifiers, NEW pc, verifier[v].pc # "free", Goto(v, pc),
         UNCHANGED <<ticks, expiresOf>>
  PROVE  VerifiersOK'
<1>1. PICK sig, t : /\ verifier' = [verifier EXCEPT ![v] = [pc |-> pc, sig |-> sig, at |-> t]]
                    /\ VerifierOK([pc |-> pc, sig |-> sig, at |-> t])
  BY GotoOK
<1> QED BY <1>1 DEF ReplayInv, VerifiersOK, VerifierOK, InWindow

\* A sweep alone: an entry it drops belongs to a window that is over.
LEMMA SweepStep ==
  ASSUME ReplayInv, nonces' = Sweep, perKey' = Left.count,
         UNCHANGED <<ticks, profile, expiresOf, accepted>>
  PROVE  ReplayTypes' /\ CountOK' /\ OnceOK'
<1>1. ReplayTypes' BY SweepExact DEF ReplayInv, ReplayTypes
<1>2. Entries' = Left.entries BY SweepExact DEF Entries
<1>3. CountOK' BY <1>2, SweepExact, ReplayConstantsOK DEF ReplayInv, ReplayTypes, CountOK
<1>4. ASSUME profile = "wba", NEW s \in Signatures PROVE Remembered(s)'
  <2>1. End(s)' = End(s) BY DEF End
  <2>2. Remembered(s) BY <1>4 DEF ReplayInv, OnceOK
  <2>3. /\ ticks \in Nat /\ End(s) \in Nat /\ nonces[s] \in Nat \cup {NoTime}
    BY ReplayConstantsOK DEF ReplayInv, ReplayTypes, End
  <2>4. nonces[s] # NoTime /\ ticks <= nonces[s] => nonces'[s] = nonces[s] BY SweepExact
  <2>5. CASE accepted[s] # 0 /\ ~(ticks >= End(s))
    <3>1. nonces[s] # NoTime /\ nonces[s] >= End(s) BY <2>2, <2>5 DEF Remembered
    <3>2. nonces'[s] = nonces[s] BY <2>3, <2>4, <2>5, <3>1
    <3> QED BY <2>1, <2>2, <3>1, <3>2 DEF Remembered
  <2>6. CASE accepted[s] = 0 \/ ticks >= End(s) BY <2>1, <2>2, <2>6 DEF Remembered
  <2> QED BY <2>5, <2>6
<1>5. OnceOK' BY <1>4 DEF OnceOK
<1> QED BY <1>1, <1>3, <1>5

\* How long an entry is kept: never less than nothing, and by the Web Bot
\* Auth verifier through the last tick of the window.
LEMMA LifetimeCovers ==
  ASSUME ReplayTypes, NEW s \in Signatures, NEW t \in Nat, InWindow(s, t), Ticks * t <= ticks
  PROVE  /\ ticks + Ticks * lifetime(s, t) \in Nat
         /\ profile = "wba" => ticks + Ticks * lifetime(s, t) >= End(s)
<1> DEFINE d == expiresOf[s] - t + Skew
<1>1. /\ Ticks \in Nat /\ Skew \in Nat /\ ticks \in Nat /\ expiresOf[s] \in Nat /\ d \in Nat
  BY ReplayConstantsOK DEF ReplayTypes, InWindow
<1>2. lifetime(s, t) \in Nat /\ (profile = "wba" => lifetime(s, t) = d + 1)
  BY <1>1 DEF lifetime
<1>3. ASSUME NEW n \in Nat PROVE Ticks * n \in Nat BY <1>1
<1>4. ASSUME NEW x \in Int, NEW y \in Int PROVE Ticks * (x - y) = Ticks * x - Ticks * y BY <1>1
<1>5. ASSUME profile = "wba" PROVE ticks + Ticks * lifetime(s, t) >= End(s)
  <2>1. lifetime(s, t) = (expiresOf[s] + Skew + 1) - t BY <1>1, <1>2, <1>5
  <2>2. expiresOf[s] + Skew + 1 \in Nat BY <1>1
  <2>3. Ticks * ((expiresOf[s] + Skew + 1) - t) = Ticks * (expiresOf[s] + Skew + 1) - Ticks * t
    <3>1. expiresOf[s] + Skew + 1 \in Int /\ t \in Int BY <2>2
    <3> QED BY ONLY <1>4, <3>1, Zenon
  <2>4. Ticks * (expiresOf[s] + Skew + 1) \in Nat /\ Ticks * t \in Nat BY <1>3, <2>2
  <2>5. End(s) = Ticks * (expiresOf[s] + Skew + 1) BY DEF End
  <2>6. Ticks * lifetime(s, t) = End(s) - Ticks * t BY <2>1, <2>3, <2>5
  <2> QED BY ONLY <1>1, <2>4, <2>5, <2>6, Ticks * t <= ticks
<1>6. ticks + Ticks * lifetime(s, t) \in Nat BY <1>1, <1>2, <1>3
<1> QED BY <1>5, <1>6

\* A signature is accepted and its nonce entered.
LEMMA AcceptStep ==
  ASSUME ReplayInv, NEW s \in Signatures, NEW t \in Nat, InWindow(s, t), Ticks * t <= ticks,
         Left.count < CapPerKey, profile = "wba" => s \notin Left.entries,
         nonces' = [Sweep EXCEPT ![s] = ticks + Ticks * lifetime(s, t)],
         perKey' = Left.count + 1,
         accepted' = [accepted EXCEPT ![s] = @ + 1],
         UNCHANGED <<ticks, profile, expiresOf>>
  PROVE  ReplayTypes' /\ CountOK' /\ OnceOK'
<1> DEFINE n == ticks + Ticks * lifetime(s, t)
<1>n. n \in Nat /\ n # NoTime /\ (profile = "wba" => n >= End(s))
  BY LifetimeCovers, ReplayConstantsOK DEF ReplayInv
<1> HIDE DEF n
<1>1. nonces' = [Sweep EXCEPT ![s] = n] BY DEF n
<1>2. ReplayTypes' BY <1>1, <1>n, SweepExact DEF ReplayInv, ReplayTypes
<1>3. Entries' = Left.entries \cup {s} BY <1>1, <1>n, SweepExact DEF Entries
<1>4. /\ IsFiniteSet(Left.entries \cup {s})
      /\ Cardinality(Left.entries \cup {s}) =
           IF s \in Left.entries THEN Cardinality(Left.entries) ELSE Cardinality(Left.entries) + 1
      /\ Cardinality(Left.entries) \in Nat
  BY SweepExact, FS_AddElement, FS_CardinalityType
<1>5. CountOK'
  BY <1>3, <1>4, SweepExact, ReplayConstantsOK DEF ReplayInv, ReplayTypes, CountOK
<1>6. ASSUME profile = "wba", NEW r \in Signatures PROVE Remembered(r)'
  <2>1. End(r)' = End(r) BY DEF End
  <2>2. Remembered(r) BY <1>6 DEF ReplayInv, OnceOK
  <2>3. /\ ticks \in Nat /\ End(r) \in Nat /\ nonces[r] \in Nat \cup {NoTime} /\ accepted[r] \in Nat
    BY ReplayConstantsOK DEF ReplayInv, ReplayTypes, End
  <2>4. CASE r = s
    <3>1. accepted[s] # 0 => ticks >= End(s)
      <4> SUFFICES ASSUME accepted[s] # 0, ~(ticks >= End(s)) PROVE FALSE OBVIOUS
      <4>1. nonces[s] # NoTime /\ nonces[s] >= End(s) BY <2>2, <2>4 DEF Remembered
      <4>2. s \in Left.entries BY <2>3, <2>4, <4>1, SweepExact
      <4> QED BY <1>6, <4>2
    <3>2. accepted'[s] = accepted[s] + 1 /\ nonces'[s] = n
      BY <1>1, SweepExact DEF ReplayInv, ReplayTypes
    <3> QED BY <1>6, <1>n, <2>1, <2>3, <2>4, <3>1, <3>2 DEF Remembered
  <2>5. CASE r # s
    <3>1. accepted'[r] = accepted[r] /\ nonces'[r] = Sweep[r]
      BY <1>1, <2>5, SweepExact DEF ReplayInv, ReplayTypes
    <3>2. nonces[r] # NoTime /\ ticks <= nonces[r] => nonces'[r] = nonces[r] BY <3>1, SweepExact
    <3>3. CASE accepted[r] # 0 /\ ~(ticks >= End(r))
      <4>1. nonces[r] # NoTime /\ nonces[r] >= End(r) BY <2>2, <3>3 DEF Remembered
      <4>2. nonces'[r] = nonces[r] BY <2>3, <3>2, <3>3, <4>1
      <4> QED BY <2>1, <2>2, <3>1, <4>1, <4>2 DEF Remembered
    <3>4. CASE accepted[r] = 0 \/ ticks >= End(r) BY <2>1, <2>2, <3>1, <3>4 DEF Remembered
    <3> QED BY <3>3, <3>4
  <2> QED BY <2>4, <2>5
<1>7. OnceOK' BY <1>6 DEF OnceOK
<1> QED BY <1>2, <1>5, <1>7

\* Every step of the verifiers and the clock keeps the invariant.
LEMMA ReplayInvNext == ReplayInv /\ [ReplayNext]_replayVars => ReplayInv'
<1> SUFFICES ASSUME ReplayInv, [ReplayNext]_replayVars PROVE ReplayInv' OBVIOUS
<1>1. ASSUME NEW v \in Verifiers, NEW s \in Signatures, Begin(v, s) PROVE ReplayInv'
  <2>1. VerifierOK([pc |-> First(profile), sig |-> s, at |-> seconds])
    BY <1>1, SecondsAre DEF Begin, VerifierOK, ReplayInv
  <2> QED BY <1>1, <2>1, VerifierStep DEF Begin
<1>2. ASSUME UNCHANGED replayVars PROVE ReplayInv'
  <2>1. ReplayTypes' BY <1>2 DEF ReplayInv, ReplayTypes, replayVars
  <2>2. VerifiersOK' BY <1>2 DEF ReplayInv, VerifiersOK, VerifierOK, InWindow, replayVars
  <2>3. CountOK' BY <1>2 DEF ReplayInv, CountOK, Entries, replayVars
  <2>4. OnceOK' BY <1>2 DEF ReplayInv, OnceOK, Remembered, End, replayVars
  <2> QED BY <2>1, <2>2, <2>3, <2>4 DEF ReplayInv
<1>3. ASSUME NEW v \in Verifiers, HitCap(v) PROVE ReplayInv'
  <2> DEFINE pc == IF perKey >= CapPerKey THEN "free" ELSE AfterCap(profile)
  <2>1. Goto(v, pc) /\ verifier[v].pc # "free" BY <1>3 DEF HitCap
  <2> HIDE DEF pc
  <2>2. VerifiersOK' BY <1>3, <2>1, VerifiersMove DEF HitCap
  <2>3. UNCHANGED <<ticks, profile, expiresOf, nonces, perKey, accepted>> BY <1>3 DEF HitCap
  <2>4. ReplayTypes' BY <2>3 DEF ReplayInv, ReplayTypes
  <2>5. CountOK' BY <2>3 DEF ReplayInv, CountOK, Entries
  <2>6. OnceOK' BY <2>3 DEF ReplayInv, OnceOK, Remembered, End
  <2> QED BY <2>2, <2>4, <2>5, <2>6 DEF ReplayInv
<1>4. ASSUME NEW v \in Verifiers, Seen(v) PROVE ReplayInv'
  <2> DEFINE pc == IF verifier[v].sig \in Left.entries THEN "free" ELSE AfterSeen(profile)
  <2>1. Goto(v, pc) /\ verifier[v].pc # "free" BY <1>4 DEF Seen
  <2> HIDE DEF pc
  <2>2. VerifiersOK' BY <1>4, <2>1, VerifiersMove DEF Seen
  <2>3. ReplayTypes' /\ CountOK' /\ OnceOK' BY <1>4, SweepStep DEF Seen
  <2> QED BY <2>2, <2>3 DEF ReplayInv
<1>5. ASSUME NEW v \in Verifiers, Record(v) PROVE ReplayInv'
  <2> DEFINE me == verifier[v]
  <2>1. me.pc # "free" /\ VerifierOK(me) /\ Goto(v, "free") /\ UNCHANGED <<ticks, profile, expiresOf>>
    BY <1>5 DEF Record, ReplayInv, VerifiersOK
  <2>2. VerifiersOK' BY <2>1, VerifiersMove
  <2>3. me.sig \in Signatures /\ me.at \in Nat /\ InWindow(me.sig, me.at) /\ Ticks * me.at <= ticks
    BY <2>1 DEF VerifierOK
  <2>4. CASE nonces' = Sweep /\ perKey' = Left.count /\ UNCHANGED accepted
    BY <2>1, <2>2, <2>4, SweepStep DEF ReplayInv
  <2>5. CASE /\ Left.count < CapPerKey /\ (profile = "wba" => me.sig \notin Left.entries)
             /\ nonces' = [Sweep EXCEPT ![me.sig] = ticks + Ticks * lifetime(me.sig, me.at)]
             /\ perKey' = Left.count + 1
             /\ accepted' = [accepted EXCEPT ![me.sig] = @ + 1]
    <3> HIDE DEF me
    <3> QED BY <2>1, <2>2, <2>3, <2>5, AcceptStep DEF ReplayInv
  <2> QED BY <1>5, <2>4, <2>5 DEF Record
<1>6. CASE ReplayTick
  <2>1. /\ ticks \in Nat /\ ticks' = ticks + 1
        /\ UNCHANGED <<profile, expiresOf, nonces, perKey, verifier, accepted>>
    BY <1>6 DEF ReplayTick, ReplayInv, ReplayTypes
  <2>2. ReplayTypes' BY <2>1 DEF ReplayInv, ReplayTypes
  <2>3. ASSUME NEW me, VerifierOK(me) PROVE VerifierOK(me)'
    <3>1. me.at \in Nat => Ticks * me.at \in Nat BY ReplayConstantsOK
    <3> QED BY <2>1, <2>3, <3>1 DEF VerifierOK, InWindow
  <2>4. VerifiersOK' BY <2>1, <2>3 DEF ReplayInv, VerifiersOK
  <2>5. CountOK' BY <2>1 DEF ReplayInv, CountOK, Entries
  <2>6. ASSUME NEW s \in Signatures, Remembered(s) PROVE Remembered(s)'
    <3>1. End(s)' = End(s) /\ End(s) \in Nat
      BY <2>1, ReplayConstantsOK DEF End, ReplayInv, ReplayTypes
    <3> QED BY <2>1, <2>6, <3>1 DEF Remembered
  <2>7. OnceOK' BY <2>1, <2>6 DEF ReplayInv, OnceOK
  <2> QED BY <2>2, <2>4, <2>5, <2>7 DEF ReplayInv
<1> QED BY <1>1, <1>2, <1>3, <1>4, <1>5, <1>6 DEF ReplayNext, Expired

\* For any number of concurrent verifications and any skew, expiry and
\* clock resolution: the Web Bot Auth verifier accepts copies of a request
\* at most once while its signature is within its window.
THEOREM AcceptedOnce == ReplaySpec => []OnceInWindow
<1>1. ReplayInv => OnceInWindow
  BY SecondsAre DEF ReplayInv, OnceOK, Remembered, OnceInWindow
<1> QED BY <1>1, ReplayInvInit, ReplayInvNext, PTL DEF ReplaySpec

\* For every cap: the per-key count covers the entries, never exceeds the
\* cap, and is exact under Claim.
THEOREM CountsCover == ReplaySpec => []CountCovers
<1>1. ReplayInv => CountCovers BY DEF ReplayInv, CountOK, CountCovers
<1> QED BY <1>1, ReplayInvInit, ReplayInvNext, PTL DEF ReplaySpec
-----------------------------------------------------------------------------
(* The revocation checker.                                                 *)

\* A check or the discovery: it has an object while it asks fresh, and an
\* answer only when it is answered.
Caller ==
  {x \in [pc : {"idle", "admit", "awaiting", "fresh", "waiting", "settle", "answered",
                "load", "admitting"},
          obj : Objects \cup {Missing}, since : Nat,
          err : {"none", "failed", "nolist", "history"},
          state : {"none", "current", "no_list"}] :
     /\ x.pc \in {"fresh", "waiting", "settle"} => x.obj \in Objects
     /\ x.pc \notin {"fresh", "waiting", "settle", "admitting"} => x.obj = Missing
     /\ x.state # "none" => x.pc = "answered"}

\* There is a list where one is being stored, or could not be.
Object ==
  {o \in [list : RevocationList \cup {Missing}, etag : BOOLEAN, lastAttempt : Int,
          unpersisted : BOOLEAN, ref : {"none", "fetch", "store"}] :
     (o.ref = "store" \/ o.unpersisted) => o.list # Missing}

RevocationTypes ==
  /\ time \in Nat /\ signed \in Seq(RevocationList)
  /\ history \in RevocationList \cup {Missing} /\ admitted \in Objects \cup {Missing}
  /\ objects \in [Objects -> Object] /\ caller \in [Callers -> Caller]
  /\ orphaned \in BOOLEAN

\* A list that is kept anywhere has the time of a signed list, and revokes
\* what that list revokes.
Backed(l) ==
  l # Missing => \E n \in 1 .. Len(signed) :
                   signed[n].updated = l.updated /\ signed[n].kids \subseteq l.kids

ListsBacked == Backed(history) /\ \A i \in Objects : Backed(objects[i].list)

\* There is a discovery only while no origin is admitted.
DiscoveryAlone ==
  /\ caller[Discoverer].pc # "awaiting"
  /\ caller[Discoverer].pc # "idle" => admitted = Missing

\* Until an origin is dropped in use, only the admitted object and the one
\* being discovered are used and refreshed.
UsersKnown ==
  ~orphaned => /\ \A c \in Checks : caller[c].obj \in {Missing, admitted}
               /\ \A i \in Objects :
                    objects[i].ref # "none" => i \in {admitted, caller[Discoverer].obj}

\* What the History revokes, the object being discovered revokes too.
SeedKept ==
  (~orphaned /\ caller[Discoverer].obj # Missing /\ Revokes(history)) =>
    Revokes(objects[caller[Discoverer].obj].list)

\* An object nothing refers to is free.
Swept == \A i \in Objects : ~Used(i, caller, admitted, objects) => objects[i] = Blank

RevocationInv ==
  /\ RevocationTypes /\ ListsBacked /\ DiscoveryAlone /\ UsersKnown /\ SeedKept /\ Swept
  /\ CurrentIsRecent

\* There is a list that vouches for the key now.
Recent ==
  \E n \in 1 .. Len(signed) :
    Key \notin signed[n].kids /\ time < NextUpdate(signed[n]) + grace

\* The callers the actions build.
LEMMA CallersBuilt ==
  /\ Resting \in Caller /\ Resting.obj = Missing /\ Resting.pc = "idle" /\ Resting.state = "none"
  /\ \A s : /\ Answered(s) \in Caller /\ Answered(s).obj = Missing
            /\ Answered(s).state = "current" => s = "current"
  /\ \A pc \in {"admit", "awaiting", "load"}, t \in Nat :
       /\ [Resting EXCEPT !.pc = pc] \in Caller /\ [Resting EXCEPT !.pc = pc].obj = Missing
       /\ [Resting EXCEPT !.pc = pc].state = "none" /\ [Resting EXCEPT !.pc = pc].pc = pc
       /\ [Resting EXCEPT !.pc = pc, !.since = t] \in Caller
       /\ [Resting EXCEPT !.pc = pc, !.since = t].obj = Missing
       /\ [Resting EXCEPT !.pc = pc, !.since = t].pc = pc
  /\ \A i \in Objects :
       /\ [Resting EXCEPT !.pc = "fresh", !.obj = i] \in Caller
       /\ [Resting EXCEPT !.pc = "fresh", !.obj = i].obj = i
       /\ [Resting EXCEPT !.pc = "fresh", !.obj = i].state = "none"
BY DEF Resting, Caller, Answered

\* The objects after a step: one that is used is as the step made it, the
\* others are free.
Remain(obj) ==
  /\ objects' \in [Objects -> Object]
  /\ \A i \in Objects :
       objects'[i] = IF Used(i, caller', admitted', obj) THEN obj[i] ELSE Blank

LEMMA BecomeRemains ==
  ASSUME NEW call, NEW adm, NEW obj \in [Objects -> Object], Become(call, adm, obj)
  PROVE  caller' = call /\ admitted' = adm /\ Remain(obj)
<1>1. Blank \in Object BY RevocationConstantsOK DEF Blank, Object
<1>2. \A i \in Objects : objects'[i] \in Object BY <1>1 DEF Become
<1> QED BY <1>2 DEF Become, Remain

\* What a step that leaves the clock and the origin alone has to do to keep
\* the invariant, and to take no revocation back.
LEMMA RevocationStep ==
  ASSUME RevocationInv, NEW obj \in [Objects -> Object], Remain(obj),
         time' = time, signed' = signed, orphaned' \in BOOLEAN,
         caller' \in [Callers -> Caller],
         history' \in RevocationList \cup {Missing}, admitted' \in Objects \cup {Missing},
         Backed(history'), \A i \in Objects : Backed(obj[i].list),
         \A c \in Checks : caller'[c].state = "current" => caller[c].state = "current" \/ Recent,
         DiscoveryAlone',
         ~orphaned' => /\ \A c \in Checks : caller'[c].obj \in {Missing, admitted'}
                       /\ \A i \in Objects :
                            obj[i].ref # "none" => i \in {admitted', caller'[Discoverer].obj},
         (~orphaned' /\ caller'[Discoverer].obj # Missing /\ Revokes(history')) =>
           Revokes(obj[caller'[Discoverer].obj].list),
         (Revokes(Retained) /\ ~orphaned') =>
           (IF admitted' # Missing THEN Revokes(obj[admitted'].list) ELSE Revokes(history'))
  PROVE  RevocationInv' /\ ((Revokes(Retained) /\ ~orphaned') => Revokes(Retained'))
<1> USE DEF RevocationInv
<1>b. Blank.list = Missing /\ Blank.ref = "none" BY DEF Blank
<1>d. Discoverer \in Callers /\ Checks \subseteq Callers BY DEF Callers
<1>o. caller'[Discoverer].obj \in Objects \cup {Missing} BY <1>d DEF Caller
<1>r. \A i \in Objects :
        /\ objects'[i] = obj[i] \/ objects'[i] = Blank
        /\ (i = admitted' \/ \E p \in Callers : caller'[p].obj = i) => objects'[i] = obj[i]
  BY DEF Remain, Used
<1>1. RevocationTypes' BY DEF RevocationTypes, Remain
<1>2. ListsBacked' BY <1>b, <1>r DEF ListsBacked, Backed
<1>3. UsersKnown' BY <1>b, <1>r DEF UsersKnown
<1>4. SeedKept' BY <1>d, <1>o, <1>r DEF SeedKept, Revokes
<1>s. Swept'
  <2> SUFFICES ASSUME NEW i \in Objects, objects'[i] # Blank
               PROVE  Used(i, caller', admitted', objects')
    BY DEF Swept
  <2>1. Used(i, caller', admitted', obj) /\ objects'[i] = obj[i] BY DEF Remain
  <2> QED BY <2>1 DEF Used
<1>5. CurrentIsRecent' BY DEF CurrentIsRecent, Recent, NextUpdate
<1>6. (Revokes(Retained) /\ ~orphaned') => Revokes(Retained')
  BY <1>r DEF Retained, Revokes
<1> QED BY <1>1, <1>2, <1>3, <1>4, <1>s, <1>5, <1>6
\* No step takes back a revocation that is held.
Monotonic == (Revokes(Retained) /\ ~orphaned') => Revokes(Retained')

\* A step in which only callers move.
LEMMA CallersMove ==
  ASSUME RevocationInv, caller' \in [Callers -> Caller],
         UNCHANGED <<time, signed, history, admitted, objects, orphaned>>,
         \A c \in Checks : /\ ~orphaned => caller'[c].obj \in {Missing, admitted}
                           /\ caller'[c].state = "current" => caller[c].state = "current" \/ Recent,
         \A p \in Callers : caller[p].obj # Missing => caller'[p].obj = caller[p].obj,
         caller'[Discoverer].obj = caller[Discoverer].obj,
         DiscoveryAlone'
  PROVE  RevocationInv' /\ Monotonic
<1> USE DEF RevocationInv
<1>1. Remain(objects)
  <2>1. ASSUME NEW i \in Objects, ~Used(i, caller', admitted', objects) PROVE objects[i] = Blank
    BY <2>1, RevocationConstantsOK DEF Used, Swept
  <2> QED BY <2>1 DEF RevocationTypes, Remain
<1>2. RevocationInv' /\ ((Revokes(Retained) /\ ~orphaned') => Revokes(Retained'))
  <2> HIDE DEF RevocationInv
  <2>1. /\ RevocationTypes /\ ListsBacked /\ UsersKnown /\ SeedKept BY DEF RevocationInv
  <2>2. (Revokes(Retained) /\ ~orphaned') =>
           (IF admitted' # Missing THEN Revokes(objects[admitted'].list) ELSE Revokes(history'))
    BY DEF Retained
  <2> QED BY <1>1, <2>1, <2>2, RevocationStep DEF RevocationTypes, ListsBacked, UsersKnown, SeedKept
<1> QED BY <1>2 DEF Monotonic

\* A check that begins, is admitted or returns.
LEMMA CheckSteps ==
  ASSUME RevocationInv, NEW c \in Checks, CheckBegins(c) \/ Admit(c) \/ CheckReturns(c)
  PROVE  RevocationInv' /\ Monotonic
<1>c. c \in Callers /\ c # Discoverer /\ Discoverer \in Callers /\ Checks \subseteq Callers
  BY RevocationConstantsOK DEF Callers
<1>t. /\ RevocationTypes /\ caller \in [Callers -> Caller] /\ time \in Nat
      /\ admitted \in Objects \cup {Missing}
  BY DEF RevocationInv, RevocationTypes
<1>u. UNCHANGED <<time, signed, history, admitted, objects, orphaned>> /\ caller[c].obj = Missing
  BY <1>c, <1>t DEF CheckBegins, Admit, CheckReturns, On, Caller
<1>1. ASSUME NEW x \in Caller, caller' = [caller EXCEPT ![c] = x], x.obj \in {Missing, admitted},
             x.state # "current"
      PROVE  RevocationInv' /\ Monotonic
  <2>1. caller' \in [Callers -> Caller] BY <1>1, <1>t
  <2>2. caller'[Discoverer] = caller[Discoverer] BY <1>1, <1>c, <1>t
  <2>3. caller'[c] = x /\ \A b \in Checks \ {c} : caller'[b] = caller[b] BY <1>1, <1>c, <1>t
  <2>4. DiscoveryAlone' BY <1>u, <2>2 DEF RevocationInv, DiscoveryAlone
  <2>5. \A p \in Callers : caller[p].obj # Missing => caller'[p].obj = caller[p].obj
    BY <1>1, <1>u, <1>t
  <2> QED BY <1>1, <1>u, <2>1, <2>2, <2>3, <2>4, <2>5, CallersMove DEF RevocationInv, UsersKnown
<1>a. \A s \in {"revoked", "unavailable", "no_list", "stale"} :
        Answered(s) \in Caller /\ Answered(s).obj = Missing /\ Answered(s).state # "current"
  BY DEF Answered, Resting, Caller
<1>r. \A x \in {Resting, [Resting EXCEPT !.pc = "admit"], [Resting EXCEPT !.pc = "awaiting"]} :
        x \in Caller /\ x.obj = Missing /\ x.state # "current"
  BY DEF Resting, Caller
<1>2. CASE CheckBegins(c) \/ CheckReturns(c)
  <2>1. PICK x : /\ x \in {Answered("revoked"), Answered("unavailable"), Resting, [Resting EXCEPT !.pc = "admit"]}
                 /\ caller' = [caller EXCEPT ![c] = x]
    BY <1>2 DEF CheckBegins, CheckReturns
  <2>2. x \in Caller /\ x.obj = Missing /\ x.state # "current" BY <1>a, <1>r, <2>1
  <2> QED BY <1>1, <2>1, <2>2
<1>3. CASE Admit(c)
  <2>1. CASE admitted # Missing
    <3>1. caller' = [caller EXCEPT ![c] = [Resting EXCEPT !.pc = "fresh", !.obj = admitted]]
      BY <1>3, <2>1 DEF Admit
    <3>2. PICK x \in Caller : x = [Resting EXCEPT !.pc = "fresh", !.obj = admitted]
                             /\ x.obj = admitted /\ x.state # "current"
      BY <1>t, <2>1, CallersBuilt
    <3> QED BY <1>1, <3>1, <3>2
  <2>2. CASE \E x \in {Answered("no_list"), Answered("stale"), [Resting EXCEPT !.pc = "awaiting"]} :
               caller' = [caller EXCEPT ![c] = x]
    <3>1. PICK x \in {Answered("no_list"), Answered("stale"), [Resting EXCEPT !.pc = "awaiting"]} :
            caller' = [caller EXCEPT ![c] = x]
      BY <2>2
    <3>2. x \in Caller /\ x.obj = Missing /\ x.state # "current" BY <1>a, <1>r, <3>1
    <3> QED BY <1>1, <3>1, <3>2
  <2>3. CASE /\ admitted = Missing /\ On(Discoverer, "idle")
             /\ caller' = [caller EXCEPT ![c] = [Resting EXCEPT !.pc = "awaiting"],
                                          ![Discoverer] = [Resting EXCEPT !.pc = "load", !.since = time]]
    <3>1. PICK x \in Caller, y \in Caller :
            /\ caller' = [caller EXCEPT ![c] = x, ![Discoverer] = y]
            /\ x.obj = Missing /\ x.state # "current" /\ y.obj = Missing /\ y.pc = "load"
      BY <1>t, <2>3, CallersBuilt
    <3>2. /\ caller' \in [Callers -> Caller] /\ caller'[c] = x /\ caller'[Discoverer] = y
          /\ \A b \in Checks \ {c} : caller'[b] = caller[b]
      BY <1>c, <1>t, <3>1, RevocationConstantsOK
    <3>3. caller[Discoverer].obj = Missing BY <1>c, <1>t, <2>3 DEF Caller, On
    <3>4. DiscoveryAlone' BY <1>u, <2>3, <3>1, <3>2 DEF DiscoveryAlone
    <3>5. \A p \in Callers : caller[p].obj # Missing => caller'[p].obj = caller[p].obj
      BY <1>u, <1>t, <3>1, <3>3
    <3> QED BY <1>u, <3>1, <3>2, <3>3, <3>4, <3>5, CallersMove DEF RevocationInv, UsersKnown
  <2> QED BY <1>3, <2>1, <2>2, <2>3 DEF Admit
<1> QED BY <1>2, <1>3
\* What fresh gives back: the discovery goes on with its object, a check is
\* answered.
LEMMA Leaves ==
  ASSUME RevocationInv, NEW p \in Callers, caller[p].pc \in {"fresh", "waiting", "settle"},
         NEW s, NEW err \in {"none", "failed", "nolist", "history"}
  PROVE  /\ Leave(p, s, err) \in Caller
         /\ p = Discoverer => Leave(p, s, err).obj = caller[p].obj /\ Leave(p, s, err).pc = "admitting"
         /\ p # Discoverer => /\ Leave(p, s, err).obj = Missing
                              /\ Leave(p, s, err).state = "current" => s = "current"
<1>1. caller[p] \in Caller /\ caller[p].state = "none" BY DEF RevocationInv, RevocationTypes, Caller
<1>2. CASE p = Discoverer BY <1>1, <1>2 DEF Leave, Caller
<1>3. CASE p # Discoverer
  <2>1. Leave(p, s, err) = Answered(s) BY <1>3 DEF Leave
  <2>2. Answered(s) \in Caller /\ Answered(s).obj = Missing /\ (Answered(s).state = "current" => s = "current")
    BY DEF Answered, Resting, Caller
  <2> QED BY <1>3, <2>1, <2>2
<1> QED BY <1>2, <1>3

\* A list that does not revoke the key and is within its grace vouches for it,
\* because a signed list does.
LEMMA Vouches ==
  ASSUME RevocationInv, NEW i \in Objects, objects[i].list # Missing, ~Revokes(objects[i].list),
         time < NextUpdate(objects[i].list) + grace
  PROVE  Recent
<1>1. PICK n \in 1 .. Len(signed) : /\ signed[n].updated = objects[i].list.updated
                                    /\ signed[n].kids \subseteq objects[i].list.kids
  BY DEF RevocationInv, ListsBacked, Backed
<1>2. NextUpdate(signed[n]) = NextUpdate(objects[i].list) BY <1>1 DEF NextUpdate
<1>3. Key \notin signed[n].kids BY <1>1 DEF Revokes
<1> QED BY <1>2, <1>3 DEF Recent

\* A step of fresh: its caller moves, and perhaps a refresh starts.
LEMMA FreshStep ==
  ASSUME RevocationInv, NEW p \in Callers, NEW x \in Caller, NEW obj \in [Objects -> Object],
         Become([caller EXCEPT ![p] = x], admitted, obj),
         UNCHANGED <<time, signed, history, orphaned>>,
         \A i \in Objects : /\ obj[i].list = objects[i].list
                            /\ obj[i].ref # "none" => objects[i].ref # "none" \/ i = caller[p].obj,
         p = Discoverer => x.obj = caller[p].obj /\ x.pc \notin {"idle", "load", "awaiting"}
                             /\ caller[p].pc # "idle",
         p # Discoverer => x.obj \in {Missing, caller[p].obj} /\ (x.state = "current" => Recent)
  PROVE  RevocationInv' /\ Monotonic
<1>t. RevocationTypes /\ ListsBacked /\ DiscoveryAlone /\ UsersKnown /\ SeedKept BY DEF RevocationInv
<1>c. Discoverer \in Callers /\ Checks \subseteq Callers /\ Discoverer \notin Checks
  BY RevocationConstantsOK DEF Callers
<1>1. caller' = [caller EXCEPT ![p] = x] /\ admitted' = admitted /\ Remain(obj) BY BecomeRemains
<1>2. /\ caller' \in [Callers -> Caller] /\ caller'[p] = x
      /\ \A b \in Callers \ {p} : caller'[b] = caller[b]
  BY <1>1, <1>t DEF RevocationTypes
<1>3. caller'[Discoverer].obj = caller[Discoverer].obj BY <1>2, <1>c
<1>4. DiscoveryAlone' BY <1>1, <1>2, <1>t, <1>c DEF DiscoveryAlone
<1>5. ~orphaned' => /\ \A c \in Checks : caller'[c].obj \in {Missing, admitted'}
                    /\ \A i \in Objects :
                         obj[i].ref # "none" => i \in {admitted', caller'[Discoverer].obj}
  <2> SUFFICES ASSUME ~orphaned PROVE /\ \A c \in Checks : caller'[c].obj \in {Missing, admitted}
                    /\ \A i \in Objects :
                         obj[i].ref # "none" => i \in {admitted, caller[Discoverer].obj}
    BY <1>1, <1>3
  <2>1. /\ \A c \in Checks : caller[c].obj \in {Missing, admitted}
        /\ \A i \in Objects : objects[i].ref # "none" => i \in {admitted, caller[Discoverer].obj}
    BY <1>t DEF UsersKnown
  <2>2. p # Discoverer => p \in Checks BY DEF Callers
  <2>3. \A c \in Checks : caller'[c].obj \in {Missing, admitted} BY <1>2, <1>c, <2>1, <2>2
  <2>4. ASSUME NEW i \in Objects, obj[i].ref # "none" PROVE i \in {admitted, caller[Discoverer].obj}
    BY <2>1, <2>2, <2>4, RevocationConstantsOK
  <2> QED BY <2>3, <2>4
<1>6. (~orphaned' /\ caller'[Discoverer].obj # Missing /\ Revokes(history')) =>
           Revokes(obj[caller'[Discoverer].obj].list)
  <2>1. caller[Discoverer].obj \in Objects \cup {Missing} BY <1>t, <1>c DEF RevocationTypes, Caller
  <2> QED BY <1>3, <1>t, <2>1 DEF SeedKept
<1>7. (Revokes(Retained) /\ ~orphaned') =>
        (IF admitted' # Missing THEN Revokes(obj[admitted'].list) ELSE Revokes(history'))
  BY <1>1, <1>t DEF Retained, RevocationTypes
<1>8. \A c \in Checks : caller'[c].state = "current" => caller[c].state = "current" \/ Recent
  BY <1>2, <1>c
<1>9. Backed(history') /\ \A i \in Objects : Backed(obj[i].list) BY <1>t DEF ListsBacked
<1> QED BY <1>1, <1>2, <1>4, <1>5, <1>6, <1>7, <1>8, <1>9, <1>t, RevocationStep
        DEF RevocationTypes, Monotonic
\* fresh, before and after the refresh, and a wait that is given up.
LEMMA FreshSteps ==
  ASSUME RevocationInv, NEW p \in Callers, Fresh(p) \/ Settle(p) \/ GivesUp(p)
  PROVE  RevocationInv' /\ Monotonic
<1> DEFINE i == caller[p].obj
           o == objects[i]
<1>t. /\ objects \in [Objects -> Object] /\ caller[p] \in Caller /\ time \in Nat
      /\ DiscoveryAlone /\ UNCHANGED <<time, signed, history, orphaned>>
  BY DEF RevocationInv, RevocationTypes, Fresh, Settle, GivesUp
<1>g. grace \in Nat /\ Interval \in Nat BY RevocationConstantsOK DEF grace
<1>1. ASSUME NEW x \in Caller, Become([caller EXCEPT ![p] = x], admitted, objects),
             caller[p].pc \in {"fresh", "waiting", "settle"}, NEW s,
             NEW err \in {"none", "failed", "nolist", "history"}, x = Leave(p, s, err),
             s = "current" => Recent
      PROVE  RevocationInv' /\ Monotonic
  BY <1>1, <1>t, Leaves, FreshStep
<1>2. CASE Fresh(p)
  <2>i. caller[p].pc = "fresh" /\ i \in Objects /\ o \in Object
    BY <1>2, <1>t DEF Fresh, On, Caller
  <2>1. CASE o.list # Missing /\ time < NextUpdate(o.list)
             /\ Become([caller EXCEPT ![p] = FreshReturns(p, o.list)], admitted, objects)
    <3> DEFINE s == IF Revokes(o.list) THEN "revoked" ELSE "current"
    <3>1. o.list \in RevocationList BY <2>1, <2>i DEF Object
    <3>2. time < NextUpdate(o.list) + grace
      <4>1. NextUpdate(o.list) \in Nat BY <1>g, <3>1 DEF NextUpdate, RevocationList
      <4> QED BY <1>g, <1>t, <2>1, <4>1
    <3>3. s = "current" => Recent BY <2>1, <2>i, <3>2, Vouches
    <3>4. FreshReturns(p, o.list) = Leave(p, s, "none") BY DEF FreshReturns
    <3>5. Leave(p, s, "none") \in Caller BY <2>i, Leaves
    <3> HIDE DEF s
    <3> QED BY <1>1, <2>1, <2>i, <3>3, <3>4, <3>5
  <2>2. CASE \E pc \in {"waiting", "settle"}, obj \in {objects, [objects EXCEPT ![i].ref = "fetch", ![i].lastAttempt = time]} :
               Become([caller EXCEPT ![p].pc = pc], admitted, obj)
    <3>1. PICK pc \in {"waiting", "settle"}, obj \in {objects, [objects EXCEPT ![i].ref = "fetch", ![i].lastAttempt = time]} :
               Become([caller EXCEPT ![p].pc = pc], admitted, obj)
      BY <2>2
    <3> DEFINE x == [caller[p] EXCEPT !.pc = pc]
    <3>2. x \in Caller /\ x.obj = i /\ x.pc = pc /\ x.state # "current" BY <1>t, <2>i DEF Caller
    <3>3. [caller EXCEPT ![p].pc = pc] = [caller EXCEPT ![p] = x] OBVIOUS
    <3>4. /\ obj \in [Objects -> Object]
          /\ \A j \in Objects : /\ obj[j].list = objects[j].list
                                /\ obj[j].ref # "none" => objects[j].ref # "none" \/ j = i
      BY <1>t, <2>i DEF Object
    <3> HIDE DEF x
    <3> QED BY <1>t, <2>i, <3>1, <3>2, <3>3, <3>4, FreshStep
  <2> QED BY <1>2, <2>1, <2>2 DEF Fresh
<1>3. CASE Settle(p)
  <2>i. caller[p].pc = "settle" /\ i \in Objects /\ o \in Object /\ caller[p].err \in {"none", "failed", "nolist", "history"}
    BY <1>3, <1>t DEF Settle, On, Caller
  <2>1. CASE \E err \in {"failed", "nolist", "history"} :
               Become([caller EXCEPT ![p] = FreshFails(p, o.list, err)], admitted, objects)
    <3>1. PICK err \in {"failed", "nolist", "history"} :
            Become([caller EXCEPT ![p] = FreshFails(p, o.list, err)], admitted, objects)
      BY <2>1
    <3>2. PICK s \in {"revoked", "stale"} : FreshFails(p, o.list, err) = Leave(p, s, err) BY DEF FreshFails
    <3>3. Leave(p, s, err) \in Caller BY <2>i, Leaves
    <3> QED BY <1>1, <2>i, <3>1, <3>2, <3>3
  <2>2. CASE o.list # Missing /\ ~(time >= NextUpdate(o.list) + grace)
             /\ Become([caller EXCEPT ![p] = FreshReturns(p, o.list)], admitted, objects)
    <3> DEFINE s == IF Revokes(o.list) THEN "revoked" ELSE "current"
    <3>1. o.list \in RevocationList BY <2>2, <2>i DEF Object
    <3>2. time < NextUpdate(o.list) + grace
      <4>1. NextUpdate(o.list) \in Nat BY <1>g, <3>1 DEF NextUpdate, RevocationList
      <4> QED BY <1>g, <1>t, <2>2, <4>1
    <3>3. s = "current" => Recent BY <2>2, <2>i, <3>2, Vouches
    <3>4. FreshReturns(p, o.list) = Leave(p, s, "none") BY DEF FreshReturns
    <3>5. Leave(p, s, "none") \in Caller BY <2>i, Leaves
    <3> HIDE DEF s
    <3> QED BY <1>1, <2>2, <2>i, <3>3, <3>4, <3>5
  <2> QED BY <1>3, <2>1, <2>2, <2>i DEF Settle
<1>4. CASE GivesUp(p)
  <2>1. CASE On(p, "awaiting") /\ Become([caller EXCEPT ![p] = Answered("stale")], admitted, objects)
    <3>1. p # Discoverer BY <1>t, <2>1 DEF DiscoveryAlone, On
    <3>2. Answered("stale") \in Caller /\ Answered("stale").obj = Missing /\ Answered("stale").state # "current"
      BY DEF Answered, Resting, Caller
    <3> QED BY <1>t, <2>1, <3>1, <3>2, FreshStep
  <2>2. CASE On(p, "waiting") /\ Become([caller EXCEPT ![p] = FreshFails(p, o.list, "failed")], admitted, objects)
    <3>1. PICK s \in {"revoked", "stale"} : FreshFails(p, o.list, "failed") = Leave(p, s, "failed")
      BY DEF FreshFails
    <3>2. caller[p].pc = "waiting" BY <2>2 DEF On
    <3>3. Leave(p, s, "failed") \in Caller BY <3>2, Leaves
    <3> QED BY <1>1, <2>2, <3>1, <3>2, <3>3
  <2> QED BY <1>4, <2>1, <2>2 DEF GivesUp
<1> QED BY <1>2, <1>3, <1>4
\* Retain loses no revocation and makes none up.
LEMMA Retains ==
  ASSUME NEW l \in RevocationList, NEW previous \in RevocationList \cup {Missing}, Backed(l)
  PROVE  /\ Retain(l, previous) \in RevocationList /\ Backed(Retain(l, previous))
         /\ Retain(l, previous) # Missing
         /\ Revokes(previous) => Revokes(Retain(l, previous))
         /\ Revokes(l) => Revokes(Retain(l, previous))
         /\ Revokes(Retain(l, previous)) => Revokes(previous) \/ Revokes(l)
<1>m. l # Missing BY RevocationConstantsOK
<1>1. CASE previous = Missing BY <1>1, <1>m DEF Retain, Revokes
<1>2. CASE previous # Missing
  <2> DEFINE r == Retain(l, previous)
  <2>1. r \in RevocationList /\ r.updated = l.updated /\ r.kids = l.kids \cup previous.kids
    BY <1>2 DEF Retain, RevocationList
  <2>2. r # Missing BY <2>1, RevocationConstantsOK
  <2> HIDE DEF r
  <2>3. Backed(r) BY <1>m, <2>1 DEF Backed
  <2>4. Revokes(r) <=> (Revokes(previous) \/ Revokes(l)) BY <1>2, <1>m, <2>1, <2>2 DEF Revokes
  <2> QED BY <2>1, <2>2, <2>3, <2>4 DEF r
<1> QED BY <1>1, <1>2

\* Nor does the History.
LEMMA Merges ==
  ASSUME RevocationInv, NEW l \in RevocationList, Backed(l)
  PROVE  /\ Merged(l) \in RevocationList \cup {Missing} /\ Backed(Merged(l))
         /\ Revokes(history) => Revokes(Merged(l))
         /\ Revokes(Merged(l)) => Revokes(history) \/ Revokes(l)
<1>1. history \in RevocationList \cup {Missing} /\ Backed(history)
  BY DEF RevocationInv, RevocationTypes, ListsBacked
<1>2. CASE history = Missing BY <1>2 DEF Merged, Revokes, Backed
<1>3. CASE history # Missing
  <2>1. Merged(l) \in {Retain(history, l), Retain(l, history)} BY <1>3 DEF Merged
  <2> QED BY <1>1, <1>3, <2>1, Retains
<1> QED BY <1>2, <1>3

\* The end of a refresh wakes who waits for it and moves nobody else.
LEMMA Wakes ==
  ASSUME RevocationInv, NEW i, NEW err \in {"none", "failed", "nolist"},
         NEW call \in {caller, Woken(i, err)}
  PROVE  /\ call \in [Callers -> Caller]
         /\ \A p \in Callers : /\ call[p].obj = caller[p].obj /\ call[p].state = caller[p].state
                               /\ call[p].pc = caller[p].pc
                                    \/ (caller[p].pc = "waiting" /\ call[p].pc = "settle")
<1>1. caller \in [Callers -> Caller] BY DEF RevocationInv, RevocationTypes
<1>2. ASSUME NEW x \in Caller, x.pc = "waiting"
      PROVE  /\ [x EXCEPT !.pc = "settle", !.err = err] \in Caller
             /\ [x EXCEPT !.pc = "settle", !.err = err].obj = x.obj
             /\ [x EXCEPT !.pc = "settle", !.err = err].state = x.state
             /\ [x EXCEPT !.pc = "settle", !.err = err].pc = "settle"
  BY <1>2 DEF Caller
<1>3. CASE call = caller BY <1>1, <1>3
<1>4. CASE call = Woken(i, err)
  <2>1. ASSUME NEW p \in Callers
        PROVE  /\ call[p] \in Caller /\ call[p].obj = caller[p].obj /\ call[p].state = caller[p].state
               /\ call[p].pc = caller[p].pc \/ (caller[p].pc = "waiting" /\ call[p].pc = "settle")
    <3>1. CASE On(p, "waiting") /\ caller[p].obj = i BY <1>1, <1>2, <1>4, <3>1 DEF Woken, On
    <3>2. CASE ~(On(p, "waiting") /\ caller[p].obj = i)
      <4>1. call[p] = caller[p] BY <1>4, <3>2 DEF Woken
      <4> QED BY <1>1, <4>1
    <3> QED BY <3>1, <3>2
  <2>2. call = [p \in Callers |-> call[p]] BY <1>4 DEF Woken
  <2> QED BY <2>1, <2>2
<1> QED BY <1>3, <1>4

\* A step of the refresh of object i, which leaves it as y.
LEMMA RefreshStep ==
  ASSUME RevocationInv, NEW i \in Objects, objects[i].ref # "none", NEW y \in Object,
         NEW err \in {"none", "failed", "nolist"}, NEW call \in {caller, Woken(i, err)},
         Become(call, admitted, [objects EXCEPT ![i] = y]),
         UNCHANGED <<time, signed, orphaned>>,
         Backed(y.list), Revokes(objects[i].list) => Revokes(y.list),
         history' = history \/ (y.list \in RevocationList /\ history' = Merged(y.list))
  PROVE  RevocationInv' /\ Monotonic
<1> DEFINE obj == [objects EXCEPT ![i] = y]
<1>t. /\ RevocationTypes /\ ListsBacked /\ DiscoveryAlone /\ UsersKnown /\ SeedKept
      /\ objects \in [Objects -> Object] /\ admitted \in Objects \cup {Missing}
  BY DEF RevocationInv, RevocationTypes
<1>c. Discoverer \in Callers /\ Checks \subseteq Callers BY DEF Callers
<1>o. /\ obj \in [Objects -> Object] /\ obj[i] = y
      /\ \A j \in Objects \ {i} : obj[j] = objects[j]
  BY <1>t
<1> HIDE DEF obj
<1>1. caller' = call /\ admitted' = admitted /\ Remain(obj) BY <1>o, BecomeRemains DEF obj
<1>2. /\ caller' \in [Callers -> Caller]
      /\ \A p \in Callers : /\ caller'[p].obj = caller[p].obj /\ caller'[p].state = caller[p].state
                            /\ caller'[p].pc = caller[p].pc
                                 \/ (caller[p].pc = "waiting" /\ caller'[p].pc = "settle")
  BY <1>1, Wakes
<1>3. /\ history' \in RevocationList \cup {Missing} /\ Backed(history')
      /\ Revokes(history) => Revokes(history')
      /\ Revokes(history') => Revokes(history) \/ Revokes(y.list)
  BY <1>t, Merges DEF RevocationTypes, ListsBacked
<1>4. DiscoveryAlone' BY <1>1, <1>2, <1>c, <1>t DEF DiscoveryAlone
<1>5. ~orphaned' => /\ \A c \in Checks : caller'[c].obj \in {Missing, admitted'}
                    /\ \A j \in Objects :
                         obj[j].ref # "none" => j \in {admitted', caller'[Discoverer].obj}
  BY <1>1, <1>2, <1>c, <1>o, <1>t DEF UsersKnown
<1>6. ASSUME ~orphaned', caller'[Discoverer].obj # Missing, Revokes(history')
      PROVE  Revokes(obj[caller'[Discoverer].obj].list)
  <2>1. caller[Discoverer].obj # Missing /\ caller[Discoverer].obj \in Objects \cup {Missing}
    BY <1>2, <1>6, <1>c, <1>t DEF RevocationTypes, Caller
  <2>2. admitted = Missing
    <3>1. caller[Discoverer].pc # "idle" BY <2>1, <1>c, <1>t DEF RevocationTypes, Caller
    <3> QED BY <3>1, <1>t DEF DiscoveryAlone
  <2>3. caller[Discoverer].obj = i BY <1>6, <1>t, <2>2, RevocationConstantsOK DEF UsersKnown
  <2>4. Revokes(history) => Revokes(objects[i].list) BY <1>6, <1>t, <2>1, <2>3 DEF SeedKept
  <2> QED BY <1>2, <1>3, <1>6, <1>c, <1>o, <2>3, <2>4
<1>7. (Revokes(Retained) /\ ~orphaned') =>
        (IF admitted' # Missing THEN Revokes(obj[admitted'].list) ELSE Revokes(history'))
  BY <1>1, <1>3, <1>o, <1>t DEF Retained
<1>8. \A j \in Objects : Backed(obj[j].list) BY <1>o, <1>t DEF ListsBacked
<1>9. \A c \in Checks : caller'[c].state = "current" => caller[c].state = "current" \/ Recent
  BY <1>2, <1>c
<1> QED BY <1>o, <1>1, <1>2, <1>3, <1>4, <1>5, <1>6, <1>7, <1>8, <1>9, <1>t, RevocationStep
        DEF RevocationTypes, Monotonic
\* An object after a step of its refresh.
LEMMA Refreshed ==
  ASSUME NEW o \in Object
  PROVE  /\ [o EXCEPT !.ref = "none"] \in Object /\ [o EXCEPT !.ref = "none"].list = o.list
         /\ o.list # Missing =>
              /\ [o EXCEPT !.ref = "store"] \in Object /\ [o EXCEPT !.ref = "store"].list = o.list
              /\ \A b \in BOOLEAN :
                   /\ [[o EXCEPT !.unpersisted = b] EXCEPT !.ref = "none"] \in Object
                   /\ [[o EXCEPT !.unpersisted = b] EXCEPT !.ref = "none"].list = o.list
         /\ \A kept \in RevocationList :
              /\ [[o EXCEPT !.list = kept, !.etag = TRUE] EXCEPT !.ref = "store"] \in Object
              /\ [[o EXCEPT !.list = kept, !.etag = TRUE] EXCEPT !.ref = "store"].list = kept
<1>1. [o EXCEPT !.ref = "none"] \in Object /\ [o EXCEPT !.ref = "none"].list = o.list BY DEF Object
<1>2. o.list # Missing =>
        [o EXCEPT !.ref = "store"] \in Object /\ [o EXCEPT !.ref = "store"].list = o.list
  BY DEF Object
<1>3. ASSUME o.list # Missing, NEW b \in BOOLEAN
      PROVE  /\ [[o EXCEPT !.unpersisted = b] EXCEPT !.ref = "none"] \in Object
             /\ [[o EXCEPT !.unpersisted = b] EXCEPT !.ref = "none"].list = o.list
  BY <1>3 DEF Object
<1>4. ASSUME NEW kept \in RevocationList
      PROVE  /\ [[o EXCEPT !.list = kept, !.etag = TRUE] EXCEPT !.ref = "store"] \in Object
             /\ [[o EXCEPT !.list = kept, !.etag = TRUE] EXCEPT !.ref = "store"].list = kept
  BY RevocationConstantsOK DEF Object
<1> QED BY <1>1, <1>2, <1>3, <1>4

\* fetch, commit and store, each with its failures.
LEMMA RefreshSteps ==
  ASSUME RevocationInv, NEW i \in Objects,
         \/ FetchListFails(i) \/ NotModified(i) \/ ListStored(i) \/ StoreFails(i)
         \/ \E n \in 1 .. Len(signed) : ListFetched(i, n)
  PROVE  RevocationInv' /\ Monotonic
<1> DEFINE o == objects[i]
<1>t. /\ o \in Object /\ o.list \in RevocationList \cup {Missing} /\ Backed(o.list)
      /\ signed \in Seq(RevocationList)
  BY DEF RevocationInv, RevocationTypes, ListsBacked, Object
<1>u. UNCHANGED <<time, signed, orphaned>>
  BY DEF FetchListFails, NotModified, ListStored, StoreFails, ListFetched
<1>1. CASE FetchListFails(i)
  <2>1. PICK err \in {"failed", "nolist"} :
          Become(Woken(i, err), admitted, [objects EXCEPT ![i] = [o EXCEPT !.ref = "none"]])
    BY <1>1 DEF FetchListFails, RefreshEnds
  <2>2. PICK y \in Object : y = [o EXCEPT !.ref = "none"] /\ y.list = o.list BY <1>t, Refreshed
  <2> QED BY <1>1, <1>t, <1>u, <2>1, <2>2, RefreshStep DEF FetchListFails
<1>2. CASE NotModified(i)
  <2>1. CASE o.unpersisted /\ Become(caller, admitted, [objects EXCEPT ![i].ref = "store"])
    <3>1. PICK y \in Object : y = [o EXCEPT !.ref = "store"] /\ y.list = o.list
      <4>1. o.list # Missing BY <1>t, <2>1 DEF Object
      <4> QED BY <1>t, <4>1, Refreshed
    <3>2. Become(caller, admitted, [objects EXCEPT ![i] = y]) BY <2>1, <3>1
    <3> QED BY <1>2, <1>t, <1>u, <3>1, <3>2, RefreshStep DEF NotModified
  <2>2. CASE Become(Woken(i, "none"), admitted, [objects EXCEPT ![i] = [o EXCEPT !.ref = "none"]])
    <3>1. PICK y \in Object : y = [o EXCEPT !.ref = "none"] /\ y.list = o.list BY <1>t, Refreshed
    <3> QED BY <1>2, <1>t, <1>u, <2>2, <3>1, RefreshStep DEF NotModified
  <2> QED BY <1>2, <2>1, <2>2 DEF NotModified, RefreshEnds
<1>3. CASE ListStored(i) \/ StoreFails(i)
  <2>1. PICK b \in BOOLEAN, err \in {"none", "failed"} :
          Become(Woken(i, err), admitted,
                 [objects EXCEPT ![i] = [[o EXCEPT !.unpersisted = b] EXCEPT !.ref = "none"]])
    BY <1>3 DEF ListStored, StoreFails, RefreshEnds
  <2>2. o.ref = "store" /\ (history' = history \/ history' = Merged(o.list))
    BY <1>3 DEF ListStored, StoreFails
  <2>3. o.list # Missing BY <1>t, <2>2 DEF Object
  <2>4. PICK y \in Object : /\ y = [[o EXCEPT !.unpersisted = b] EXCEPT !.ref = "none"]
                            /\ y.list = o.list
    BY <1>t, <2>3, Refreshed
  <2> QED BY <1>t, <1>u, <2>1, <2>2, <2>3, <2>4, RefreshStep
<1>4. CASE \E n \in 1 .. Len(signed) : ListFetched(i, n)
  <2>1. PICK n \in 1 .. Len(signed) : ListFetched(i, n) BY <1>4
  <2>2. PICK l \in RevocationList : l = signed[n] /\ Backed(l)
    <3>1. signed[n] \in RevocationList BY <1>t, <2>1
    <3> QED BY <3>1 DEF Backed
  <2>3. CASE Become(Woken(i, "failed"), admitted, [objects EXCEPT ![i] = [o EXCEPT !.ref = "none"]])
    <3>1. PICK y \in Object : y = [o EXCEPT !.ref = "none"] /\ y.list = o.list BY <1>t, Refreshed
    <3> QED BY <2>1, <1>t, <1>u, <2>3, <3>1, RefreshStep DEF ListFetched
  <2>4. CASE Become(caller, admitted, [objects EXCEPT ![i] = [Commit(o, l) EXCEPT !.ref = "store"]])
    <3>1. PICK kept \in RevocationList :
            /\ kept = Retain(l, o.list) /\ kept # Missing /\ Backed(kept)
            /\ Revokes(o.list) => Revokes(kept)
      BY <1>t, <2>2, Retains
    <3>2. PICK y \in Object : y = [Commit(o, l) EXCEPT !.ref = "store"] /\ y.list = kept
      BY <1>t, <3>1, Refreshed DEF Commit
    <3> QED BY <2>1, <1>t, <1>u, <2>4, <3>1, <3>2, RefreshStep DEF ListFetched
  <2> QED BY <2>1, <2>2, <2>3, <2>4 DEF ListFetched, RefreshEnds
<1> QED BY <1>1, <1>2, <1>3, <1>4
\* A discovery that begins from the History, or cannot read it.
LEMMA LoadStep ==
  ASSUME RevocationInv, LoadHistory
  PROVE  RevocationInv' /\ Monotonic
<1>t. /\ RevocationTypes /\ ListsBacked /\ DiscoveryAlone /\ UsersKnown /\ Swept
      /\ objects \in [Objects -> Object] /\ caller \in [Callers -> Caller]
      /\ history \in RevocationList \cup {Missing}
  BY DEF RevocationInv, RevocationTypes
<1>c. Discoverer \in Callers /\ Checks \subseteq Callers /\ Discoverer \notin Checks
  BY RevocationConstantsOK DEF Callers
<1>u. UNCHANGED <<time, signed, history, admitted, orphaned>> BY DEF LoadHistory
<1>d. PICK d \in Caller : d = caller[Discoverer] /\ d.pc = "load" /\ d.obj = Missing /\ d.state = "none"
  BY <1>t, <1>c DEF LoadHistory, On, Caller
<1>m. admitted = Missing BY <1>t, <1>d DEF DiscoveryAlone
<1> DEFINE Unread ==
             /\ objects' = objects
             /\ caller' = [caller EXCEPT ![Discoverer].pc = "admitting", ![Discoverer].err = "history"]
           Seeds(i) ==
             /\ ~Used(i, caller, admitted, objects)
             /\ caller' = [caller EXCEPT ![Discoverer].pc = "fresh", ![Discoverer].obj = i]
             /\ objects' = [objects EXCEPT ![i].list = history]
<1>1. CASE Unread
  <2>1. PICK x \in Caller : /\ x = [d EXCEPT !.pc = "admitting", !.err = "history"]
                            /\ x.obj = Missing /\ x.pc = "admitting"
    <3>1. [d EXCEPT !.pc = "admitting", !.err = "history"] \in Caller BY <1>d DEF Caller
    <3>2. /\ [d EXCEPT !.pc = "admitting", !.err = "history"].obj = Missing
          /\ [d EXCEPT !.pc = "admitting", !.err = "history"].pc = "admitting"
      BY <1>d DEF Caller
    <3> QED BY <3>1, <3>2
  <2>2. caller' = [caller EXCEPT ![Discoverer] = x] BY <1>1, <1>c, <1>d, <1>t, <2>1
  <2>3. /\ caller' \in [Callers -> Caller] /\ caller'[Discoverer] = x
        /\ \A p \in Checks : caller'[p] = caller[p]
        /\ \A p \in Callers : caller[p].obj # Missing => caller'[p].obj = caller[p].obj
    BY <1>c, <1>d, <1>t, <2>1, <2>2
  <2>4. DiscoveryAlone' BY <1>m, <1>u, <2>1, <2>3 DEF DiscoveryAlone
  <2> QED BY <1>1, <1>d, <1>t, <1>u, <2>1, <2>3, <2>4, CallersMove DEF UsersKnown
<1>2. CASE \E i \in Objects : Seeds(i)
  <2>1. PICK i \in Objects : Seeds(i) BY <1>2
  <2>2. PICK x \in Caller : /\ x = [d EXCEPT !.pc = "fresh", !.obj = i]
                            /\ x.obj = i /\ x.pc = "fresh" /\ x.state = "none"
    <3>1. [d EXCEPT !.pc = "fresh", !.obj = i] \in Caller BY <1>d DEF Caller
    <3>2. /\ [d EXCEPT !.pc = "fresh", !.obj = i].obj = i /\ [d EXCEPT !.pc = "fresh", !.obj = i].pc = "fresh"
          /\ [d EXCEPT !.pc = "fresh", !.obj = i].state = "none"
      BY <1>d DEF Caller
    <3> QED BY <3>1, <3>2
  <2>3. caller' = [caller EXCEPT ![Discoverer] = x] BY <1>c, <1>d, <1>t, <2>1, <2>2
  <2>4. /\ caller' \in [Callers -> Caller] /\ caller'[Discoverer] = x
        /\ \A p \in Callers \ {Discoverer} : caller'[p] = caller[p]
    BY <1>c, <1>t, <2>3
  <2>5. PICK y \in Object : /\ objects' = [objects EXCEPT ![i] = y]
                            /\ y.list = history /\ y.ref = "none"
    <3>1. objects[i] = Blank BY <1>t, <2>1 DEF Swept
    <3>2. [Blank EXCEPT !.list = history] \in Object
      <4>1. Blank \in Object /\ Blank.ref = "none" /\ Blank.unpersisted = FALSE
        BY RevocationConstantsOK DEF Blank, Object
      <4> QED BY <1>t, <4>1 DEF Object
    <3>3. [Blank EXCEPT !.list = history].list = history /\ [Blank EXCEPT !.list = history].ref = "none"
      BY DEF Blank
    <3> QED BY <1>t, <2>1, <3>1, <3>2, <3>3
  <2>6. /\ objects' \in [Objects -> Object] /\ objects'[i] = y
        /\ \A j \in Objects \ {i} : objects'[j] = objects[j]
    BY <1>t, <2>5
  <2>7. Remain(objects')
    <3>1. ASSUME NEW j \in Objects, ~Used(j, caller', admitted', objects') PROVE objects'[j] = Blank
      <4>1. j # i BY <1>c, <2>2, <2>4, <3>1 DEF Used
      <4>2. ~Used(j, caller, admitted, objects)
        BY <1>d, <1>u, <2>4, <2>6, <3>1, <4>1, RevocationConstantsOK DEF Used
      <4> QED BY <1>t, <2>6, <4>1, <4>2 DEF Swept
    <3> QED BY <2>6, <3>1 DEF Remain
  <2>8. DiscoveryAlone' BY <1>m, <1>u, <2>2, <2>4 DEF DiscoveryAlone
  <2>9. /\ \A c \in Checks : caller'[c] = caller[c]
        /\ caller'[Discoverer].obj = i /\ caller[Discoverer].obj = Missing
    BY <1>c, <1>d, <2>2, <2>4
  <2>10. \A j \in Objects : Backed(objects'[j].list) BY <1>t, <2>5, <2>6 DEF ListsBacked
  <2>11. ~orphaned' => /\ \A c \in Checks : caller'[c].obj \in {Missing, admitted'}
                       /\ \A j \in Objects :
                            objects'[j].ref # "none" => j \in {admitted', caller'[Discoverer].obj}
    BY <1>t, <1>u, <2>5, <2>6, <2>9, RevocationConstantsOK DEF UsersKnown
  <2>12. Revokes(history') => Revokes(objects'[caller'[Discoverer].obj].list)
    BY <1>u, <2>5, <2>6, <2>9
  <2>13. (Revokes(Retained) /\ ~orphaned') =>
           (IF admitted' # Missing THEN Revokes(objects'[admitted'].list) ELSE Revokes(history'))
    BY <1>m, <1>u DEF Retained
  <2> QED BY <1>t, <1>u, <2>4, <2>6, <2>7, <2>8, <2>9, <2>10, <2>11, <2>12, <2>13, RevocationStep
          DEF RevocationTypes, ListsBacked, Monotonic
<1>3. Unread \/ \E i \in Objects : Seeds(i)
  <2> DEFINE free == {i \in Objects : ~Used(i, caller, admitted, objects)}
             j == CHOOSE i \in free : TRUE
  <2>1. CASE /\ free # {}
             /\ caller' = [caller EXCEPT ![Discoverer].pc = "fresh", ![Discoverer].obj = j]
             /\ objects' = [objects EXCEPT ![j].list = history]
    <3>1. j \in free BY <2>1
    <3> QED BY <2>1, <3>1
  <2> QED BY <2>1 DEF LoadHistory
<1> QED BY <1>1, <1>2, <1>3
\* The end of a discovery: it rests, and the checks that waited go on as me.
LEMMA Announces ==
  ASSUME RevocationInv, NEW me \in Caller, me.obj = Missing, me.state # "current"
  PROVE  /\ Announced(me) \in [Callers -> Caller] /\ Announced(me)[Discoverer] = Resting
         /\ \A c \in Checks : /\ Announced(me)[c].obj = caller[c].obj
                              /\ Announced(me)[c].state = "current" => caller[c].state = "current"
<1>1. caller \in [Callers -> Caller] BY DEF RevocationInv, RevocationTypes
<1>2. Resting \in Caller BY DEF Resting, Caller
<1>3. Discoverer \in Callers /\ Checks \subseteq Callers /\ Discoverer \notin Checks
  BY RevocationConstantsOK DEF Callers
<1>4. \A p \in Callers : On(p, "awaiting") => caller[p].obj = Missing BY <1>1 DEF On, Caller
<1>5. Announced(me) \in [Callers -> Caller] BY <1>1, <1>2 DEF Announced
<1>6. Announced(me)[Discoverer] = Resting BY <1>3 DEF Announced
<1>7. ASSUME NEW c \in Checks
      PROVE  /\ Announced(me)[c].obj = caller[c].obj
             /\ Announced(me)[c].state = "current" => caller[c].state = "current"
  <2>1. Announced(me)[c] = IF On(c, "awaiting") THEN me ELSE caller[c] BY <1>3 DEF Announced
  <2> QED BY <1>3, <1>4, <2>1
<1> QED BY <1>5, <1>6, <1>7

\* The discovery admits its object, or fails.
LEMMA DiscoverSteps ==
  ASSUME RevocationInv, DiscoverAdmits \/ DiscoverFails
  PROVE  RevocationInv' /\ Monotonic
<1>t. /\ RevocationTypes /\ ListsBacked /\ DiscoveryAlone /\ UsersKnown /\ SeedKept
      /\ objects \in [Objects -> Object] /\ caller \in [Callers -> Caller]
      /\ orphaned \in BOOLEAN /\ history \in RevocationList \cup {Missing}
  BY DEF RevocationInv, RevocationTypes
<1>c. Discoverer \in Callers BY DEF Callers
<1>u. UNCHANGED <<time, signed, history>> BY DEF DiscoverAdmits, DiscoverFails
<1>d. PICK d \in Caller : d = caller[Discoverer] /\ d.pc = "admitting" /\ d.obj \in Objects \cup {Missing}
  BY <1>t, <1>c DEF DiscoverAdmits, DiscoverFails, On, Caller
<1>m. admitted = Missing BY <1>t, <1>d DEF DiscoveryAlone
<1>r. Resting.pc = "idle" /\ Resting.obj = Missing BY DEF Resting
<1>k. ~orphaned => /\ \A c \in Checks : caller[c].obj = Missing
                   /\ \A i \in Objects : objects[i].ref # "none" => i = d.obj
  BY <1>d, <1>m, <1>t, RevocationConstantsOK DEF UsersKnown
<1>1. ASSUME NEW me \in Caller, me.obj = Missing, me.state # "current", NEW adm \in Objects \cup {Missing},
             Become(Announced(me), adm, objects), orphaned' \in BOOLEAN, ~orphaned' => ~orphaned,
             \A i \in Objects : (~orphaned' /\ objects[i].ref # "none") => i = adm,
             (Revokes(history) /\ ~orphaned') => adm = Missing \/ Revokes(objects[adm].list)
      PROVE  RevocationInv' /\ Monotonic
  <2>1. caller' = Announced(me) /\ admitted' = adm /\ Remain(objects) BY <1>1, <1>t, BecomeRemains
  <2>2. /\ caller' \in [Callers -> Caller] /\ caller'[Discoverer] = Resting
        /\ \A c \in Checks : /\ caller'[c].obj = caller[c].obj
                             /\ caller'[c].state = "current" => caller[c].state = "current"
    BY <1>1, <2>1, Announces
  <2>3. DiscoveryAlone' BY <1>r, <2>2 DEF DiscoveryAlone
  <2>4. ~orphaned' => /\ \A c \in Checks : caller'[c].obj \in {Missing, admitted'}
                      /\ \A i \in Objects :
                           objects[i].ref # "none" => i \in {admitted', caller'[Discoverer].obj}
    BY <1>1, <1>k, <2>1, <2>2
  <2>5. caller'[Discoverer].obj = Missing BY <1>r, <2>2
  <2>6. (Revokes(Retained) /\ ~orphaned') =>
          (IF admitted' # Missing THEN Revokes(objects[admitted'].list) ELSE Revokes(history'))
    BY <1>1, <1>m, <1>u, <2>1 DEF Retained
  <2> QED BY <1>1, <1>t, <1>u, <2>1, <2>2, <2>3, <2>4, <2>5, <2>6, RevocationStep
          DEF RevocationTypes, ListsBacked, Monotonic
<1>2. CASE DiscoverAdmits
  <2>1. PICK me \in Caller : /\ me = [Resting EXCEPT !.pc = "admit"]
                             /\ me.obj = Missing /\ me.state # "current"
    <3>1. [Resting EXCEPT !.pc = "admit"] \in Caller BY DEF Resting, Caller
    <3>2. [Resting EXCEPT !.pc = "admit"].obj = Missing /\ [Resting EXCEPT !.pc = "admit"].state = "none"
      BY DEF Resting
    <3> QED BY <3>1, <3>2
  <2>2. d.obj # Missing /\ Become(Announced(me), d.obj, objects) /\ orphaned' = orphaned
    BY <1>2, <1>d, <2>1 DEF DiscoverAdmits
  <2>3. (Revokes(history) /\ ~orphaned') => Revokes(objects[d.obj].list)
    BY <1>d, <1>t, <2>2 DEF SeedKept
  <2> QED BY <1>1, <1>d, <1>k, <1>t, <2>1, <2>2, <2>3
<1>3. CASE DiscoverFails
  <2>1. d.err \in {"nolist", "history", "failed"} BY <1>3, <1>d DEF DiscoverFails, Caller
  <2>2. PICK s \in {"no_list", "unavailable", "stale"} : Become(Announced(Answered(s)), admitted, objects)
    BY <1>3, <1>d, <2>1 DEF DiscoverFails
  <2>3. Answered(s) \in Caller /\ Answered(s).obj = Missing /\ Answered(s).state # "current"
    BY DEF Answered, Resting, Caller
  <2>4. orphaned' = (orphaned \/ (d.obj # Missing /\ objects[d.obj].ref # "none"))
    BY <1>3, <1>d DEF DiscoverFails
  <2>5. orphaned' \in BOOLEAN /\ (~orphaned' => ~orphaned) BY <1>t, <2>4
  <2>6. \A i \in Objects : (~orphaned' /\ objects[i].ref # "none") => i = admitted
    BY <1>k, <1>m, <2>4, <2>5, RevocationConstantsOK
  <2> QED BY <1>1, <1>m, <2>2, <2>3, <2>5, <2>6
<1> QED BY <1>2, <1>3
\* An eviction and a restart.
LEMMA DropSteps ==
  ASSUME RevocationInv, Evict \/ Restart
  PROVE  RevocationInv' /\ Monotonic
<1>t. /\ RevocationTypes /\ ListsBacked /\ DiscoveryAlone /\ UsersKnown
      /\ objects \in [Objects -> Object] /\ caller \in [Callers -> Caller]
      /\ orphaned \in BOOLEAN /\ history \in RevocationList \cup {Missing}
  BY DEF RevocationInv, RevocationTypes
<1>c. Discoverer \in Callers /\ Checks \subseteq Callers BY DEF Callers
<1>u. UNCHANGED <<time, signed, history>> BY DEF Evict, Restart
<1>b. Blank \in Object /\ Blank.list = Missing /\ Blank.ref = "none"
  BY RevocationConstantsOK DEF Blank, Object
<1>r. Resting \in Caller /\ Resting.pc = "idle" /\ Resting.obj = Missing /\ Resting.state = "none"
  BY DEF Resting, Caller
<1>1. CASE Evict
  <2>1. /\ admitted # Missing /\ Become(caller, Missing, objects)
        /\ orphaned' = (orphaned \/ InUse(admitted) \/ (Revokes(Retained) /\ ~Revokes(history)))
    BY <1>1 DEF Evict
  <2>2. caller' = caller /\ admitted' = Missing /\ Remain(objects) BY <1>t, <2>1, BecomeRemains
  <2>3. /\ orphaned' \in BOOLEAN /\ (~orphaned' => ~orphaned /\ ~InUse(admitted))
        /\ (Revokes(Retained) /\ ~orphaned') => Revokes(history)
    BY <1>t, <2>1
  <2>4. caller[Discoverer].obj = Missing
    <3>1. caller[Discoverer].pc = "idle" BY <1>t, <2>1 DEF DiscoveryAlone
    <3> QED BY <1>c, <1>t, <3>1 DEF Caller
  <2>5. DiscoveryAlone' BY <1>t, <2>2 DEF DiscoveryAlone
  <2>6. ~orphaned' => /\ \A c \in Checks : caller'[c].obj \in {Missing, admitted'}
                      /\ \A i \in Objects :
                           objects[i].ref # "none" => i \in {admitted', caller'[Discoverer].obj}
    <3> SUFFICES ASSUME ~orphaned'
                 PROVE  /\ \A c \in Checks : caller[c].obj = Missing
                        /\ \A i \in Objects : objects[i].ref = "none"
      BY <2>2
    <3>1. \A c \in Checks : caller[c].obj = Missing BY <1>c, <1>t, <2>3 DEF UsersKnown, InUse
    <3>2. \A i \in Objects : objects[i].ref = "none"
      BY <1>t, <2>3, <2>4, RevocationConstantsOK DEF UsersKnown, InUse
    <3> QED BY <3>1, <3>2
  <2> QED BY <1>t, <1>u, <2>2, <2>3, <2>4, <2>5, <2>6, RevocationStep
          DEF RevocationTypes, ListsBacked, Monotonic
<1>2. CASE Restart
  <2> DEFINE obj == [i \in Objects |-> Blank]
  <2>1. /\ Become([p \in Callers |-> Resting], Missing, obj)
        /\ orphaned' = (orphaned \/ (Revokes(Retained) /\ ~Revokes(history)))
    BY <1>2 DEF Restart
  <2>2. obj \in [Objects -> Object] BY <1>b
  <2>3. caller' = [p \in Callers |-> Resting] /\ admitted' = Missing /\ Remain(obj)
    BY <2>1, <2>2, BecomeRemains
  <2>4. /\ orphaned' \in BOOLEAN
        /\ (Revokes(Retained) /\ ~orphaned') => Revokes(history)
    BY <1>t, <2>1
  <2>5. \A p \in Callers : caller'[p] = Resting BY <2>3
  <2>6. caller' \in [Callers -> Caller] BY <1>r, <2>3
  <2>7. DiscoveryAlone' BY <1>c, <1>r, <2>5 DEF DiscoveryAlone
  <2>8. \A i \in Objects : obj[i].list = Missing /\ obj[i].ref = "none" /\ Backed(obj[i].list)
    BY <1>b DEF Backed
  <2> HIDE DEF obj
  <2>9. /\ \A c \in Checks : caller'[c].obj = Missing /\ caller'[c].state # "current"
        /\ caller'[Discoverer].obj = Missing
    BY <1>c, <1>r, <2>5
  <2> QED BY <1>t, <1>u, <2>2, <2>3, <2>4, <2>6, <2>7, <2>8, <2>9, RevocationStep
          DEF RevocationTypes, ListsBacked, Monotonic
<1> QED BY <1>1, <1>2

\* The origin signs a list, time passes, or nothing the checks can see.
LEMMA WorldSteps ==
  ASSUME RevocationInv,
         OriginSigns \/ ListTick \/ PruneFailures \/ UNCHANGED revocationVars
  PROVE  RevocationInv' /\ Monotonic
<1> USE DEF RevocationInv
<1>u. UNCHANGED <<history, admitted, objects, caller, orphaned>>
  BY DEF OriginSigns, ListTick, PruneFailures, revocationVars
<1>m. Monotonic BY <1>u DEF Monotonic, Retained, Revokes
<1>a. DiscoveryAlone' /\ UsersKnown' /\ SeedKept' /\ Swept'
  BY <1>u DEF DiscoveryAlone, UsersKnown, SeedKept, Swept, Used, Revokes
<1>1. CASE UNCHANGED <<time, signed>>
  <2>1. RevocationTypes' BY <1>1, <1>u DEF RevocationTypes
  <2>2. ListsBacked' /\ CurrentIsRecent' BY <1>1, <1>u DEF ListsBacked, Backed, CurrentIsRecent, NextUpdate
  <2> QED BY <1>a, <1>m, <2>1, <2>2
<1>2. CASE OriginSigns
  <2>1. PICK r \in Revocable : signed' = Append(signed, [updated |-> time, kids |-> r]) /\ time' = time
    BY <1>2 DEF OriginSigns
  <2>2. [updated |-> time, kids |-> r] \in RevocationList BY DEF RevocationList, RevocationTypes
  <2>3. signed' \in Seq(RevocationList) BY <2>1, <2>2 DEF RevocationTypes
  <2>4. \A n \in 1 .. Len(signed) : n \in 1 .. Len(signed') /\ signed'[n] = signed[n]
    BY <2>1, <2>2 DEF RevocationTypes
  <2>5. RevocationTypes' BY <1>u, <2>1, <2>3 DEF RevocationTypes
  <2>6. ListsBacked' BY <1>u, <2>4 DEF ListsBacked, Backed
  <2>7. CurrentIsRecent' BY <1>u, <2>1, <2>4 DEF CurrentIsRecent, NextUpdate
  <2> QED BY <1>a, <1>m, <2>5, <2>6, <2>7
<1>3. CASE ListTick
  <2>1. /\ time' = time + 1 /\ signed' = signed
        /\ \A c \in Checks : caller[c].pc \in {"idle", "awaiting", "waiting"}
    BY <1>3 DEF ListTick, On
  <2>2. \A c \in Checks : caller[c].state # "current" BY <2>1 DEF RevocationTypes, Caller, Callers
  <2>3. RevocationTypes' BY <1>u, <2>1 DEF RevocationTypes
  <2>4. ListsBacked' /\ CurrentIsRecent' BY <1>u, <2>1, <2>2 DEF ListsBacked, Backed, CurrentIsRecent
  <2> QED BY <1>a, <1>m, <2>3, <2>4
<1> QED BY <1>1, <1>2, <1>3 DEF PruneFailures, revocationVars

\* The invariant holds before the first check.
LEMMA RevocationInvInit == RevocationInit => RevocationInv
<1> SUFFICES ASSUME RevocationInit PROVE RevocationInv OBVIOUS
<1>c. Discoverer \in Callers /\ Checks \subseteq Callers BY DEF Callers
<1>b. Blank \in Object /\ Blank.list = Missing /\ Blank.ref = "none"
  BY RevocationConstantsOK DEF Blank, Object
<1>r. Resting \in Caller /\ Resting.pc = "idle" /\ Resting.obj = Missing /\ Resting.state = "none"
  BY DEF Resting, Caller
<1>s. signed \in Seq(RevocationList) BY EmptySeq DEF RevocationInit
<1>1. RevocationTypes BY <1>b, <1>r, <1>s DEF RevocationInit, RevocationTypes
<1>2. ListsBacked BY <1>b DEF RevocationInit, ListsBacked, Backed
<1>3. DiscoveryAlone /\ UsersKnown /\ SeedKept /\ CurrentIsRecent
  BY <1>b, <1>c, <1>r DEF RevocationInit, DiscoveryAlone, UsersKnown, SeedKept, CurrentIsRecent
<1>4. Swept BY DEF RevocationInit, Swept
<1> QED BY <1>1, <1>2, <1>3, <1>4 DEF RevocationInv

\* Every step of the checker and its world keeps it, and takes no revocation
\* back.
LEMMA RevocationInvNext ==
  RevocationInv /\ [RevocationNext]_revocationVars => RevocationInv' /\ Monotonic
<1> SUFFICES ASSUME RevocationInv, RevocationNext \/ UNCHANGED revocationVars
             PROVE  RevocationInv' /\ Monotonic
  OBVIOUS
<1> QED BY CheckSteps, FreshSteps, RefreshSteps, LoadStep, DiscoverSteps, DropSteps, WorldSteps
        DEF RevocationNext

\* For every number of checks, objects and lists, and every interval and
\* grace: a key is called current only while a signed list vouches for it.
THEOREM CurrentMeansRecent == RevocationSpec => []CurrentIsRecent
<1>1. RevocationInv => CurrentIsRecent BY DEF RevocationInv
<1> QED BY <1>1, RevocationInvInit, RevocationInvNext, PTL DEF RevocationSpec

\* For every number of checks, objects and lists: a revocation that is held
\* is never taken back, unless an origin was dropped while in use.
THEOREM RevocationsStay == RevocationSpec => NeverUnrevoked
<1>1. RevocationInv /\ [RevocationNext]_revocationVars =>
        [(Revokes(Retained) /\ ~orphaned') => Revokes(Retained')]_revocationVars
  BY RevocationInvNext DEF Monotonic
<1> QED BY <1>1, RevocationInvInit, RevocationInvNext, PTL DEF RevocationSpec, NeverUnrevoked

=============================================================================
