----------------------------- MODULE ReplayStore -----------------------------
(***************************************************************************)
(* Replay protection of signed requests: MemoryReplayStore                 *)
(* (adcp/v3/signing/replay.go, replay_claim.go) as the two verifiers use   *)
(* it.  The AdCP verifier (verify.go) asks HitCap, Seen and Insert; the    *)
(* Web Bot Auth verifier (wba.go) asks Seen, HitCap and the atomic Claim.  *)
(*                                                                         *)
(* Verifiers run concurrently and time passes within a verification (key   *)
(* resolution calls out).  A verifier reads the time in whole seconds, the *)
(* store in fractions: a second is Ticks clock ticks.  All signatures here *)
(* are by one key and cryptographically good; a signature stands for its   *)
(* nonce, and every copy of a request carries the same one.                *)
(***************************************************************************)
EXTENDS Integers, FiniteSets

CONSTANTS
  Verifiers,      \* requests being verified at once
  Signatures,
  Expires,        \* the expires parameters explored, in seconds
  Profiles,       \* of {"adcp", "wba"}, the verifiers explored
  Skew,           \* skewSeconds
  Ticks,          \* clock ticks in a second
  CapPerKey,      \* MemoryReplayStore.capPerK
  MaxReplayTime,  \* bound on the clock, in ticks
  NoTime

ASSUME ReplayConstantsOK ==
  /\ {Ticks, CapPerKey} \subseteq Nat \ {0} /\ {Skew, MaxReplayTime} \subseteq Nat
  /\ Expires \subseteq Nat /\ Profiles \subseteq {"adcp", "wba"}
  /\ NoTime \notin Nat

VARIABLES
  ticks,       \* the wall clock
  profile,     \* which verifier is deployed
  expiresOf,   \* each signature's expires parameter
  nonces,      \* MemoryReplayStore.entries: when each nonce's entry ends
  perKey,      \* MemoryReplayStore.perKey of the key
  verifier,    \* each verification's place, signature and time
  accepted     \* how often each signature was accepted; history

replayVars == <<ticks, profile, expiresOf, nonces, perKey, verifier, accepted>>

seconds == ticks \div Ticks

Free == [pc |-> "free", sig |-> NoTime, at |-> 0]

ReplayInit ==
  /\ ticks = 0
  /\ profile \in Profiles
  /\ expiresOf \in [Signatures -> Expires]
  /\ nonces = [s \in Signatures |-> NoTime]
  /\ perKey = 0
  /\ verifier = [v \in Verifiers |-> Free]
  /\ accepted = [s \in Signatures |-> 0]

Entries == {s \in Signatures : nonces[s] # NoTime}

\* The verifiers' first and later questions of the store.
First(p) == IF p = "adcp" THEN "cap" ELSE "seen"
AfterCap(p) == IF p = "adcp" THEN "seen" ELSE "record"
AfterSeen(p) == IF p = "adcp" THEN "record" ELSE "cap"

\* The validity window, checked when a verification begins.
InWindow(s, now) == expiresOf[s] >= now - Skew

Goto(v, pc) == verifier' = [verifier EXCEPT ![v] = IF pc = "free" THEN Free ELSE [@ EXCEPT !.pc = pc]]

Begin(v, s) ==
  /\ verifier[v].pc = "free"
  /\ InWindow(s, seconds)
  /\ verifier' = [verifier EXCEPT ![v] = [pc |-> First(profile), sig |-> s, at |-> seconds]]
  /\ UNCHANGED <<ticks, profile, expiresOf, nonces, perKey, accepted>>

\* A signature outside its window is refused before the store is asked.
Expired(v, s) ==
  /\ verifier[v].pc = "free"
  /\ ~InWindow(s, seconds)
  /\ UNCHANGED replayVars

\* HitCap does not sweep.
HitCap(v) ==
  /\ verifier[v].pc = "cap"
  /\ Goto(v, IF perKey >= CapPerKey THEN "free" ELSE AfterCap(profile))
  /\ UNCHANGED <<ticks, profile, expiresOf, nonces, perKey, accepted>>

\* Mutant: the count keeps what the sweep removes.
LeftAllEntries == [entries |-> {s \in Entries : ticks <= nonces[s]}, count |-> perKey]

\* What sweepLocked leaves.
Left ==
  LET live == {s \in Entries : ticks <= nonces[s]}
      dead == Cardinality(Entries \ live)
  IN [entries |-> live, count |-> IF dead > perKey THEN 0 ELSE perKey - dead]

Sweep == [s \in Signatures |-> IF s \in Left.entries THEN nonces[s] ELSE NoTime]

Seen(v) ==
  /\ verifier[v].pc = "seen"
  /\ nonces' = Sweep /\ perKey' = Left.count
  /\ Goto(v, IF verifier[v].sig \in Left.entries THEN "free" ELSE AfterSeen(profile))
  /\ UNCHANGED <<ticks, profile, expiresOf, accepted>>

\* Mutant: the Web Bot Auth verifier's lifetime without its extra second.
lifetimeShort(s, now) == expiresOf[s] - now + Skew

\* How many seconds the entry is kept; now is the verifier's time.
lifetime(s, now) ==
  LET d == expiresOf[s] - now + Skew IN
  IF profile = "wba" THEN (IF d < 0 THEN 1 ELSE d + 1) ELSE IF d <= 0 THEN Skew ELSE d

\* Insert, which does not look for the nonce, and Claim, which does.
Record(v) ==
  LET s == verifier[v].sig IN
  /\ verifier[v].pc = "record"
  /\ \/ /\ Left.count >= CapPerKey \/ (profile = "wba" /\ s \in Left.entries)
        /\ nonces' = Sweep /\ perKey' = Left.count
        /\ UNCHANGED accepted
     \/ /\ Left.count < CapPerKey /\ (profile = "wba" => s \notin Left.entries)
        /\ nonces' = [Sweep EXCEPT ![s] = ticks + Ticks * lifetime(s, verifier[v].at)]
        /\ perKey' = Left.count + 1
        /\ accepted' = [accepted EXCEPT ![s] = @ + 1]
  /\ Goto(v, "free")
  /\ UNCHANGED <<ticks, profile, expiresOf>>

ReplayTick ==
  /\ ticks < MaxReplayTime
  /\ ticks' = ticks + 1
  /\ UNCHANGED <<profile, expiresOf, nonces, perKey, verifier, accepted>>

ReplayNext ==
  \/ \E v \in Verifiers, s \in Signatures : Begin(v, s) \/ Expired(v, s)
  \/ \E v \in Verifiers : HitCap(v) \/ Seen(v) \/ Record(v)
  \/ ReplayTick

ReplaySpec == ReplayInit /\ [][ReplayNext]_replayVars

-----------------------------------------------------------------------------

\* While a signature is within its window, copies of a request are accepted
\* at most once by the Web Bot Auth verifier, however their verifications
\* interleave and wherever in a second they run ("One extra second keeps the
\* entry alive through the last second of the window", wba.go 642-644; Claim,
\* replay_claim.go 27-42).
OnceInWindow ==
  profile = "wba" =>
    \A s \in Signatures : InWindow(s, seconds) => accepted[s] <= 1

\* The per-key count never falls below the entries there are, so the cap
\* bounds them, and under Claim it is their number: a key is refused for its
\* cap only when it has that many entries (perKey, replay.go 40-46, 120-134).
CountCovers ==
  /\ Cardinality(Entries) <= perKey /\ perKey <= CapPerKey
  /\ profile = "wba" => perKey = Cardinality(Entries)
=============================================================================
