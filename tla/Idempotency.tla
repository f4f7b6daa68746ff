---------------------------- MODULE Idempotency ----------------------------
(***************************************************************************)
(* The server side of AdCP idempotency (adcp/v3/idempotency): Store.Wrap   *)
(* composed with a storage backend that many callers share.                *)
(*                                                                         *)
(* An attempt is one call of the wrapped handler.  It is also the random   *)
(* token of the claim it writes (newClaimHash draws 128 random bits, so a  *)
(* token is never drawn twice) and the name of the response its handler    *)
(* computes.  Backend calls are the atomic steps: between two of them any  *)
(* other attempt, the sweeper, the operator or the clock may run.          *)
(*                                                                         *)
(* Key validation, scoping and hashing happen before the first backend     *)
(* call and change nothing; a Keys element stands for one (scope, key)     *)
(* pair and a Payloads element for one canonical request hash.             *)
(***************************************************************************)
EXTENDS Integers, FiniteSets

CONSTANTS
  Attempts,    \* calls of the wrapped handler
  Keys,        \* (scope, idempotency_key) pairs
  Payloads,    \* canonical request hashes
  Backends,    \* the backends to consider, see BackendKinds
  TTL,         \* Options.TTL, the replay window
  ClockSkew,   \* Options.ClockSkew
  Grace,       \* how long a sweeper keeps an entry past its expiry
  KeyRequired, \* Options.KeyRequired
  MaxTime,     \* bound on the clock
  MaxInFlight, \* bound on the calls in progress at once
  NoEntry      \* no row under a key

BackendKinds == {"memory", "postgres", "custom"}

Times == 0 .. MaxTime

\* Hash prefixes of store.go: a claim, a released claim, a recorded response.
EntryKinds == {"claim", "retryable", "final"}

\* Entry: tok is the claim token, or the attempt whose response is recorded.
Entry == [kind : EntryKinds, hash : Payloads, tok : Attempts, exp : Nat]

Sentinels == {"refused", "backend", "conflict", "in_flight", "expired", "handler",
              "unknown", "record_failed", "release_failed", "claim_lost", "crashed"}

\* What a call returned; of is the attempt whose response it carries.
Result == [kind : {"none", "fresh", "replayed", "uncached", "error"},
           errs : SUBSET Sentinels, of : Attempts]

\* New panics when the sweeper would drop what the store still serves, and
\* PostgresSchema asks the same grace of any cleanup job.
ASSUME ConstantsOK ==
  /\ Attempts # {} /\ Keys # {} /\ Payloads # {}
  /\ Backends \subseteq BackendKinds
  /\ TTL \in Nat \ {0} /\ ClockSkew \in Nat /\ Grace \in Nat
  /\ ClockSkew <= Grace
  /\ KeyRequired \in BOOLEAN
  /\ MaxTime \in Nat /\ MaxInFlight \in Nat
  /\ NoEntry \notin Entry

VARIABLES
  backend,     \* the backend the store was built with
  clock,       \* Options.Clock, and the sweeper's clock
  store,       \* the backend's rows
  pc,          \* where each attempt is in Wrap / runClaimed
  key, hash,   \* the request's key and payload hash
  now,         \* the clock read at the start of Wrap
  seen,        \* the row an attempt read before reclaiming it
  res,         \* what each attempt returned
  ran,         \* history: attempts whose handler was started
  effected,    \* history: attempts whose handler took effect
  early,       \* history: <<a, b>> when a's handler was started after b's and inside b's window
  removed      \* history: keys whose claim an operator removed

vars == <<backend, clock, store, pc, key, hash, now, seen, res, ran, effected, early, removed>>

PcValues == {"idle", "get", "put", "reread", "reclaim", "reget", "handler",
             "record", "release", "done"}

\* The handler has been started and its claim not yet given up.
Holding == {"handler", "record", "release"}

TypeOK ==
  /\ backend \in Backends
  /\ clock \in Times
  /\ store \in [Keys -> Entry \cup {NoEntry}]
  /\ pc \in [Attempts -> PcValues]
  /\ key \in [Attempts -> Keys]
  /\ hash \in [Attempts -> Payloads]
  /\ now \in [Attempts -> Times]
  /\ seen \in [Attempts -> Entry \cup {NoEntry}]
  /\ res \in [Attempts -> Result]
  /\ ran \subseteq Attempts
  /\ effected \subseteq Attempts
  /\ early \subseteq Attempts \X Attempts
  /\ removed \subseteq Keys

\* Wrap's type test for ClaimBackend.
Claiming == backend # "custom"

\* MemoryBackend never returns an error; a database call may, and then the
\* write it carried may or may not have been applied.
Fallible == backend # "memory"

Claim(a) == [kind |-> "claim", hash |-> hash[a], tok |-> a, exp |-> now[a] + TTL]

\* The marker's lifetime starts when the claim is released, not at now.
Marker(a) == [kind |-> "retryable", hash |-> hash[a], tok |-> a, exp |-> clock + TTL]

\* Mutant: the expiry is computed backwards.
FinalBackdated(a) == [kind |-> "final", hash |-> hash[a], tok |-> a, exp |-> now[a] - TTL]

Final(a) == [kind |-> "final", hash |-> hash[a], tok |-> a, exp |-> now[a] + TTL]

Fresh(a) == [kind |-> "fresh", errs |-> {}, of |-> a]
Err(a, E) == [kind |-> "error", errs |-> E, of |-> a]

expired(e, t) == t > e.exp + ClockSkew

reclaimable(e, h, t) == e.kind = "retryable" /\ e.hash = h /\ ~expired(e, t)

\* Mutant: a stored response answers whatever payload is asked about.
evaluateExistingAnyHash(a, e) ==
  IF e.kind = "claim"
  THEN Err(a, {IF e.hash = hash[a] THEN "in_flight" ELSE "conflict"})
  ELSE IF expired(e, now[a])   THEN Err(a, {"expired"})
  ELSE IF e.kind = "retryable" THEN Err(a, {"in_flight"})
  ELSE [kind |-> "replayed", errs |-> {}, of |-> e.tok]

\* A claim never expires into an executable key.
evaluateExisting(a, e) ==
  IF e.kind = "claim"
  THEN Err(a, {IF e.hash = hash[a] THEN "in_flight" ELSE "conflict"})
  ELSE IF expired(e, now[a])  THEN Err(a, {"expired"})
  ELSE IF e.hash # hash[a]    THEN Err(a, {"conflict"})
  ELSE IF e.kind = "retryable" THEN Err(a, {"in_flight"})
  ELSE [kind |-> "replayed", errs |-> {}, of |-> e.tok]

\* Mutant: the claim hash has no random token.
HashMatchesNoToken(k, e) ==
  store[k] # NoEntry /\ store[k].kind = e.kind /\ store[k].hash = e.hash

\* The row has the Hash string of claim or marker e.
HashMatches(k, e) ==
  store[k] # NoEntry /\ store[k].kind = e.kind /\ store[k].hash = e.hash /\ store[k].tok = e.tok

-----------------------------------------------------------------------------
Init ==
  /\ backend \in Backends
  /\ clock = 0
  /\ store = [k \in Keys |-> NoEntry]
  /\ pc = [a \in Attempts |-> "idle"]
  /\ key = [a \in Attempts |-> CHOOSE k \in Keys : TRUE]
  /\ hash = [a \in Attempts |-> CHOOSE h \in Payloads : TRUE]
  /\ now = [a \in Attempts |-> 0]
  /\ seen = [a \in Attempts |-> NoEntry]
  /\ res = [a \in Attempts |-> [kind |-> "none", errs |-> {}, of |-> a]]
  /\ ran = {}
  /\ effected = {}
  /\ early = {}
  /\ removed = {}

Goto(a, l) == pc' = [pc EXCEPT ![a] = l]

Finish(a, r) == Goto(a, "done") /\ res' = [res EXCEPT ![a] = r]

Forget(a) == seen' = [seen EXCEPT ![a] = NoEntry]

\* The clock past which nothing owes attempt a's key to a any more.
WindowEnd(a) == now[a] + TTL + ClockSkew

StartHandler(a) ==
  /\ Goto(a, "handler")
  /\ ran' = ran \cup {a}
  /\ early' = early \cup {<<a, b>> : b \in {c \in ran : key[c] = key[a] /\ clock <= WindowEnd(c)}}

Write(k, e) == store' = [store EXCEPT ![k] = e]

request == <<key, hash, now>>
started == <<ran, early>>
history == <<effected, removed>>

-----------------------------------------------------------------------------
(* Wrap, up to its first backend call.                                     *)

\* A malformed key, a missing required key, no principal, an unhashable body.
Refuse(a) ==
  /\ pc[a] = "idle"
  /\ Finish(a, Err(a, {"refused"}))
  /\ UNCHANGED <<backend, clock, store, request, seen, started, history>>

\* Without a key, and none required, the handler runs outside the store and
\* its response or error is returned as it is.
RunUncached(a) ==
  /\ pc[a] = "idle" /\ ~KeyRequired
  /\ Finish(a, [kind |-> "uncached", errs |-> {}, of |-> a])
  /\ UNCHANGED <<backend, clock, store, request, seen, started, history>>

\* The clock is read before the row: everything Wrap later decides uses it.
Begin(a, k, h) ==
  /\ pc[a] = "idle"
  /\ Cardinality({b \in Attempts : pc[b] \notin {"idle", "done"}}) < MaxInFlight
  /\ Goto(a, "get")
  /\ key' = [key EXCEPT ![a] = k]
  /\ hash' = [hash EXCEPT ![a] = h]
  /\ now' = [now EXCEPT ![a] = clock]
  /\ UNCHANGED <<backend, clock, store, seen, res, started, history>>

\* What an attempt that has not run its handler does with the row it found.
Resolve(a, e) ==
  IF Claiming /\ reclaimable(e, hash[a], now[a])
  THEN Goto(a, "reclaim") /\ seen' = [seen EXCEPT ![a] = e] /\ UNCHANGED res
  ELSE Finish(a, evaluateExisting(a, e)) /\ UNCHANGED seen

Get(a) ==
  /\ pc[a] = "get"
  /\ \/ /\ store[key[a]] = NoEntry
        /\ IF Claiming THEN Goto(a, "put") /\ UNCHANGED started ELSE StartHandler(a)
        /\ UNCHANGED <<seen, res>>
     \/ /\ store[key[a]] # NoEntry
        /\ Resolve(a, store[key[a]])
        /\ UNCHANGED started
  /\ UNCHANGED <<backend, clock, store, request, history>>

\* The re-read inside a custom backend's PutIfAbsent fails as the record.
GetFails(a) ==
  /\ pc[a] \in {"get", "reread", "reget"} /\ Fallible
  /\ Finish(a, Err(a, {IF pc[a] = "reread" /\ ~Claiming THEN "record_failed" ELSE "backend"}))
  /\ UNCHANGED <<backend, clock, store, request, seen, started, history>>

-----------------------------------------------------------------------------
(* runClaimed: take the claim.                                             *)

\* The memory backend returns the winning row under its lock; the others
\* insert and then read again.
PutClaim(a) ==
  /\ pc[a] = "put"
  /\ \/ /\ store[key[a]] = NoEntry
        /\ Write(key[a], Claim(a))
        /\ StartHandler(a)
        /\ UNCHANGED <<seen, res>>
     \/ /\ store[key[a]] # NoEntry /\ backend = "memory"
        /\ Resolve(a, store[key[a]])
        /\ UNCHANGED <<store, started>>
     \/ /\ store[key[a]] # NoEntry /\ backend # "memory"
        /\ Goto(a, "reread")
        /\ UNCHANGED <<store, seen, res, started>>
  /\ UNCHANGED <<backend, clock, request, history>>

PutClaimFails(a) ==
  /\ pc[a] = "put" /\ Fallible
  /\ \/ UNCHANGED store
     \/ store[key[a]] = NoEntry /\ Write(key[a], Claim(a))
  /\ Finish(a, Err(a, {"backend"}))
  /\ UNCHANGED <<backend, clock, request, seen, started, history>>

\* Mutant: the response PutIfAbsent found stored is ignored.
RereadIgnoresWinner(a) ==
  /\ pc[a] = "reread"
  /\ \/ /\ store[key[a]] = NoEntry \/ ~Claiming
        /\ Finish(a, IF Claiming THEN Err(a, {"in_flight"}) ELSE Fresh(a))
        /\ UNCHANGED seen
     \/ /\ store[key[a]] # NoEntry /\ Claiming
        /\ Resolve(a, store[key[a]])
  /\ UNCHANGED <<backend, clock, store, request, started, history>>

\* The row the insert met may be gone by now: in flight with a claim
\* backend, the response just computed without one.
Reread(a) ==
  /\ pc[a] = "reread"
  /\ \/ /\ store[key[a]] = NoEntry
        /\ Finish(a, IF Claiming THEN Err(a, {"in_flight"}) ELSE Fresh(a))
        /\ UNCHANGED seen
     \/ /\ store[key[a]] # NoEntry
        /\ Resolve(a, store[key[a]])
  /\ UNCHANGED <<backend, clock, store, request, started, history>>

Reclaim(a) ==
  /\ pc[a] = "reclaim"
  /\ \/ /\ HashMatches(key[a], seen[a])
        /\ Write(key[a], Claim(a))
        /\ StartHandler(a)
     \/ /\ ~HashMatches(key[a], seen[a])
        /\ Goto(a, "reget")
        /\ UNCHANGED <<store, started>>
  /\ Forget(a)
  /\ UNCHANGED <<backend, clock, request, res, history>>

ReclaimFails(a) ==
  /\ pc[a] = "reclaim" /\ Fallible
  /\ \/ UNCHANGED store
     \/ HashMatches(key[a], seen[a]) /\ Write(key[a], Claim(a))
  /\ Finish(a, Err(a, {"backend"}))
  /\ Forget(a)
  /\ UNCHANGED <<backend, clock, request, started, history>>

\* Another retry won the reclaim: report what is there now.
Reget(a) ==
  /\ pc[a] = "reget"
  /\ Finish(a, IF store[key[a]] = NoEntry
               THEN Err(a, {"in_flight"})
               ELSE evaluateExisting(a, store[key[a]]))
  /\ UNCHANGED <<backend, clock, store, request, seen, started, history>>

-----------------------------------------------------------------------------
(* The handler.  Its contract: a plain error means it took no effect, an   *)
(* error matching ErrOutcomeUnknown that it may have.                      *)

HandlerReturns(a) ==
  /\ pc[a] = "handler"
  /\ Goto(a, "record")
  /\ effected' = effected \cup {a}
  /\ UNCHANGED <<backend, clock, store, request, seen, res, started, removed>>

HandlerFails(a) ==
  /\ pc[a] = "handler"
  /\ IF Claiming THEN Goto(a, "release") /\ UNCHANGED res
                 ELSE Finish(a, Err(a, {"handler"}))
  /\ UNCHANGED <<backend, clock, store, request, seen, started, history>>

\* Mutant: ErrOutcomeUnknown is treated as any other handler error.
HandlerUnknownReleases(a) ==
  /\ pc[a] = "handler"
  /\ effected' \in {effected, effected \cup {a}}
  /\ IF Claiming THEN Goto(a, "release") /\ UNCHANGED res
                 ELSE Finish(a, Err(a, {"unknown"}))
  /\ UNCHANGED <<backend, clock, store, request, seen, started, removed>>

\* The claim, if there is one, stays.
HandlerUnknown(a) ==
  /\ pc[a] = "handler"
  /\ effected' \in {effected, effected \cup {a}}
  /\ Finish(a, Err(a, {"unknown"}))
  /\ UNCHANGED <<backend, clock, store, request, seen, started, removed>>

-----------------------------------------------------------------------------
(* Finalising: record a response, release a failed claim.                  *)

\* With a claim backend the response replaces the claim; a custom backend's
\* PutIfAbsent stores it now and a stored winner answers instead.
Record(a) ==
  /\ pc[a] = "record"
  /\ \/ /\ Claiming /\ HashMatches(key[a], Claim(a))
        /\ Write(key[a], Final(a))
        /\ Finish(a, Fresh(a))
     \/ /\ Claiming /\ ~HashMatches(key[a], Claim(a))
        /\ Finish(a, Err(a, {"claim_lost"}))
        /\ UNCHANGED store
     \/ /\ ~Claiming /\ store[key[a]] = NoEntry
        /\ Write(key[a], Final(a))
        /\ Finish(a, Fresh(a))
     \/ /\ ~Claiming /\ store[key[a]] # NoEntry
        /\ Goto(a, "reread")
        /\ UNCHANGED <<store, res>>
  /\ UNCHANGED <<backend, clock, request, seen, started, history>>

RecordFails(a) ==
  /\ pc[a] = "record" /\ Fallible
  /\ \/ UNCHANGED store
     \/ /\ IF Claiming THEN HashMatches(key[a], Claim(a)) ELSE store[key[a]] = NoEntry
        /\ Write(key[a], Final(a))
  /\ Finish(a, Err(a, {"record_failed"}))
  /\ UNCHANGED <<backend, clock, request, seen, started, history>>

Release(a) ==
  /\ pc[a] = "release"
  /\ \/ /\ HashMatches(key[a], Claim(a))
        /\ Write(key[a], Marker(a))
        /\ Finish(a, Err(a, {"handler"}))
     \/ /\ ~HashMatches(key[a], Claim(a))
        /\ Finish(a, Err(a, {"handler", "claim_lost"}))
        /\ UNCHANGED store
  /\ UNCHANGED <<backend, clock, request, seen, started, history>>

ReleaseFails(a) ==
  /\ pc[a] = "release" /\ Fallible
  /\ \/ UNCHANGED store
     \/ HashMatches(key[a], Claim(a)) /\ Write(key[a], Marker(a))
  /\ Finish(a, Err(a, {"handler", "release_failed"}))
  /\ UNCHANGED <<backend, clock, request, seen, started, history>>

-----------------------------------------------------------------------------
(* The environment.                                                        *)

\* A panicking handler, or a process that dies while it runs: no one
\* finalises the claim.  Dying before or after the handler leaves the rows as
\* a failed backend call leaves them.
Crash(a) ==
  /\ pc[a] = "handler"
  /\ effected' \in {effected, effected \cup {a}}
  /\ Finish(a, Err(a, {"crashed"}))
  /\ UNCHANGED <<backend, clock, store, request, seen, started, removed>>

\* Mutants: the sweeper drops a row the store still serves; it drops claims.
SweepableNoGrace(e) == e # NoEntry /\ e.kind # "claim" /\ clock > e.exp
SweepableClaims(e) == e # NoEntry /\ clock > e.exp + Grace

Sweepable(e) == e # NoEntry /\ e.kind # "claim" /\ clock > e.exp + Grace

\* MemoryBackend.sweep, and the cleanup statement PostgresSchema prescribes.
Sweep ==
  /\ \E k \in Keys : Sweepable(store[k])
  /\ store' = [k \in Keys |-> IF Sweepable(store[k]) THEN NoEntry ELSE store[k]]
  /\ UNCHANGED <<backend, clock, pc, request, seen, res, started, history>>

\* An operator reconciles an unresolved claim by deleting it.
Reconcile(k) ==
  /\ store[k] # NoEntry /\ store[k].kind = "claim"
  /\ Write(k, NoEntry)
  /\ removed' = removed \cup {k}
  /\ UNCHANGED <<backend, clock, pc, request, seen, res, started, effected>>

Tick ==
  /\ clock < MaxTime
  /\ clock' = clock + 1
  /\ UNCHANGED <<backend, store, pc, request, seen, res, started, history>>

-----------------------------------------------------------------------------
Step(a) ==
  \/ Refuse(a) \/ RunUncached(a)
  \/ \E k \in Keys, h \in Payloads : Begin(a, k, h)
  \/ Get(a) \/ GetFails(a)
  \/ PutClaim(a) \/ PutClaimFails(a) \/ Reread(a)
  \/ Reclaim(a) \/ ReclaimFails(a) \/ Reget(a)
  \/ HandlerReturns(a) \/ HandlerFails(a) \/ HandlerUnknown(a)
  \/ Record(a) \/ RecordFails(a) \/ Release(a) \/ ReleaseFails(a)
  \/ Crash(a)

Next ==
  \/ \E a \in Attempts : Step(a)
  \/ \E k \in Keys : Reconcile(k)
  \/ Sweep
  \/ Tick

Spec == Init /\ [][Next]_vars

-----------------------------------------------------------------------------
(* What the store promises.                                                *)

\* Two executions that both took effect under one key are at least a replay
\* window apart: the later handler was started when the earlier request's
\* window, clock skew included, was over.  Holds whatever the interleaving of
\* runClaimed, crash, ambiguous database error or sweep, as long as no
\* operator deletes a claim (store.go 278-367, memory.go 75-86).
AtMostOnce ==
  \A a, b \in effected :
    (Claiming /\ key[a] \notin removed) => <<a, b>> \notin early

\* A successful answer carries the response of a handler that took effect for
\* the caller's own payload under the caller's own key, and a replayed one
\* was still inside its window when the caller's request began
\* (evaluateExisting, store.go 371-396).
AnswerFidelity ==
  \A a \in Attempts : res[a].kind \in {"fresh", "replayed"} =>
    LET r == res[a].of IN
      /\ r \in effected
      /\ key[r] = key[a] /\ hash[r] = hash[a]
      /\ now[a] <= WindowEnd(r)

\* All callers answered under one key are given the same response until
\* the window of some execution under that key is over.  With a custom
\* backend handlers may run twice, but the first stored response is the one
\* everybody gets (Wrap, store.go 242-271).
AnswersAgree ==
  \A a, b \in Attempts :
    (/\ res[a].kind \in {"fresh", "replayed"} /\ res[b].kind \in {"fresh", "replayed"}
     /\ key[a] = key[b] /\ key[a] \notin removed /\ res[a].of # res[b].of) =>
      \E c \in effected : key[c] = key[a] /\ clock > WindowEnd(c)

\* Only the attempt that wrote a claim replaces it, however late it comes
\* back and whatever was claimed since; the one exception is the operator
\* (the token in newClaimHash, store.go 23-44).
ClaimsFenced ==
  [][\A k \in Keys :
       (store[k] # NoEntry /\ store[k].kind = "claim" /\ store'[k] # store[k]) =>
         \/ store'[k] = NoEntry /\ k \in removed'
         \/ pc'[store[k].tok] # pc[store[k].tok]]_vars

\* A row keeps its key bound to its payload until the row's window, clock
\* skew included, is over: no one rebinds the key to another payload and no
\* sweep frees it before, unless an operator deletes a claim (Handler's
\* contract, store.go 183-189).
BindingLasts ==
  [][\A k \in Keys :
       (store[k] # NoEntry /\ (store'[k] = NoEntry \/ store'[k].hash # store[k].hash)) =>
         \/ store[k].kind = "claim" /\ k \in removed'
         \/ store[k].kind # "claim" /\ clock > store[k].exp + ClockSkew]_vars

-----------------------------------------------------------------------------
(* The store as a ledger.                                                  *)

\* What the ledger shows of a row: the claim is the running call, the marker
\* an open line, the final row an answered one.
LineOf(e) ==
  [state   |-> CASE e.kind = "claim" -> "running" [] e.kind = "retryable" -> "open"
                 [] e.kind = "final" -> "answered",
   payload |-> e.hash, by |-> e.tok, until |-> e.exp - TTL]

\* A blank line is none of those.
ASSUME BlankOK ==
  NoEntry \notin [state : {"running", "open", "answered"}, payload : Payloads, by : Attempts, until : Int]

Keyed(a) == pc[a] # "idle" /\ res[a].kind # "uncached" /\ "refused" \notin res[a].errs

Ledger == INSTANCE IdempotencyLedger WITH
  Calls <- Attempts, Window <- TTL + ClockSkew, Blank <- NoEntry, NoAnswer <- NoEntry,
  ledger <- [k \in Keys |-> IF store[k] = NoEntry THEN NoEntry ELSE LineOf(store[k])],
  asked <- [a \in Attempts |-> IF Keyed(a) THEN <<key[a], hash[a]>> ELSE NoEntry],
  answer <- [a \in Attempts |->
               IF res[a].kind \in {"fresh", "replayed"} THEN res[a].of ELSE NoEntry]

\* Wrap over any backend implements the ledger: whatever two calls read
\* before they write, whichever database calls fail after being applied and
\* whenever the sweeper runs, every change of a row and every answer is one
\* the ledger allows in one step (Wrap, runClaimed, store.go 203-367).
ImplementsLedger == Ledger!Spec
=============================================================================
