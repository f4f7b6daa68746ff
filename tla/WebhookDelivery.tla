-------------------------- MODULE WebhookDelivery --------------------------
(***************************************************************************)
(* Webhook delivery end to end (adcp/v3/webhook): one Publisher.Emit and   *)
(* the subscriber's HTTPHandler, whose Store.Dedup is Idempotency's Wrap.  *)
(* An attempt is one POST.  The network may lose or delay a request and    *)
(* lose a response: the publisher then sees a transport error while the    *)
(* receiver may still be working on the request, or yet get it.            *)
(*                                                                         *)
(* Signing, verification and body limits decide whether the receiver lets  *)
(* a request in at all; here that is Refuse.                               *)
(***************************************************************************)
EXTENDS Idempotency

CONSTANTS
  MaxAttempts,  \* RetryPolicy.MaxAttempts
  MaxElapsed,   \* RetryPolicy.MaxElapsed
  Backoffs,     \* what backoff may return
  RetryAfters   \* Retry-After values of a busy receiver

\* withDefaults keeps the policy positive; inFlightRetryAfter is a second at
\* least.
ASSUME RetryOK ==
  /\ MaxAttempts \in Nat \ {0} /\ MaxElapsed \in Nat \ {0}
  /\ Backoffs \subseteq Nat \ {0} /\ Backoffs # {}
  /\ RetryAfters \subseteq Nat \ {0} /\ RetryAfters # {}

VARIABLES
  timed,    \* the client has a Timeout, or the context a deadline
  phase,    \* where Emit is: "send", "wait", "sleep" or "over"
  sent,     \* the POSTs made; attempts is their number
  current,  \* the POST being waited for
  wake,     \* when the sleep ends
  outcome   \* why Emit returned

publisher == <<timed, phase, sent, current, wake, outcome>>
allVars == <<vars, publisher>>

\* Mutant: the payload is marshalled, and its key generated, on every attempt.
EmitKeyPerAttempt(a, k) == TRUE

\* Marshal stamps the key once: every POST carries the same key and body.
EmitKey(a, k) == k = CHOOSE x \in Keys : TRUE

EmitInit ==
  /\ Init
  /\ timed \in BOOLEAN
  /\ phase = "send" /\ sent = {} /\ current = CHOOSE a \in Attempts : TRUE
  /\ wake = 0 /\ outcome = "none"

Return(o) == phase' = "over" /\ outcome' = o /\ UNCHANGED wake

\* Mutant: sleepOrBudget does not look at the budget.
SleepOrBudgetUnbounded(d) ==
  phase' = "sleep" /\ wake' = clock + d /\ UNCHANGED outcome

\* Emit starts at time 0.
SleepOrBudget(d) ==
  IF clock + d > MaxElapsed
  THEN Return("max_elapsed")
  ELSE phase' = "sleep" /\ wake' = clock + d /\ UNCHANGED outcome

Send(a) ==
  /\ phase = "send" /\ a \notin sent
  /\ phase' = "wait" /\ sent' = sent \cup {a} /\ current' = a
  /\ UNCHANGED <<vars, timed, wake, outcome>>

\* A failed attempt without a Retry-After: the only place attempts are counted.
Backoff ==
  IF Cardinality(sent) >= MaxAttempts
  THEN Return("max_attempts")
  ELSE \E d \in Backoffs : SleepOrBudget(d)

\* Mutant: a delivery still in progress is acknowledged.
StatusOfBusyIsSuccess(r) ==
  IF r.kind \in {"fresh", "replayed"} \/ "in_flight" \in r.errs THEN "success"
  ELSE IF r.errs \cap {"conflict", "expired", "refused"} # {} THEN "terminal"
  ELSE "transient"

\* writeError, as classifyResponse reads it.
StatusOf(r) ==
  IF r.kind \in {"fresh", "replayed"} THEN "success"
  ELSE IF "in_flight" \in r.errs THEN "busy"
  ELSE IF r.errs \cap {"conflict", "expired", "refused"} # {} THEN "terminal"
  ELSE "transient"

Answered == phase = "wait" /\ pc[current] = "done" /\ res[current].errs # {"crashed"}

Response ==
  /\ Answered
  /\ LET s == StatusOf(res[current]) IN
     \/ s = "success" /\ Return("delivered")
     \/ s = "terminal" /\ Return("terminal_status")
     \/ s = "busy" /\ \E d \in RetryAfters : SleepOrBudget(d)
     \/ s = "transient" /\ Backoff
  /\ UNCHANGED <<vars, timed, sent, current>>

\* The request or its response is lost, late, or its receiver dead.
TransportFails ==
  /\ phase = "wait"
  /\ Backoff
  /\ UNCHANGED <<vars, timed, sent, current>>

Wake ==
  /\ phase = "sleep" /\ clock >= wake
  /\ phase' = "send"
  /\ UNCHANGED <<vars, timed, sent, current, wake, outcome>>

Cancel ==
  /\ phase = "sleep"
  /\ Return("context_canceled")
  /\ UNCHANGED <<vars, timed, sent, current>>

-----------------------------------------------------------------------------
\* The receiver works on the requests that reach it.
Receive ==
  /\ \E a \in sent :
       /\ Step(a)
       /\ EmitKey(a, key'[a])
  /\ UNCHANGED publisher

Emit ==
  \/ \E a \in Attempts : Send(a)
  \/ Response \/ TransportFails
  \/ Wake \/ Cancel

Environment == (Tick \/ \E k \in Keys : Reconcile(k)) /\ UNCHANGED publisher

EmitNext == Emit \/ Receive \/ Environment

\* What Emit owes: it posts, its timers fire, and a POST with a time limit is
\* answered or fails in the end, its response drained or not.  Without one
\* (clientNoRedirect's own client has none) client.Do and the drain may block
\* for good, since the receiver and the network owe nothing.
EmitGoesOn ==
  \/ \E a \in Attempts : Send(a)
  \/ Wake
  \/ timed /\ (Response \/ TransportFails)

EmitSpec ==
  /\ EmitInit /\ [][EmitNext]_allVars
  /\ WF_allVars(EmitGoesOn) /\ WF_allVars(Tick /\ UNCHANGED publisher)

-----------------------------------------------------------------------------
\* One Emit takes effect at most once, however many POSTs it makes, which of
\* them get lost, arrive late, overlap or find a crashed predecessor, while
\* the receiver's window covers the retries (publisher.go 191-199, store.go
\* 80-97) and no operator deletes the claim.
EffectOnce == (Claiming /\ removed = {}) => Cardinality(effected) <= 1

\* Emit reports success only for a payload the receiver's handler accepted:
\* a retry answered while the first POST is in its handler, or after it was
\* rejected, is not a delivery.
DeliveredMeansHandled == outcome = "delivered" => effected # {}

\* Emit returns for good, unless its POSTs have no time limit and it is left
\* waiting for one: a receiver that asks for more time without end, dies or
\* loses its answers is bounded by MaxElapsed and MaxAttempts, which are only
\* looked at between two POSTs (publisher.go 280-299, 306-311).
EmitEnds == <>[](phase = "over" \/ (~timed /\ phase = "wait"))

\* RetryPolicy's comment (publisher.go 31-32): "MaxAttempts caps total
\* attempts including the first. A value of 1 disables retries."
AttemptsCapped == Cardinality(sent) <= MaxAttempts
=============================================================================
