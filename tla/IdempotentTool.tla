--------------------------- MODULE IdempotentTool ---------------------------
(***************************************************************************)
(* WithIdempotency (adcp/v3/idempotent.go): a mutating MCP tool wrapped by *)
(* Store.Wrap, and what the buyer is told.  The store is Idempotency; the  *)
(* wrapper's own state is the call's result, so this module adds one       *)
(* handler outcome and the translation of store errors to the wire.        *)
(***************************************************************************)
EXTENDS Idempotency

CONSTANTS
  Unstructured,  \* attempts whose handler succeeds without structured output
  NonObject,     \* attempts whose structured output is JSON, but no object
  Unencodable    \* attempts whose structured output json.Marshal rejects

ASSUME ShapesOK ==
  {Unstructured, NonObject, Unencodable} \subseteq SUBSET Attempts /\ Unstructured \cap NonObject = {}

VARIABLE unencoded   \* history: calls whose tool took effect and whose output was lost

toolVars == <<vars, unencoded>>

ToolInit == Init /\ unencoded = {}

\* The tool handler succeeded but its structured content cannot be encoded:
\* Wrap sees a plain handler error and treats the key as not executed.
EncodeFails(a) ==
  /\ a \in Unencodable
  /\ HandlerFails(a)
  /\ unencoded' = unencoded \cup {a}

ToolNext ==
  \/ Next /\ UNCHANGED unencoded
  \/ \E a \in Attempts : EncodeFails(a)

ToolSpec == ToolInit /\ [][ToolNext]_toolVars

\* Mutant: the tool's own error result is passed on before looking further.
ErrorToldToolFirst(a) ==
  LET errs == res[a].errs IN
  CASE "handler" \in errs -> "tool_error"
    [] errs \in {{"record_failed"}, {"unknown"}} -> "reconcile"
    [] errs = {"claim_lost"} -> "retry_safely"
    [] errs = {"backend"} -> "unavailable"
    [] errs = {"crashed"} -> "nothing"
    [] errs \subseteq {"conflict", "in_flight", "expired", "refused"} -> CHOOSE e \in errs : TRUE

\* The error switch, in its order: a failed release or record hides the
\* handler's own error result, and only errNotCached passes that result on.
ErrorTold(a) ==
  LET errs == res[a].errs IN
  CASE errs \cap {"release_failed", "record_failed"} # {} -> "reconcile"
    [] errs \cap {"release_failed", "record_failed"} = {} /\ "claim_lost" \in errs -> "retry_safely"
    [] errs = {"handler"} -> IF a \in unencoded THEN "unavailable" ELSE "tool_error"
    [] errs = {"unknown"} -> "reconcile"
    [] errs = {"backend"} -> "unavailable"
    [] errs = {"crashed"} -> "nothing"
    [] errs \subseteq {"conflict", "in_flight", "expired", "refused"} -> CHOOSE e \in errs : TRUE

\* A replay decodes the cached response into a map and adds replayed to it.
\* No structured output was cached as null, which decodes to a nil map; what
\* is no object does not decode.
ReplayTold(a) ==
  IF res[a].of \in Unstructured THEN "panic"
  ELSE IF res[a].of \in NonObject THEN "internal_error"
  ELSE "replayed"

Told(a) ==
  CASE res[a].kind = "none"     -> "nothing"
    [] res[a].kind = "fresh"    -> "fresh"
    [] res[a].kind = "uncached" -> "uncached"
    [] res[a].kind = "replayed" -> ReplayTold(a)
    [] res[a].kind = "error"    -> ErrorTold(a)

-----------------------------------------------------------------------------
\* A buyer handed the tool's own error result may retry with the same key:
\* the tool took no effect and the call's claim no longer fences the key.
\* The order of the error switch matters, since a failed release is joined to
\* the tool's error (idempotent.go 140-162, store.go 335-353).
HonestFailure ==
  \A a \in Attempts : Told(a) = "tool_error" =>
    /\ a \notin effected \cup unencoded
    /\ ~(store[key[a]] # NoEntry /\ store[key[a]].kind = "claim" /\ store[key[a]].tok = a)

\* A call that took effect never ends in an answer that lets the buyer take
\* it for not done: it gets its response, or is told to reconcile, or gets no
\* answer at all.  Left out are the calls whose claim an operator deleted (and,
\* not in effected, the ones whose output could not be encoded).
EffectsAcknowledged ==
  \A a \in effected :
    (Claiming /\ key[a] \notin removed) => Told(a) \in {"fresh", "reconcile", "nothing"}

\* WithIdempotency's comment (idempotent.go 44-45): "a repeated
\* idempotency_key with the same payload returns the cached response with
\* replayed=true".
ReplaysAnswered == \A a \in Attempts : Told(a) # "panic"
=============================================================================
