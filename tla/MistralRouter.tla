---------------------------- MODULE MistralRouter ----------------------------
(***************************************************************************)
(* MistralOrchestrator.route_request of                                    *)
(* src/core/cognition_engine/llm_orchestrator/mistral_integration.py.      *)
(* Sessions are concurrent route_request coroutines sharing the Redis      *)
(* cache.  A request validates its payload, reads the cache, selects a     *)
(* model, walks fallback_order in _execute_with_fallback, stores the       *)
(* response and returns _format_output of it; every exception is turned    *)
(* into an HTTPException by the handlers of route_request.                 *)
(*                                                                         *)
(* A model response is the record of the payload and model it came from;   *)
(* an HTTPException is its status code.                                    *)
(***************************************************************************)
EXTENDS Naturals, Sequences

CONSTANTS
    Session,              \* concurrent route_request calls
    Payload,              \* payloads the sessions send
    Oversize,             \* payloads whose prompt exceeds 10000 characters
    FallbackOrder,        \* config routing.fallback_order
    EndpointProvider,     \* config "endpoints": model -> its provider
    StrategyChoices,      \* values of config routing.strategy
    MaxRetriesChoices,    \* values of config routing.max_retries
    CacheTTLConfigured,   \* FALSE: _load_config never sets "cache_ttl"
    SemanticHashDefined   \* FALSE: _generate_semantic_hash returns None

ASSUME Oversize \subseteq Payload
ASSUME Len(FallbackOrder) > 0
ASSUME MaxRetriesChoices \subseteq Nat

Model == {FallbackOrder[i] : i \in 1..Len(FallbackOrder)}
Response == [payload : Payload, model : Model]

\* _initialize_clients: a client is built only for the three providers it
\* knows; a model of another provider, or without an endpoint, has none.
Clients == {m \in DOMAIN EndpointProvider :
               EndpointProvider[m] \in {"huggingface", "azure", "anthropic"}}

\* _call_model_api: self.clients[model] raises KeyError for a model
\* without a client; otherwise the provider's awaited call may return or
\* raise.
CallCanReturn(m) == m \in Clients
NoResponse == [payload |-> "none", model |-> "none"]
\* What route_request returned or raised: a kind and the response behind it.
Outcome(k) == [kind |-> k, resp |-> NoResponse]

VARIABLES
    strategy,     \* self.config["routing"].strategy
    maxRetries,   \* self.config["routing"].max_retries
    pc,           \* pc[s]: the step of route_request session s is at
    payload,      \* payload[s]: the request's payload
    attempt,      \* attempt[s]: the enumerate index in the fallback loop
    response,     \* response[s]: what _call_model_api returned
    result,       \* result[s]: the returned value or HTTPException status
    cache,        \* Redis: cache key -> stored response
    tried         \* tried[s]: models called for s, in order (history)

vars == <<strategy, maxRetries, pc, payload, attempt, response, result,
          cache, tried>>

\* f"llm_cache:{semantic_hash}": with the placeholder hash every payload
\* has the key of None; with SemanticHashDefined each payload has its own
\* key, the best any hash can do.
CacheKey(p) == IF SemanticHashDefined THEN p ELSE "None"
CacheKeys == {CacheKey(p) : p \in Payload}

\* _is_model_available: circuit_breakers stays empty (_update_circuit_breaker
\* is a no-op) and _check_health_status returns True.
IsModelAvailable(m) == TRUE

-----------------------------------------------------------------------------
(* _validate_payload raises HTTPException(413); route_request's            *)
(* "except Exception" catches it and raises HTTPException(500).           *)
ValidatePayload(s) ==
    /\ pc[s] = "validate"
    /\ IF payload[s] \in Oversize
       THEN pc' = [pc EXCEPT ![s] = "done"] /\ result' = [result EXCEPT ![s] = Outcome("HTTP500")]
       ELSE pc' = [pc EXCEPT ![s] = "check_cache"] /\ UNCHANGED result
    /\ UNCHANGED <<strategy, maxRetries, payload, attempt, response, cache, tried>>

(* await _check_cache: a stored value is truthy and returned as it is.     *)
CheckCache(s) ==
    /\ pc[s] = "check_cache"
    /\ LET hit == cache[CacheKey(payload[s])] IN
       IF hit # NoResponse
       THEN pc' = [pc EXCEPT ![s] = "done"] /\ result' = [result EXCEPT ![s] = [kind |-> "cached", resp |-> hit]]
       ELSE pc' = [pc EXCEPT ![s] = "select"] /\ UNCHANGED result
    /\ UNCHANGED <<strategy, maxRetries, payload, attempt, response, cache, tried>>

(* _select_model: only quality_first has a method behind it; the others    *)
(* call methods no class defines (AttributeError, so 500).  The selected   *)
(* model is then ignored by _execute_with_fallback.                        *)
SelectModel(s) ==
    /\ pc[s] = "select"
    /\ IF strategy = "quality_first"
       THEN pc' = [pc EXCEPT ![s] = "fallback"] /\ UNCHANGED result
       ELSE pc' = [pc EXCEPT ![s] = "done"] /\ result' = [result EXCEPT ![s] = Outcome("HTTP500")]
    /\ attempt' = [attempt EXCEPT ![s] = 1]
    /\ UNCHANGED <<strategy, maxRetries, payload, response, cache, tried>>

(* One iteration of the fallback loop: the awaited call of the next model  *)
(* either returns or raises (a model without a client raises KeyError);    *)
(* a failure re-raises when attempt equals max_retries.  After the last   *)
(* model the loop raises RuntimeError.                                     *)
\* Mutant: the loop re-raises once attempt reaches max_retries - 1.
LastRetryEarly(s) == attempt[s] + 1 = maxRetries
LastRetry(s) == attempt[s] = maxRetries

\* enumerate's next index.  Mutant: the index advances twice (a model skipped).
NextModelSkip(a) == a + 2
NextModel(a) == a + 1

TryModel(s) ==
    /\ pc[s] = "fallback"
    /\ IF attempt[s] > Len(FallbackOrder)
       THEN /\ pc' = [pc EXCEPT ![s] = "done"]
            /\ result' = [result EXCEPT ![s] = Outcome("HTTP500")]
            /\ UNCHANGED <<attempt, response, tried>>
       ELSE LET m == FallbackOrder[attempt[s]] IN
            IF ~IsModelAvailable(m)
            THEN /\ attempt' = [attempt EXCEPT ![s] = NextModel(@)]
                 /\ UNCHANGED <<pc, response, result, tried>>
            ELSE
            /\ tried' = [tried EXCEPT ![s] = Append(@, m)]
            /\ \/ /\ CallCanReturn(m)
                  /\ response' = [response EXCEPT ![s] = [payload |-> payload[s], model |-> m]]
                  /\ pc' = [pc EXCEPT ![s] = "cache_put"]
                  /\ UNCHANGED <<attempt, result>>
               \/ /\ LastRetry(s)
                  /\ pc' = [pc EXCEPT ![s] = "done"]
                  /\ result' = [result EXCEPT ![s] = Outcome("HTTP500")]
                  /\ UNCHANGED <<attempt, response>>
               \/ /\ ~LastRetry(s)
                  /\ attempt' = [attempt EXCEPT ![s] = NextModel(@)]
                  /\ UNCHANGED <<pc, response, result>>
    /\ UNCHANGED <<strategy, maxRetries, payload, cache>>


CacheResponse(s) ==
    /\ pc[s] = "cache_put"
    /\ IF CacheTTLConfigured
       THEN cache' = [cache EXCEPT ![CacheKey(payload[s])] = response[s]]
            /\ result' = [result EXCEPT ![s] = Outcome("None")]
       ELSE UNCHANGED cache /\ result' = [result EXCEPT ![s] = Outcome("HTTP500")]
    /\ pc' = [pc EXCEPT ![s] = "done"]
    /\ UNCHANGED <<strategy, maxRetries, payload, attempt, response, tried>>

Init ==
    /\ strategy \in StrategyChoices
    /\ maxRetries \in MaxRetriesChoices
    /\ pc = [s \in Session |-> "validate"]
    /\ payload \in [Session -> Payload]
    /\ attempt = [s \in Session |-> 0]
    /\ response = [s \in Session |-> NoResponse]
    /\ result = [s \in Session |-> Outcome("none")]
    /\ cache = [k \in CacheKeys |-> NoResponse]
    /\ tried = [s \in Session |-> <<>>]

Step(s) ==
    \/ ValidatePayload(s) \/ CheckCache(s) \/ SelectModel(s)
    \/ TryModel(s) \/ CacheResponse(s)

Next == \E s \in Session : Step(s)

Spec == Init /\ [][Next]_vars

-----------------------------------------------------------------------------
RouterTypeOK ==
    /\ strategy \in StrategyChoices /\ maxRetries \in MaxRetriesChoices
    /\ pc \in [Session -> {"validate", "check_cache", "select", "fallback",
                           "cache_put", "done"}]
    /\ attempt \in [Session -> 0..Len(FallbackOrder) + 1]
    /\ response \in [Session -> Response \cup {NoResponse}]
    /\ result \in [Session -> [kind : {"none", "cached", "None", "HTTP500"},
                                resp : Response \cup {NoResponse}]]
    /\ cache \in [CacheKeys -> Response \cup {NoResponse}]
    /\ \A s \in Session : Len(tried[s]) <= Len(FallbackOrder)

(* _execute_with_fallback calls the models of fallback_order in order, and *)
(* a request whose every call failed called exactly max_retries of them,   *)
(* or all of them when max_retries is not below their number.              *)
FallbackGivesUpAfterMaxRetries ==
    \A s \in Session :
        /\ tried[s] = SubSeq(FallbackOrder, 1, Len(tried[s]))
        /\ (pc[s] = "done" /\ tried[s] # <<>> /\ response[s] = NoResponse) =>
              Len(tried[s]) = IF maxRetries \in 1..Len(FallbackOrder)
                              THEN maxRetries ELSE Len(FallbackOrder)

=============================================================================
