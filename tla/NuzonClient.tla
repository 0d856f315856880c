---------------------------- MODULE NuzonClient ----------------------------
(***************************************************************************)
(* NuzonClient of src/developer_experience/sdk/python/nuzon/client.py.     *)
(* Callers share one client: sync callers are threads calling execute,     *)
(* async callers are coroutines of one event loop calling execute_async,   *)
(* stream callers are threads iterating stream() over the sync client.     *)
(* Both share the circuit breaker state that the response hook             *)
(* _validate_response updates; async callers share one AsyncClient, which  *)
(* "async with" opens and closes.                                          *)
(*                                                                         *)
(* A response is abstracted to its status class and its body: an          *)
(* AgentResponse document, other JSON, or a body that is not JSON.  A      *)
(* network error or timeout is one outcome, "NetworkError".               *)
(***************************************************************************)
EXTENDS Naturals, FiniteSets

CONSTANTS
    Caller,               \* the threads and coroutines using the client
    Mode,                 \* Mode[c] \in {"sync", "async", "stream"}
    Threshold,            \* config.circuit_breaker_threshold
    StopAfterAttempt,     \* stop_after_attempt(3) of execute's @retry
    MaxCalls,             \* bound: MaxCalls[c] calls caller c makes
    SignRequestDefined,   \* FALSE: hmac and hashlib are not imported
    AsyncHooksAwaitable   \* FALSE: sync hooks handed to httpx.AsyncClient

ASSUME Mode \in [Caller -> {"sync", "async", "stream"}]
ASSUME Threshold \in Nat /\ StopAfterAttempt \in Nat \ {0}
ASSUME MaxCalls \in [Caller -> Nat \ {0}]
ASSUME SignRequestDefined \in BOOLEAN /\ AsyncHooksAwaitable \in BOOLEAN

Status == {200, 404, 500}
Body == {"agent", "other", "html"}
Reply == [status : Status, body : Body]

VARIABLES
    pc,             \* pc[c]: where caller c is in its current call
    attempt,        \* attempt[c]: tenacity's attempt number
    calls,          \* calls[c]: calls caller c has started
    resp,           \* resp[c]: the response caller c holds
    tmp,            \* tmp[c]: _failure_count as loaded by +=
    result,         \* result[c]: what c's last call returned or raised
    failureCount,   \* self._failure_count
    circuitOpen,    \* self._circuit_open
    asyncState,     \* the AsyncClient's UNOPENED / OPENED / CLOSED state
    closed,         \* outcome of NuzonClient.close(), "none" before it
    consec,         \* 5xx responses validated since the last 2xx (history)
    inFlightAtOpen  \* callers whose request was admitted before the circuit
                    \* last opened and has not been answered (history)

vars == <<pc, attempt, calls, resp, tmp, result, failureCount, circuitOpen,
          asyncState, closed, consec, inFlightAtOpen>>

NoReply == [status |-> 0, body |-> "none"]
HookSteps == {"inc_load", "inc_store", "inc_check"}

-----------------------------------------------------------------------------
(* execute / execute_async: the circuit check that starts every attempt.   *)
\* Mutant: the check is dropped and every attempt goes ahead.
CircuitCheckIgnoresOpen(c) ==
    /\ pc[c] = "check" /\ Mode[c] # "stream"
    /\ pc' = [pc EXCEPT ![c] = IF Mode[c] = "sync" THEN "send" ELSE "enter"]
    /\ UNCHANGED <<attempt, calls, resp, tmp, result, failureCount, circuitOpen,
                   asyncState, closed, consec>>

CircuitCheck(c) ==
    /\ pc[c] = "check" /\ Mode[c] # "stream"
    /\ IF circuitOpen
       THEN pc' = [pc EXCEPT ![c] = "done"]
            /\ result' = [result EXCEPT ![c] = "NuzonError503"]
       ELSE pc' = [pc EXCEPT ![c] = IF Mode[c] = "sync" THEN "send" ELSE "enter"]
            /\ UNCHANGED result
    /\ UNCHANGED <<attempt, calls, resp, tmp, failureCount, circuitOpen,
                   asyncState, closed, consec>>

(* stream: self._client.stream(...) is sent with no look at _circuit_open. *)
StreamOpen(c) ==
    /\ pc[c] = "check" /\ Mode[c] = "stream"
    /\ pc' = [pc EXCEPT ![c] = "send"]
    /\ UNCHANGED <<attempt, calls, resp, tmp, result, failureCount, circuitOpen,
                   asyncState, closed, consec>>

(* async with self._async_client: httpx refuses to open a client twice.   *)
\* Mutant: entering waits for the client to be free instead of raising.
AsyncEnterWaits(c) ==
    /\ pc[c] = "enter"
    /\ asyncState = "UNOPENED"
    /\ asyncState' = "OPENED" /\ pc' = [pc EXCEPT ![c] = "send"]
    /\ UNCHANGED <<attempt, calls, resp, tmp, result, failureCount, circuitOpen,
                   closed, consec>>

AsyncEnter(c) ==
    /\ pc[c] = "enter"
    /\ IF asyncState = "UNOPENED"
       THEN asyncState' = "OPENED" /\ pc' = [pc EXCEPT ![c] = "send"]
            /\ UNCHANGED result
       ELSE pc' = [pc EXCEPT ![c] = "done"]
            /\ result' = [result EXCEPT ![c] = "RuntimeError"]
            /\ UNCHANGED asyncState
    /\ UNCHANGED <<attempt, calls, resp, tmp, failureCount, circuitOpen,
                   closed, consec>>


RequestHookError(c) ==
    CASE ~SignRequestDefined                          -> "NameError"
      [] Mode[c] = "async" /\ ~AsyncHooksAwaitable    -> "TypeError"
      [] OTHER                                        -> "none"

\* tenacity's attempt counter.  Mutant: the counter is not advanced.
NextAttemptStuck(a) == a
NextAttempt(a) == a + 1

\* stop_after_attempt(3) lets execute run again after a NetworkError.
\* Mutant: one attempt too many.
RetryAllowedOffByOne(a) == a <= StopAfterAttempt
RetryAllowed(a) == a < StopAfterAttempt

\* After the call inside "async with" ends, the client is closed on exit.
AfterCall(c) == IF Mode[c] = "async" THEN "exit" ELSE "done"

\* _validate_response in one step: a coroutine's hook has no await in it.
ValidateFailure(fc) == fc + 1
ValidatedCount(r) ==
    IF r.status >= 500 THEN ValidateFailure(failureCount)
    ELSE IF r.status < 300 THEN 0 ELSE failureCount
ValidatedOpen(r) ==
    IF r.status >= 500 THEN circuitOpen \/ ValidatedCount(r) >= Threshold
    ELSE IF r.status < 300 THEN FALSE ELSE circuitOpen

(* client.post (or client.stream): the request hook, then the network: a   *)
(* NetworkError, which @retry re-runs execute for (not execute_async or    *)
(* stream), or a response, passed to the response hook.  A thread's hook for a 5xx is the three steps of  *)
(* "self._failure_count += 1" followed by the re-read in the if.           *)
Post(c) ==
    /\ pc[c] = "send"
    /\ LET err == RequestHookError(c) IN
       IF err # "none"
       THEN /\ pc' = [pc EXCEPT ![c] = AfterCall(c)]
            /\ result' = [result EXCEPT ![c] = err]
            /\ UNCHANGED <<attempt, resp, failureCount, circuitOpen, consec>>
       ELSE \/ /\ Mode[c] = "sync" /\ RetryAllowed(attempt[c])
               /\ attempt' = [attempt EXCEPT ![c] = NextAttempt(@)]
               /\ pc' = [pc EXCEPT ![c] = "check"]
               /\ UNCHANGED <<result, resp, failureCount, circuitOpen, consec>>
            \/ /\ Mode[c] = "sync" /\ ~RetryAllowed(attempt[c])
               /\ pc' = [pc EXCEPT ![c] = "done"]
               /\ result' = [result EXCEPT ![c] = "RetryError"]
               /\ UNCHANGED <<attempt, resp, failureCount, circuitOpen, consec>>
            \/ /\ Mode[c] \in {"async", "stream"}
               /\ pc' = [pc EXCEPT ![c] = AfterCall(c)]
               /\ result' = [result EXCEPT ![c] = "NetworkError"]
               /\ UNCHANGED <<attempt, resp, failureCount, circuitOpen, consec>>
            \/ \E r \in Reply :
               /\ resp' = [resp EXCEPT ![c] = r]
               /\ consec' = IF r.status >= 500 THEN consec + 1
                            ELSE IF r.status < 300 THEN 0 ELSE consec
               /\ IF Mode[c] \in {"sync", "stream"} /\ r.status >= 500
                  THEN pc' = [pc EXCEPT ![c] = "inc_load"]
                       /\ UNCHANGED <<failureCount, circuitOpen>>
                  ELSE pc' = [pc EXCEPT ![c] = "raise"]
                       /\ failureCount' = ValidatedCount(r)
                       /\ circuitOpen' = ValidatedOpen(r)
               /\ UNCHANGED <<attempt, result>>
    /\ UNCHANGED <<calls, tmp, asyncState, closed>>

IncLoad(c) ==
    /\ pc[c] = "inc_load"
    /\ tmp' = [tmp EXCEPT ![c] = failureCount]
    /\ pc' = [pc EXCEPT ![c] = "inc_store"]
    /\ UNCHANGED <<attempt, calls, resp, result, failureCount, circuitOpen,
                   asyncState, closed, consec>>

IncStore(c) ==
    /\ pc[c] = "inc_store"
    /\ failureCount' = ValidateFailure(tmp[c])
    /\ pc' = [pc EXCEPT ![c] = "inc_check"]
    /\ UNCHANGED <<attempt, calls, resp, tmp, result, circuitOpen,
                   asyncState, closed, consec>>

IncCheck(c) ==
    /\ pc[c] = "inc_check"
    /\ circuitOpen' = (circuitOpen \/ failureCount >= Threshold)
    /\ pc' = [pc EXCEPT ![c] = "raise"]
    /\ UNCHANGED <<attempt, calls, resp, tmp, result, failureCount,
                   asyncState, closed, consec>>

(* raise_for_status and AgentResponse over response.json(), with the         *)
(* handlers: an error status becomes NuzonError built from the JSON body,  *)
(* a schema mismatch NuzonError 422; a body that is not JSON raises        *)
(* JSONDecodeError from response.json(), which nothing catches.            *)
CallOutcome(r) ==
    CASE r.body = "html"                      -> "JSONDecodeError"
      [] r.status >= 300                      -> "NuzonError"
      [] r.body = "other"                     -> "NuzonError422"
      [] OTHER                                -> "AgentResponse"

(* stream has no raise_for_status: every line of the body, whatever the    *)
(* status, goes to json.loads and AgentResponse(...), whose ValidationError *)
(* is not turned into a NuzonError.                                        *)
StreamOutcome(r) ==
    CASE r.body = "html"                      -> "JSONDecodeError"
      [] r.body = "other"                     -> "ValidationError"
      [] OTHER                                -> "AgentResponse"

RaiseForStatus(c) ==
    /\ pc[c] = "raise"
    /\ result' = [result EXCEPT ![c] = IF Mode[c] = "stream"
                                       THEN StreamOutcome(resp[c])
                                       ELSE CallOutcome(resp[c])]
    /\ pc' = [pc EXCEPT ![c] = AfterCall(c)]
    /\ UNCHANGED <<attempt, calls, resp, tmp, failureCount, circuitOpen,
                   asyncState, closed, consec>>

(* Leaving "async with" closes the shared AsyncClient for good.            *)
AsyncExit(c) ==
    /\ pc[c] = "exit"
    /\ asyncState' = "CLOSED"
    /\ pc' = [pc EXCEPT ![c] = "done"]
    /\ UNCHANGED <<attempt, calls, resp, tmp, result, failureCount,
                   circuitOpen, closed, consec>>

(* The application calls execute / execute_async again.                   *)
NextCall(c) ==
    /\ pc[c] = "done" /\ calls[c] < MaxCalls[c] /\ closed = "none"
    /\ pc' = [pc EXCEPT ![c] = "check"]
    /\ calls' = [calls EXCEPT ![c] = @ + 1]
    /\ attempt' = [attempt EXCEPT ![c] = 1]
    /\ resp' = [resp EXCEPT ![c] = NoReply]
    /\ UNCHANGED <<tmp, result, failureCount, circuitOpen, asyncState,
                   closed, consec>>

(* close(), run by __exit__: httpx.AsyncClient has aclose but no close.    *)
Close ==
    /\ closed = "none"
    /\ \A c \in Caller : pc[c] = "done"
    /\ closed' = "AttributeError"
    /\ UNCHANGED <<pc, attempt, calls, resp, tmp, result, failureCount,
                   circuitOpen, asyncState, consec>>

Init ==
    /\ pc = [c \in Caller |-> "check"]
    /\ attempt = [c \in Caller |-> 1]
    /\ calls = [c \in Caller |-> 1]
    /\ resp = [c \in Caller |-> NoReply]
    /\ tmp = [c \in Caller |-> 0]
    /\ result = [c \in Caller |-> "none"]
    /\ failureCount = 0
    /\ circuitOpen = FALSE
    /\ asyncState = "UNOPENED"
    /\ closed = "none"
    /\ consec = 0
    /\ inFlightAtOpen = {}

Step(c) ==
    \/ CircuitCheck(c) \/ StreamOpen(c) \/ AsyncEnter(c) \/ Post(c) \/ IncLoad(c)
    \/ IncStore(c) \/ IncCheck(c) \/ RaiseForStatus(c) \/ AsyncExit(c)

\* Requests sent and not yet answered.
Admitted == {c \in Caller : pc[c] \in {"enter", "send"}}

(* The history variable: when the circuit opens, the requests then in      *)
(* flight; a caller leaves the set once its request is answered.           *)
TrackInFlight ==
    inFlightAtOpen' = IF ~circuitOpen /\ circuitOpen' THEN Admitted'
                      ELSE inFlightAtOpen \cap Admitted'

Next == ((\E c \in Caller : Step(c) \/ NextCall(c)) \/ Close) /\ TrackInFlight

(* Every thread and the event loop keep running while they have work; the *)
(* application is not obliged to call again or to close.                  *)
Spec == Init /\ [][Next]_vars /\ \A c \in Caller : WF_vars(Step(c) /\ TrackInFlight)

-----------------------------------------------------------------------------
Result == {"none", "AgentResponse", "NuzonError503", "NuzonError", "NuzonError422",
           "JSONDecodeError", "ValidationError", "RetryError", "NetworkError", "NameError",
           "TypeError", "RuntimeError"}

ClientTypeOK ==
    /\ pc \in [Caller -> {"check", "enter", "send", "raise", "exit", "done"} \cup HookSteps]
    /\ attempt \in [Caller -> 1..StopAfterAttempt]
    /\ \A c \in Caller : calls[c] \in 1..MaxCalls[c]
    /\ resp \in [Caller -> Reply \cup {NoReply}]
    /\ result \in [Caller -> Result]
    /\ failureCount \in Nat /\ circuitOpen \in BOOLEAN
    /\ asyncState \in {"UNOPENED", "OPENED", "CLOSED"}
    /\ closed \in {"none", "AttributeError"}
    /\ inFlightAtOpen \subseteq Caller

(* The breaker counts what its configuration promises: whenever no thread *)
(* is inside _validate_response, the circuit is open exactly when          *)
(* Threshold 5xx responses have arrived since the last 2xx response.  Two  *)
(* threads can break it through the unsynchronised "+=" at line 165.       *)
CircuitOpensAtThreshold ==
    (\A c \in Caller : pc[c] \notin HookSteps) =>
        (circuitOpen <=> consec >= Threshold)

(* An open circuit is cleared only by the 2xx answer to a request that    *)
(* bypassed it: a stream() request, which never looks at _circuit_open, or *)
(* an execute request that passed the check at line 181 before another    *)
(* caller's hook opened the circuit.  Every call that starts while it is  *)
(* open raises NuzonError 503 before sending, so without streams and in-  *)
(* flight requests the breaker never closes again (there is no half-open). *)
OnlyBypassingRequestsCloseCircuit ==
    [][circuitOpen /\ ~circuitOpen' =>
         \E c \in Caller : pc[c] = "send" /\ (Mode[c] = "stream" \/ c \in inFlightAtOpen)]_vars

(* Every call to execute or execute_async returns or raises: tenacity      *)
(* stops after StopAfterAttempt attempts and the async client never makes  *)
(* a coroutine wait for another.                                           *)
EveryCallTerminates == \A c \in Caller : (pc[c] # "done") ~> (pc[c] = "done")

=============================================================================
