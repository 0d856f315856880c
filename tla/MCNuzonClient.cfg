\* One thread calling execute up to three times, one coroutine whose
\* execute_async meets the sync hooks and one thread streaming, with the
\* hmac import supplied.
CONSTANTS
    Caller = {"s1", "a1", "t1"}
    Mode <- MCMode
    Threshold = 2
    StopAfterAttempt = 3
    MaxCalls <- MCMaxCalls
    SignRequestDefined = TRUE
    AsyncHooksAwaitable = FALSE

SPECIFICATION Spec

\* The callers finish their calls and the program ends.
CHECK_DEADLOCK FALSE

INVARIANTS
ClientTypeOK
PROPERTIES
OnlyBypassingRequestsCloseCircuit
EveryCallTerminates
