\* Two threads sharing one client.
CONSTANTS
    Caller = {"s1", "s2"}
    Mode <- MCMode
    Threshold = 2
    StopAfterAttempt = 3
    MaxCalls <- MCMaxCalls
    SignRequestDefined = TRUE
    AsyncHooksAwaitable = FALSE

SPECIFICATION Spec

\* The callers finish their calls and the program ends.
CHECK_DEADLOCK FALSE

INVARIANTS
CircuitOpensAtThreshold
