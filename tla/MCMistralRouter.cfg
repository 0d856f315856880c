\* Three concurrent requests, with cache_ttl configured and a hash that
\* tells payloads apart.
CONSTANTS
    Session = {"s1", "s2", "s3"}
    Payload = {"p1", "p2", "big"}
    Oversize = {"big"}
    FallbackOrder <- MCFallbackOrder
    EndpointProvider <- MCEndpointProvider
    StrategyChoices = {"quality_first", "cost_optimized"}
    MaxRetriesChoices = {0, 2, 3}
    CacheTTLConfigured = TRUE
    SemanticHashDefined = TRUE

SPECIFICATION Spec

\* Every route_request returns or raises, and the program ends.
CHECK_DEADLOCK FALSE

INVARIANTS
RouterTypeOK
FallbackGivesUpAfterMaxRetries
