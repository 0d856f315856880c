\* Dispatch retried after EDS received the IDoc.
CONSTANTS
    Doc <- MCDoc
    ParseAttempts = 5
    DispatchAttempts = 3
    ValidateSignatureDefined = TRUE
    MappingsLoaded = TRUE
    MessageTypeInControl = TRUE

SPECIFICATION Spec

\* process_idoc returns, raises or blocks in a POST, and the program ends.
CHECK_DEADLOCK FALSE

INVARIANTS
FailedIDocNotDelivered
