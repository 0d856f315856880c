\* process_idoc with the missing signature check and message type supplied.
CONSTANTS
    Doc <- MCDoc
    ParseAttempts = 5
    DispatchAttempts = 3
    ValidateSignatureDefined = TRUE
    MappingsLoaded = TRUE
    MessageTypeInControl = TRUE

SPECIFICATION Spec

\* process_idoc returns, raises or blocks in a POST, and the program ends.
CHECK_DEADLOCK FALSE

INVARIANTS
IDocTypeOK
SuccessMeansValidAndDelivered
PROPERTIES
ImplementsContract
