\* Two key pairs, two encryptions of one message: enough for a message
\* decrypted with its own key and with the other pair's key.
CONSTANTS
    Levels <- MCLevels
    Message = {"m1"}
    MaxKeys = 2
    MaxEncrypt = 2

SPECIFICATION Spec

\* After the bounded calls the example program has ended.
CHECK_DEADLOCK FALSE

INVARIANT
RoundTrip
