\* Two source records of one user, an outsider, and one compliance check.
CONSTANTS
    User = {u1}
    Data = {d1}
    DataType = {contact_info, biometrics}
    AllowedTypes = {contact_info}
    Consent = {"privacy_policy_v3"}
    RequiredConsents = {"privacy_policy_v3"}
    MaxRetention = 2
    Retention = {2, 3}
    EngineKey = EngineKey
    OtherKey = OtherKey
    NoKey = NoKey
    SecretChoices <- MCSecretChoices
    NoSecret = NoSecret
    NoSignature = NoSignature
    Forged = Forged
    MaxRecords = 2
    MaxAudit = 1

SPECIFICATION Spec

INVARIANTS
    GDPRTypeOK
    CompliantContentIsCollected
