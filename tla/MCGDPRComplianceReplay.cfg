\* Two users' records under an engine with the hmac_secret set, an
\* outsider who can move a record's content and signature into another
\* record, and one compliance check.
CONSTANTS
    User = {u1, u2}
    Data = {d1}
    DataType = {contact_info, biometrics}
    AllowedTypes = {contact_info}
    Consent = {"privacy_policy_v3"}
    RequiredConsents = {"privacy_policy_v3"}
    MaxRetention = 2
    Retention = {2}
    EngineKey = EngineKey
    OtherKey = OtherKey
    NoKey = NoKey
    SecretChoices = {"secret"}
    NoSecret = NoSecret
    NoSignature = NoSignature
    Forged = Forged
    MaxRecords = 2
    MaxAudit = 1

SPECIFICATION Spec

INVARIANT
    SignedCompliantRecordIsUsersOwn
