--------------------------- MODULE GDPRCompliance ---------------------------
(***************************************************************************)
(* GDPRComplianceEngine of src/security/audit/gdpr_check.py: records that  *)
(* source systems collect, an outsider who can alter a stored record, and  *)
(* verify_compliance followed by generate_audit_log on a stored record.   *)
(*                                                                         *)
(* Data is symbolic.  raw_content is a Fernet token [key |-> k, data |-> d]*)
(* or bytes that are no token (key NoKey); Fernet.decrypt succeeds only on *)
(* a token made with the engine's key, as Fernet tokens carry their own    *)
(* HMAC.  An HMAC is a record of its key and what it covers.  All records *)
(* are collected at one time, so retention is the number of days between   *)
(* collected_at and retention_end.                                         *)
(***************************************************************************)
EXTENDS Naturals, Sequences, FiniteSets

CONSTANTS
    User,             \* user_id values
    Data,             \* plaintexts a record may carry
    DataType,         \* data_type values
    AllowedTypes,     \* config.allowed_data_types
    Consent,          \* consent ids
    RequiredConsents, \* config.required_consents
    MaxRetention,     \* config.max_data_retention, in days
    Retention,        \* retention_end - collected_at a source may submit
    EngineKey,        \* config.encryption_key
    OtherKey,         \* a Fernet key the outsider holds
    NoKey,            \* model value: raw_content is not a Fernet token
    SecretChoices,    \* the config.hmac_secret values a deployment may set
    NoSecret,         \* model value: hmac_secret is None (or empty)
    NoSignature,      \* model value: signature is None
    Forged,           \* model value: a signature string no HMAC produced
    MaxRecords,       \* bound: records in the store
    MaxAudit          \* bound: audit records generated

ASSUME RequiredConsents \subseteq Consent /\ AllowedTypes \subseteq DataType
ASSUME Retention \subseteq Nat /\ MaxRetention \in Nat

VARIABLES
    hmacSecret,   \* config.hmac_secret of the engine
    store,        \* the GDPRDataRecord objects held
    audit,        \* the audit records generate_audit_log returned
    collected     \* [user, content] pairs the source systems produced (history)

vars == <<hmacSecret, store, audit, collected>>

Hmac(key, over) == [mac |-> key, over |-> over]

Content == [key : {EngineKey, OtherKey, NoKey}, data : Data]

Record == [user : User, dtype : DataType, content : Content, consents : SUBSET Consent,
           retention : Retention, encrypted : BOOLEAN,
           signature : {NoSignature, Forged} \cup [mac : SecretChoices, over : Content]]

-----------------------------------------------------------------------------
(* The five checks of verify_compliance.                                   *)
ValidateConsents(r) == RequiredConsents \subseteq r.consents

\* retention_end <= collected_at + max_data_retention
ValidateDataRetention(r) == r.retention <= MaxRetention

ValidateDataMinimization(r) == r.dtype \in AllowedTypes

\* Mutant: the try block is dropped and the encrypted flag is trusted.
ValidateEncryptionFlagOnly(r) == r.encrypted

\* Not encrypted is a failure; so is a raw_content cipher.decrypt rejects.
ValidateEncryption(r) == r.encrypted /\ r.content.key = EngineKey

\* With no hmac_secret or no signature the integrity check passes;
\* otherwise compare_digest with the HMAC-SHA256 of raw_content.
ValidateHmac(r) ==
    \/ hmacSecret = NoSecret
    \/ r.signature = NoSignature
    \/ r.signature = Hmac(hmacSecret, r.content)

\* verify_compliance: the violations list, in the order the checks run.
Violations(r) ==
    LET checks == << <<ValidateConsents(r), "Missing required consents">>,
                     <<ValidateDataRetention(r), "Invalid data retention period">>,
                     <<ValidateDataMinimization(r), "Data minimization violation">>,
                     <<ValidateEncryption(r), "Encryption requirement failed">>,
                     <<ValidateHmac(r), "Data integrity verification failed">> >>
    IN  [i \in 1..Len(SelectSeq(checks, LAMBDA c : ~c[1])) |->
            SelectSeq(checks, LAMBDA c : ~c[1])[i][2]]

VerifyCompliance(r) == Violations(r) = <<>>

\* Mutant: the payload is raw_content instead of the record's identity.
AuditSignatureOverContent(r) ==
    Hmac(IF hmacSecret = NoSecret THEN EngineKey ELSE hmacSecret, r.content)

\* _generate_audit_signature: keyed by hmac_secret or else encryption_key,
\* over user_id, data_type and collected_at.
AuditSignature(r) ==
    Hmac(IF hmacSecret = NoSecret THEN EngineKey ELSE hmacSecret,
         [user |-> r.user, dtype |-> r.dtype])

-----------------------------------------------------------------------------
(* A source system holding the engine's keys submits a record: raw_content *)
(* Fernet-encrypted with encrypted=True, or plain bytes with encrypted=    *)
(* False; the signature is optional.                                       *)
Collect ==
    /\ Cardinality(store) < MaxRecords
    /\ \E u \in User, d \in Data, t \in DataType, cs \in SUBSET Consent,
          ret \in Retention, enc \in BOOLEAN :
          LET c == [key |-> IF enc THEN EngineKey ELSE NoKey, data |-> d] IN
          \E sig \in {NoSignature} \cup (IF hmacSecret = NoSecret THEN {}
                                    ELSE {Hmac(hmacSecret, c)}) :
             /\ store' = store \cup {[user |-> u, dtype |-> t, content |-> c,
                                      consents |-> cs, retention |-> ret,
                                      encrypted |-> enc, signature |-> sig]}
             /\ collected' = collected \cup {[user |-> u, content |-> c]}
    /\ UNCHANGED <<hmacSecret, audit>>

(* An outsider without the engine's keys rewrites a stored record's        *)
(* (keeping its user_id)                                                   *)
(* raw_content (plain bytes, a token of its own key, or another record's   *)
(* content), its encrypted flag and its signature (kept, dropped, copied   *)
(* from another record, or made up).                                       *)
Tamper ==
    \E r \in store :
      \E c \in {[key |-> k, data |-> d] : k \in {OtherKey, NoKey}, d \in Data}
                  \cup {s.content : s \in store},
         enc \in BOOLEAN,
         sig \in {NoSignature, Forged} \cup {s.signature : s \in store} :
         /\ store' = (store \ {r}) \cup
                     {[r EXCEPT !.content = c, !.encrypted = enc, !.signature = sig]}
         /\ UNCHANGED <<hmacSecret, audit, collected>>

(* verify_compliance(record) then generate_audit_log(record, compliant).   *)
Verify ==
    /\ Len(audit) < MaxAudit
    /\ \E r \in store :
          audit' = Append(audit, [record |-> r, compliant |-> VerifyCompliance(r),
                                  signature |-> AuditSignature(r)])
    /\ UNCHANGED <<hmacSecret, store, collected>>

(* GDPRComplianceEngine(config): Fernet(encryption_key) and                *)
(* _validate_initialization accept a key from Fernet.generate_key and the  *)
(* configured consent ids.                                                 *)
Init ==
    /\ hmacSecret \in SecretChoices
    /\ store = {} /\ audit = <<>> /\ collected = {}

Next == Collect \/ Tamper \/ Verify

Spec == Init /\ [][Next]_vars

-----------------------------------------------------------------------------
GDPRTypeOK ==
    /\ hmacSecret \in SecretChoices
    /\ store \subseteq Record /\ Cardinality(store) <= MaxRecords
    /\ audit \in Seq([record : Record, compliant : BOOLEAN,
                      signature : [mac : SecretChoices \cup {EngineKey},
                                   over : [user : User, dtype : DataType]]])
    /\ collected \subseteq [user : User, content : Content]

(* An audit record that says compliant is about raw_content some source   *)
(* system produced: whatever the outsider does to a stored record, the    *)
(* encryption check (a Fernet token authenticates itself) rejects content *)
(* the outsider made, even where the HMAC check passes because the        *)
(* signature was dropped or no hmac_secret is configured.                 *)
CompliantContentIsCollected ==
    \A i \in 1..Len(audit) :
        audit[i].compliant => audit[i].record.content \in {c.content : c \in collected}

(* A record whose HMAC _validate_hmac checked (a secret is configured and *)
(* the record is signed) and that verify_compliance passes holds content  *)
(* a source system collected for that record's own user_id: the integrity *)
(* check binds the content to the record it is in.                        *)
SignedCompliantRecordIsUsersOwn ==
    \A i \in 1..Len(audit) :
        LET r == audit[i].record IN
        (audit[i].compliant /\ hmacSecret # NoSecret /\ r.signature # NoSignature)
            => [user |-> r.user, content |-> r.content] \in collected
=============================================================================
