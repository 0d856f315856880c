-------------------------- MODULE HybridEncryption --------------------------
(***************************************************************************)
(* HybridEncryptionEngine of                                               *)
(* src/core/quantum_layer/crypto_agility/hybrid_schemes.py, modelled       *)
(* symbolically: a key, a secret or a ciphertext is a record naming what   *)
(* it was made from, and two keys are equal only when they are made from   *)
(* the same parts.  Fresh randomness (os.urandom, the KEM's encapsulation  *)
(* secret) is a counter value; decapsulating something that is not a KEM  *)
(* ciphertext for the key yields a secret no encryption produced (Kyber's  *)
(* implicit rejection) or raises.                                          *)
(***************************************************************************)
EXTENDS Naturals, FiniteSets

CONSTANTS
    Levels,        \* nist_level values a caller may pass
    Message,       \* plaintexts
    MaxKeys,       \* bound on generate_hybrid_keys calls
    MaxEncrypt     \* bound on encrypt_hybrid calls

VARIABLES
    level,         \* the nist_level passed to the constructor
    keys,          \* key pairs generated (their numbers)
    fresh,         \* the next fresh random value
    sent,          \* what encrypt_hybrid returned, with its inputs (history)
    decrypted,     \* calls of decrypt_hybrid and their results (history)
    failed         \* exceptions raised out of the constructor or encrypt_hybrid

vars == <<level, keys, fresh, sent, decrypted, failed>>

-----------------------------------------------------------------------------
\* _select_algorithms: kem_map[level], dem_map[level]; another level is a
\* KeyError.  Level 2 pairs the KEM with ChaCha20, the others with AES.
KemMap == [l \in {1, 2, 3} |-> l]
DemMap == [l \in {1, 2, 3} |-> IF l = 2 THEN "ChaCha20" ELSE "AES"]

\* hashes.Hash(SHA3_512) over a concatenation: the hash of its parts.
Hkdf(parts) == [hash |-> parts]

\* Encryption is a record of key, nonce and plaintext; a GCM tag is not
\* kept (encryptor.tag is never read).
DemCiphertext(dk, n, m) == [key |-> dk, nonce |-> n, msg |-> m]

\* Cipher(algorithms.ChaCha20(dem_key), ...): ChaCha20 takes a nonce
\* argument as well, so building the cipher raises TypeError.
DemCipherRaises == DemMap[level] = "ChaCha20"

\* decapsulate(priv_key, ciphertext): the shared secret of a KEM
\* ciphertext made for this key pair, otherwise a secret of its own.
Decapsulate(k, blob) ==
    IF blob.kind = "kem" /\ blob.pub = k THEN blob.ss ELSE [reject |-> blob]

\* decryptor.update(...) + decryptor.finalize(): modes.GCM(nonce) was
\* built without the tag, so finalize raises ValueError in decryption.
DemDecrypt(dk, body) == "None"

-----------------------------------------------------------------------------
\* generate_hybrid_keys: kem.keypair().
GenerateKeys ==
    /\ level \in DOMAIN KemMap /\ Cardinality(keys) < MaxKeys
    /\ keys' = keys \cup {Cardinality(keys) + 1}
    /\ UNCHANGED <<level, fresh, sent, decrypted, failed>>

(* encrypt_hybrid(pub_key, plaintext): a random DEM key, encapsulation, a *)
(* random nonce, GCM encryption under the DEM key, the MAC key hashed     *)
(* from shared_secret + dem_key and the HMAC over ciphertext_dem.  It     *)
(* returns the KEM ciphertext, nonce + ciphertext_dem and the tag.        *)
EncryptHybrid(k, m) ==
    /\ level \in DOMAIN KemMap /\ k \in keys /\ fresh < MaxEncrypt
    /\ fresh' = fresh + 1
    /\ LET dk  == [dem |-> fresh]
           ss  == [ss |-> fresh]
           ct  == [kind |-> "kem", pub |-> k, ss |-> ss]
           dem == DemCiphertext(dk, fresh, m)
           tag == [mac |-> Hkdf(<<ss, dk>>), over |-> dem]
       IN IF DemCipherRaises
          THEN /\ failed' = failed \cup {"TypeError"}
               /\ UNCHANGED sent
          ELSE /\ sent' = sent \cup {[pub |-> k, msg |-> m, kem |-> ct,
                                      body |-> [kind |-> "body", nonce |-> fresh, dem |-> dem],
                                      tag |-> tag]}
               /\ UNCHANGED failed
    /\ UNCHANGED <<level, keys, decrypted>>

(* decrypt_hybrid(priv_key, ciphertext, tag): one ciphertext argument is  *)
(* both decapsulated and split into nonce and ciphertext_dem, so a caller *)
(* passes either the KEM ciphertext or nonce + ciphertext_dem.  The MAC   *)
(* key is hashed from shared_secret + b"" and dem_key is cut from it; a   *)
(* failed verify or any exception returns None.                           *)
DecryptHybrid(k, s, part) ==
    /\ k \in keys /\ s \in sent
    /\ LET blob    == s[part]
           ss      == Decapsulate(k, blob)
           derived == Hkdf(<<ss>>)
           demBody == IF blob.kind = "body" THEN blob.dem ELSE [split |-> blob]
           macOK   == s.tag = [mac |-> derived, over |-> demBody]
           out     == IF macOK THEN DemDecrypt([cut |-> derived], demBody) ELSE "None"
       IN decrypted' = decrypted \cup {[key |-> k, sent |-> s, part |-> part, out |-> out]}
    /\ UNCHANGED <<level, keys, fresh, sent, failed>>

(* HybridEncryptionEngine(nist_level): _select_algorithms raises KeyError *)
(* for a level it has no entry for.                                        *)
Init ==
    /\ level \in Levels
    /\ keys = {} /\ fresh = 0 /\ sent = {} /\ decrypted = {}
    /\ failed = IF level \in DOMAIN KemMap THEN {} ELSE {"KeyError"}

Next ==
    \/ GenerateKeys
    \/ \E k \in 1..MaxKeys, m \in Message : EncryptHybrid(k, m)
    \/ \E k \in 1..MaxKeys, s \in sent, part \in {"kem", "body"} :
          DecryptHybrid(k, s, part)

Spec == Init /\ [][Next]_vars

-----------------------------------------------------------------------------
(* The round trip the module's example prints: decrypt_hybrid with the    *)
(* private key of the pair a message was encrypted for, given what        *)
(* encrypt_hybrid returned for it, returns the plaintext.                 *)
RoundTrip ==
    \A d \in decrypted : d.key = d.sent.pub => d.out = d.sent.msg
=============================================================================
