------------------------- MODULE MCGDPRCompliance --------------------------
(***************************************************************************)
(* The module's enterprise configuration cut to one required consent, one *)
(* allowed and one disallowed data type and a retention limit of 2 days   *)
(* (for 730), with 3 days the first period too long; the engine runs with *)
(* and without an hmac_secret.                                            *)
(***************************************************************************)
EXTENDS GDPRCompliance

MCSecretChoices == {"secret", NoSecret}
=============================================================================
