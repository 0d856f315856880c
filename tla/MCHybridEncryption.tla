------------------------- MODULE MCHybridEncryption -------------------------
(* The module's example uses nist_level=3; level 2 (ChaCha20) and a level  *)
(* outside kem_map are the other constructor cases.                        *)
EXTENDS HybridEncryption

MCLevels == {2, 3, 4}
=============================================================================
