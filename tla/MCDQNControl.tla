--------------------------- MODULE MCDQNControl ---------------------------
(* DQNControl with the training loop scaled down; the cfg gives the        *)
(* values.                                                                  *)
EXTENDS DQNControl
=============================================================================
