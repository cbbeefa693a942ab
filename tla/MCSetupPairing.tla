--------------------------- MODULE MCSetupPairing ---------------------------
(* SetupPairing with constants for TLC. *)
EXTENDS SetupPairing
=============================================================================
